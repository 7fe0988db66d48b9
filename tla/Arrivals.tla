------------------------------ MODULE Arrivals ------------------------------
(***************************************************************************)
(* Documents coming in: the two knocks of the ductile gateway              *)
(* (ingest/arrivals.py), the upload form and the URL form                  *)
(* (web/routes/ingest.py, ingest/url_submit.py), and the delete button     *)
(* (web/routes/library.py), which may be pressed while any of them runs.   *)
(*                                                                         *)
(* Every request runs on a worker thread with a connection of its own and  *)
(* every helper of the store commits, so a request is a sequence of steps  *)
(* and other requests run between any two of them.  A step below is what   *)
(* lies between two commits, or between a commit and a file operation.  A  *)
(* request that only looks and answers (a duplicate, a missing file, an    *)
(* unknown document) changes nothing and is not a step.                    *)
(*                                                                         *)
(* The two forms are coroutines without an await in the part that matters: *)
(* they run on the event loop, and while one runs the server begins no     *)
(* other request.  parsem add, a process of its own, does not wait for it. *)
(*                                                                         *)
(* Left out: the recorded path of a document (no decision here reads it),  *)
(* the images and metadata moved along with a converted file, titles.      *)
(***************************************************************************)
EXTENDS Integers, FiniteSets

CONSTANTS
  Requests,      \* the worker threads: how many requests can run at once
  Names,         \* the file names that appear in inbound/raw/
  Suffix,        \* the kind of file each name announces
  Contents,      \* file contents; equal contents have equal hashes
  Decodable,     \* the contents that are UTF-8 text
  Readable,      \* the contents the parser makes at least one chunk of
  None,          \* no file, no row, no hash
  MaxDocs,       \* bound: rows ever inserted
  MaxArrivals,   \* bound: files dropped and URLs submitted
  MaxDisruptions \* bound: presses of the delete button and restarts, together

Suffixes == {"md", "pdf", "other"}
Statuses == {"processing", "converting", "ready", "failed"}
Rows     == [status : Statuses, hash : Contents \cup {None}, suffix : Suffixes]

ASSUME ArrivalsAssumption ==
  /\ IsFiniteSet(Requests)
  /\ Suffix \in [Names -> Suffixes]
  /\ Readable \subseteq Decodable /\ Decodable \subseteq Contents
  /\ None \notin Contents \cup Rows
  /\ MaxDocs \in Nat \ {0}
  /\ {MaxArrivals, MaxDisruptions} \subseteq Nat

VARIABLES
  raw,         \* inbound/raw/: the content under each name
  converted,   \* inbound/converted/<id>.md, as the converters leave it
  originals,   \* originals/<id>/: document.md and source.<ext>
  documents,   \* the documents table
  chunks,      \* the documents that have chunks, sections and pieces
  nextId,      \* the autoincrement counter of documents
  request,     \* what each worker thread is in the middle of
  jobs,        \* conversions the gateway has accepted and not delivered
  dropped,     \* history: contents that ever reached inbound/raw/
  discarded,   \* history: contents of the documents the user deleted
  raced,       \* history: two requests worked on one file at the same time
  lost,        \* history: the documents whose conversion was never asked for,
               \* or died, or whose row could not be taken back
  arrivals, deletes, crashes   \* counters, for the bounds

files   == <<raw, converted, originals>>
history == <<dropped, discarded, raced, lost>>
counts  == <<arrivals, deletes, crashes>>
vars    == <<files, documents, chunks, nextId, request, jobs, history, counts>>

DocIds == 1..MaxDocs
Idle   == [step |-> "idle", suffix |-> "md", name |-> None, text |-> None,
           doc |-> 0, onLoop |-> FALSE]
NoDirectory == [document |-> None, source |-> None]

Row(status, hash, suffix) == [status |-> status, hash |-> hash, suffix |-> suffix]

Init ==
  /\ raw = [n \in Names |-> None]
  /\ converted = [d \in DocIds |-> None]
  /\ originals = [d \in DocIds |-> NoDirectory]
  /\ documents = [d \in DocIds |-> None]
  /\ chunks = {}
  /\ nextId = 1
  /\ request = [k \in Requests |-> Idle]
  /\ jobs = {}
  /\ dropped = {} /\ discarded = {} /\ raced = FALSE /\ lost = {}
  /\ arrivals = 0 /\ deletes = 0 /\ crashes = 0

-----------------------------------------------------------------------------
(* What a request does to its own record, and to the row it works on.      *)

At(k, step)   == request[k].step = step
Doc(k)        == request[k].doc
GoOn(k, step) == request' = [request EXCEPT ![k].step = step]
Answer(k)     == request' = [request EXCEPT ![k] = Idle]

\* An UPDATE of a row that has been deleted meanwhile matches nothing.
SetStatus(d, status) ==
  documents' = IF documents[d] = None THEN documents
               ELSE [documents EXCEPT ![d].status = status]

\* Rows the running requests will still insert, so that the bound on rows
\* holds no request up in the middle.
Promised == Cardinality({k \in Requests : At(k, "inserting")})

\* find_document_id_by_source_hash
KnownHash(c) == \E d \in DocIds : documents[d] # None /\ documents[d].hash = c

Overlaps(k, c, d) ==
  \E j \in Requests \ {k} :
    /\ ~ At(j, "idle")
    /\ \/ c # None /\ request[j].text = c
       \/ d # 0 /\ request[j].doc = d

LoopIsFree == \A k \in Requests : ~ request[k].onLoop

Begin(k, step, suffix, name, text, d, onLoop) ==
  /\ At(k, "idle")
  /\ request' = [request EXCEPT ![k] =
       [step |-> step, suffix |-> suffix, name |-> name, text |-> text,
        doc |-> d, onLoop |-> onLoop]]

-----------------------------------------------------------------------------
(* Files reach inbound/raw/, by hand or through the upload form, and the   *)
(* gateway knocks for what it sees there, as often as it likes.            *)

Put(n, c) ==
  /\ raw[n] = None
  /\ arrivals < MaxArrivals
  /\ raw' = [raw EXCEPT ![n] = c]
  /\ dropped' = dropped \cup {c}
  /\ arrivals' = arrivals + 1

\* A file is copied into inbound/raw/, or a PDF is uploaded: it waits there.
Drop(n, c) ==
  /\ Put(n, c)
  /\ UNCHANGED <<converted, originals, documents, chunks, nextId, request, jobs,
                 discarded, raced, lost, deletes, crashes>>

\* Mutant: the hash is not looked up.
LookWithoutDedup(k, n, c, onLoop) ==
  /\ nextId + Promised <= MaxDocs
  /\ Begin(k, "inserting", Suffix[n], n, c, 0, onLoop)
  /\ raced' = (raced \/ Overlaps(k, c, 0))

\* process_raw_arrival up to its first write: the file is hashed, and the
\* hash is not in the library.
Look(k, n, c, onLoop) ==
  /\ nextId + Promised <= MaxDocs
  /\ ~ KnownHash(c)
  /\ Begin(k, "inserting", Suffix[n], n, c, 0, onLoop)
  /\ raced' = (raced \/ Overlaps(k, c, 0))

\* post_ingest: an uploaded markdown file is written to inbound/raw/ under a
\* free name and handled at once, without waiting for the gateway.
Upload(k, n, c) ==
  /\ LoopIsFree
  /\ Suffix[n] = "md"
  /\ Put(n, c)
  /\ Look(k, n, c, TRUE)
  /\ UNCHANGED <<converted, originals, documents, chunks, nextId, jobs,
                 discarded, lost, deletes, crashes>>

KnockRaw(k, n) ==
  /\ LoopIsFree
  /\ raw[n] # None
  /\ Look(k, n, raw[n], FALSE)
  /\ UNCHANGED <<files, documents, chunks, nextId, jobs, dropped, discarded, lost,
                 counts>>

\* insert_document, which commits: from here on the hash is known.
Insert(k) ==
  /\ At(k, "inserting")
  /\ nextId <= MaxDocs
  /\ LET pending == IF request[k].suffix = "pdf" THEN "converting" ELSE "processing"
     IN documents' = [documents EXCEPT ![nextId] =
                        Row(pending, request[k].text, request[k].suffix)]
  /\ nextId' = nextId + 1
  /\ request' = [request EXCEPT ![k].step = "moving", ![k].doc = nextId]
  /\ UNCHANGED <<files, chunks, jobs, history, counts>>

\* What the document's directory holds once the file has been moved into it.
Stored(d, suffix, c) ==
  originals' = IF suffix = "md" THEN [originals EXCEPT ![d].document = c]
               ELSE [originals EXCEPT ![d].source = c]

AfterMove(suffix) ==
  CASE suffix = "md"  -> "parsing"
    [] suffix = "pdf" -> "answering"
    [] OTHER          -> "failing"    \* recorded as an unsupported type

\* The file moves from inbound/raw/ into originals/<id>/.  Markdown is read
\* first, and a file that is not text stays where it is.
Move(k) ==
  LET r == request[k] IN
  /\ At(k, "moving")
  /\ raw[r.name] # None
  /\ r.suffix = "md" => raw[r.name] \in Decodable
  /\ raw' = [raw EXCEPT ![r.name] = None]
  /\ Stored(r.doc, r.suffix, raw[r.name])
  /\ request' = [request EXCEPT ![k].step = AfterMove(r.suffix),
                                ![k].name = None, ![k].text = raw[r.name]]
  /\ UNCHANGED <<converted, documents, chunks, nextId, jobs, history, counts>>

\* Mutant: the staged file is cleaned up after a failure.
MoveFailsCleaningUp(k) ==
  LET r == request[k] IN
  /\ At(k, "moving")
  /\ \/ raw[r.name] = None
     \/ r.suffix = "md" /\ raw[r.name] \notin Decodable
  /\ IF r.suffix = "other" THEN Answer(k) ELSE GoOn(k, "failing")
  /\ raw' = [raw EXCEPT ![r.name] = None]
  /\ UNCHANGED <<converted, originals, documents, chunks, nextId, jobs, history, counts>>

\* Mutant: no pipeline catches the exception.
MoveFailsUncaught(k) ==
  LET r == request[k] IN
  /\ At(k, "moving")
  /\ \/ raw[r.name] = None
     \/ r.suffix = "md" /\ raw[r.name] \notin Decodable
  /\ Answer(k)
  /\ UNCHANGED <<files, documents, chunks, nextId, jobs, history, counts>>

\* The move fails: another request has moved the file, or it is not text.
\* _ingest_markdown and _stage_pdf_for_docling catch this and mark the row
\* failed; _record_unsupported does not, and the request dies with the row
\* as it stands.
MoveFails(k) ==
  LET r == request[k] IN
  /\ At(k, "moving")
  /\ \/ raw[r.name] = None
     \/ r.suffix = "md" /\ raw[r.name] \notin Decodable
  /\ IF r.suffix = "other" THEN Answer(k) ELSE GoOn(k, "failing")
  /\ UNCHANGED <<files, documents, chunks, nextId, jobs, history, counts>>

\* The answer submit_to_docling reaches the gateway, which starts converting.
AnswerPdf(k) ==
  /\ At(k, "answering")
  /\ jobs' = jobs \cup {Doc(k)}
  /\ Answer(k)
  /\ UNCHANGED <<files, documents, chunks, nextId, history, counts>>

\* The answer is lost on the way: the gateway converts nothing, and the next
\* knock for the file finds it gone, or known.
AnswerLost(k) ==
  /\ At(k, "answering")
  /\ lost' = lost \cup {Doc(k)}
  /\ Answer(k)
  /\ UNCHANGED <<files, documents, chunks, nextId, jobs, dropped, discarded, raced,
                 counts>>

-----------------------------------------------------------------------------
(* parse_and_persist, at the end of both pipelines.                        *)

\* Mutant: an empty plan is not treated as a failure.
ParseKeepingEmpty(k) ==
  /\ At(k, "parsing")
  /\ GoOn(k, IF documents[Doc(k)] = None THEN "failing"
             ELSE IF request[k].text \in Readable THEN "persisting" ELSE "finishing")
  /\ UNCHANGED <<files, documents, chunks, nextId, jobs, history, counts>>

\* The text is parsed and chunked.  A text without chunks, or a document
\* that has been deleted (its revision cannot be inserted), is a failure.
Parse(k) ==
  /\ At(k, "parsing")
  /\ GoOn(k, IF request[k].text \in Readable /\ documents[Doc(k)] # None
             THEN "persisting" ELSE "failing")
  /\ UNCHANGED <<files, documents, chunks, nextId, jobs, history, counts>>

\* insert_chunking_artifacts, one transaction.  The second set of chunks for
\* a document breaks UNIQUE(document_id, position), chunks for a deleted
\* document break the foreign key; both are rolled back and raised.
Persist(k) ==
  /\ At(k, "persisting")
  /\ IF Doc(k) \in chunks \/ documents[Doc(k)] = None
     THEN /\ GoOn(k, "failing")
          /\ UNCHANGED chunks
     ELSE /\ chunks' = chunks \cup {Doc(k)}
          /\ GoOn(k, "finishing")
  /\ UNCHANGED <<files, documents, nextId, jobs, history, counts>>

\* mark_document_ready
MarkReady(k) ==
  /\ At(k, "finishing")
  /\ SetStatus(Doc(k), "ready")
  /\ Answer(k)
  /\ UNCHANGED <<files, chunks, nextId, jobs, history, counts>>

\* mark_document_failed, whatever the row says by now.
MarkFailed(k) ==
  /\ At(k, "failing")
  /\ SetStatus(Doc(k), "failed")
  /\ Answer(k)
  /\ UNCHANGED <<files, chunks, nextId, jobs, history, counts>>

-----------------------------------------------------------------------------
(* The other half of the seam: converters deliver <id>.md and the gateway  *)
(* knocks for it.                                                          *)

\* External: the converter writes what it made of the source.
Convert(d, c) ==
  /\ d \in jobs
  /\ jobs' = jobs \ {d}
  /\ converted' = [converted EXCEPT ![d] = c]
  /\ UNCHANGED <<raw, originals, documents, chunks, nextId, request, history, counts>>

\* External: the conversion fails, or its container dies: nothing is written.
ConversionDies(d) ==
  /\ d \in jobs
  /\ jobs' = jobs \ {d}
  /\ lost' = lost \cup {d}
  /\ UNCHANGED <<files, documents, chunks, nextId, request, dropped, discarded,
                 raced, counts>>

\* Mutant: the row's status is not checked, and the missing
\* file is met when it is read.
KnockConvertedUnchecked(k, d) ==
  /\ LoopIsFree
  /\ documents[d] # None
  /\ Begin(k, "reading", "pdf", None, None, d, FALSE)
  /\ raced' = (raced \/ Overlaps(k, None, d))
  /\ UNCHANGED <<files, documents, chunks, nextId, jobs, dropped, discarded, lost,
                 counts>>

\* process_converted_arrival up to its first effect: the row exists and is
\* not ready yet, and the file is there.
KnockConverted(k, d) ==
  /\ LoopIsFree
  /\ documents[d] # None
  /\ documents[d].status # "ready"
  /\ converted[d] # None
  /\ Begin(k, "reading", "pdf", None, None, d, FALSE)
  /\ raced' = (raced \/ Overlaps(k, None, d))
  /\ UNCHANGED <<files, documents, chunks, nextId, jobs, dropped, discarded, lost,
                 counts>>

\* The text is read; another request may have taken the file away since, or
\* it is no text.
Read(k) ==
  /\ At(k, "reading")
  /\ request' = [request EXCEPT
                   ![k].step = IF converted[Doc(k)] \in Decodable THEN "storing"
                               ELSE "failing",
                   ![k].text = converted[Doc(k)]]
  /\ UNCHANGED <<files, documents, chunks, nextId, jobs, history, counts>>

\* _relocate_converted_cluster: document.md is written, the staged file is
\* removed last, if it is still there.
Store(k) ==
  /\ At(k, "storing")
  /\ Stored(Doc(k), "md", request[k].text)
  /\ converted' = [converted EXCEPT ![Doc(k)] = None]
  /\ GoOn(k, "parsing")
  /\ UNCHANGED <<raw, documents, chunks, nextId, jobs, history, counts>>

-----------------------------------------------------------------------------
(* submit_url: a converting row first, then the gateway, and the row is    *)
(* taken back when the gateway does not accept.                            *)

\* Through the form, or by parsem add.
SubmitUrl(k) ==
  /\ arrivals < MaxArrivals
  /\ nextId + Promised <= MaxDocs
  /\ \E onLoop \in {TRUE, FALSE} :
       /\ onLoop => LoopIsFree
       /\ Begin(k, "submitting", "pdf", None, None, nextId, onLoop)
  /\ documents' = [documents EXCEPT ![nextId] = Row("converting", None, "pdf")]
  /\ nextId' = nextId + 1
  /\ arrivals' = arrivals + 1
  /\ UNCHANGED <<files, chunks, jobs, history, deletes, crashes>>

SubmitAccepted(k) ==
  /\ At(k, "submitting")
  /\ jobs' = jobs \cup {Doc(k)}
  /\ Answer(k)
  /\ UNCHANGED <<files, documents, chunks, nextId, history, counts>>

\* Refused or unreachable, or accepted with the answer lost in a timeout.
SubmitFails(k) ==
  /\ At(k, "submitting")
  /\ \/ UNCHANGED jobs
     \/ jobs' = jobs \cup {Doc(k)}
  /\ GoOn(k, "withdrawing")
  /\ UNCHANGED <<files, documents, chunks, nextId, history, counts>>

\* Mutant: foreign keys are off, nothing cascades.
ForgetRowOnly(d) ==
  /\ documents' = [documents EXCEPT ![d] = None]
  /\ UNCHANGED chunks

\* delete_document: the chunks go with the row.
Forget(d) ==
  /\ documents' = [documents EXCEPT ![d] = None]
  /\ chunks' = chunks \ {d}

Withdraw(k) ==
  /\ At(k, "withdrawing")
  /\ Forget(Doc(k))
  /\ Answer(k)
  /\ UNCHANGED <<files, nextId, jobs, history, counts>>

\* The compensating delete fails too, and its error is swallowed.
WithdrawFails(k) ==
  /\ At(k, "withdrawing")
  /\ lost' = lost \cup {Doc(k)}
  /\ Answer(k)
  /\ UNCHANGED <<files, documents, chunks, nextId, jobs, dropped, discarded, raced,
                 counts>>

-----------------------------------------------------------------------------
(* post_delete: the row, then the directory.                               *)

Delete(k, d) ==
  /\ LoopIsFree
  /\ deletes + crashes < MaxDisruptions
  /\ documents[d] # None
  /\ Begin(k, "removing", "md", None, None, d, FALSE)
  /\ Forget(d)
  /\ discarded' = discarded \cup ({documents[d].hash} \ {None})
  /\ deletes' = deletes + 1
  /\ UNCHANGED <<files, nextId, jobs, dropped, raced, lost, arrivals, crashes>>

RemoveDirectory(k) ==
  /\ At(k, "removing")
  /\ originals' = [originals EXCEPT ![Doc(k)] = NoDirectory]
  /\ Answer(k)
  /\ UNCHANGED <<raw, converted, documents, chunks, nextId, jobs, history, counts>>

\* The machine stops: every request is gone, files and committed rows stay.
Crash ==
  /\ deletes + crashes < MaxDisruptions
  /\ \E k \in Requests : ~ At(k, "idle")
  /\ request' = [k \in Requests |-> Idle]
  /\ crashes' = crashes + 1
  /\ UNCHANGED <<files, documents, chunks, nextId, jobs, history, arrivals, deletes>>

-----------------------------------------------------------------------------
Work(k) ==
  \/ Insert(k) \/ Move(k) \/ MoveFails(k) \/ AnswerPdf(k) \/ AnswerLost(k)
  \/ Parse(k) \/ Persist(k) \/ MarkReady(k) \/ MarkFailed(k)
  \/ Read(k) \/ Store(k)
  \/ SubmitAccepted(k) \/ SubmitFails(k) \/ Withdraw(k) \/ WithdrawFails(k)
  \/ RemoveDirectory(k)

Gateway ==
  \/ \E k \in Requests, n \in Names : KnockRaw(k, n)
  \/ \E k \in Requests, d \in DocIds : KnockConverted(k, d)

Converters == \E d \in DocIds : ConversionDies(d) \/ \E c \in Contents : Convert(d, c)

People ==
  \/ \E n \in Names, c \in Contents : Drop(n, c)
  \/ \E k \in Requests, n \in Names, c \in Contents : Upload(k, n, c)
  \/ \E k \in Requests : SubmitUrl(k)
  \/ \E k \in Requests, d \in DocIds : Delete(k, d)

Next ==
  \/ \E k \in Requests : Work(k)
  \/ Gateway
  \/ Converters
  \/ People
  \/ Crash

Spec == Init /\ [][Next]_vars

-----------------------------------------------------------------------------
Steps == {"idle", "inserting", "moving", "parsing", "answering", "failing",
          "persisting", "finishing", "reading", "storing", "submitting",
          "withdrawing", "removing"}
Tasks == [step : Steps, suffix : Suffixes, name : Names \cup {None},
          text : Contents \cup {None}, doc : DocIds \cup {0}, onLoop : BOOLEAN]
Directories == [document : Contents \cup {None}, source : Contents \cup {None}]

\* Every file, row and request is of the form the code produces, and chunks
\* belong to rows.
TypeOK ==
  /\ raw \in [Names -> Contents \cup {None}]
  /\ converted \in [DocIds -> Contents \cup {None}]
  /\ originals \in [DocIds -> Directories]
  /\ documents \in [DocIds -> Rows \cup {None}]
  /\ chunks \subseteq {d \in DocIds : documents[d] # None}
  /\ nextId \in 1..(MaxDocs + 1)
  /\ request \in [Requests -> Tasks]
  /\ jobs \subseteq DocIds
  /\ dropped \subseteq Contents /\ discarded \subseteq Contents
  /\ raced \in BOOLEAN
  /\ lost \subseteq DocIds
  /\ {arrivals, deletes, crashes} \subseteq Nat

OwnerDeleted == raced /\ deletes > 0

\* What has been dropped is never lost: until its document is deleted it lies
\* in inbound/raw/ or in the directory of a document of the library, wherever
\* a crash falls and however requests interleave.  (Only when two requests
\* fight for a file and the user deletes one of their documents meanwhile
\* can a file end up in a directory no document owns.)
DropsAreNeverLost ==
  OwnerDeleted \/ \A c \in dropped \ discarded :
    \/ \E n \in Names : raw[n] = c
    \/ \E d \in DocIds : /\ documents[d] # None
                         /\ c \in {originals[d].document, originals[d].source}

\* A document shown as ready can be opened: its chunks are stored and its
\* markdown is on disk.
ReadyIsComplete ==
  \A d \in DocIds :
    (documents[d] # None /\ documents[d].status = "ready")
      => d \in chunks /\ originals[d].document # None

\* One content, one document (the claim of arrivals.py and routes/arrivals.py
\* that repeated knocks are harmless).
OneDocumentPerContent ==
  \A d, e \in DocIds :
    (/\ documents[d] # None /\ documents[e] # None
     /\ documents[d].hash # None
     /\ documents[d].hash = documents[e].hash) => d = e

\* Repeated knocks, re-uploads, restarts and deletions make no second
\* document of one content, as long as no two requests work on that file at
\* the same time.
RetriesMakeNoDuplicates == raced \/ OneDocumentPerContent

\* No knock takes a ready document back to failed or converting, unless it
\* overlapped another one.
ReadyStaysReady ==
  [][ \A d \in DocIds :
        (documents[d] # None /\ documents[d].status = "ready" /\ ~ raced)
          => documents'[d] = None \/ documents'[d].status = "ready" ]_vars

\* When every request has answered and the server never went down, no markdown
\* row is left in processing, not even by requests that raced
\* (_ingest_markdown); an unsupported file can be left so by a race only.  And
\* a row waits in converting for a conversion that is under way or delivered,
\* or its own answer, conversion or withdrawal was lost: a submission that
\* timed out takes its row with it, accepted or not, and no loss leaves
\* another document's row behind.
OnlyLossesStrand ==
  (crashes = 0 /\ \A k \in Requests : At(k, "idle"))
    => \A d \in DocIds : documents[d] # None =>
         /\ documents[d].status = "processing"
              => raced /\ documents[d].suffix = "other"
         /\ documents[d].status = "converting"
              => d \in jobs \/ converted[d] # None \/ d \in lost

-----------------------------------------------------------------------------
(* What the repository says and the code does not do.  No run has these:  *)
(* README.md tells what each needs, and what TLC finds, with arrivals.cfg.*)

\* No knock takes a ready document back, whether it overlapped another one or
\* not (the claim of routes/arrivals.py and of parsem-ingest.md that retries
\* can fire freely).
ReadyIsForGood ==
  [][ \A d \in DocIds :
        (documents[d] # None /\ documents[d].status = "ready")
          => documents'[d] = None \/ documents'[d].status = "ready" ]_vars

\* A submission the gateway refuses leaves no row: "the converting row must be
\* deleted so the user doesn't see a permanently-stuck library entry"
\* (tests/ingest/test_url_submit.py).
RefusedUrlsLeaveNoRow ==
  [][ \A k \in Requests :
        (At(k, "withdrawing") /\ At(k, "idle")' /\ crashes' = crashes)
          => documents'[Doc(k)] = None ]_vars

=============================================================================
