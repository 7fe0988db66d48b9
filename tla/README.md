# Parsem in TLA+

Parsem is a reading application: a document is cut into chunks, and the reader
reveals them one at a time with Space, paced by a token bucket. One server
process (FastAPI, SQLite, one event loop with a pool of worker threads) holds
one reading session in memory and keeps an append-only event log per document,
from which every other reading table is projected. Documents arrive as files
or URLs, through a gateway (ductile) that knocks at two endpoints.

This directory holds the models, their TLC configurations and the proofs.

    tlc -workers 2 -config reader.cfg MCReader      # a run
    tlapm Reader_proofs.tla                         # the proofs about it

## 1. The system

| Part | State | Operations | Talks to |
|---|---|---|---|
| Bucket and economy (`domain/bucket.py`, `domain/economy.py`) | none: a list of paid reveals goes in | `tokens_now`, `try_reveal` | called by `/reveal` |
| Event log (`store/events.py`) | `reading_events` | one append per event type, commit or rollback | calls the projection hook in the same transaction |
| Projections (`domain/projections.py`, `store/projections_cache.py`) | `reading_state`, `pins`, `chunk_ratings`, `chunk_notes` | apply one event, rebuild from the log, resume, re-anchor | written by the hook; read by sessions and the library |
| Reader session (`web/state.py`, `web/routes/reader.py`) | `app.state.reader`: document, current and high-water position, jump origin, Free Mode, marks, paid reveals | open, close, reveal, conceal, set position, jump, return, free, pin, rate, unrate, note | event log, bucket; replaced by open, delete and restart |
| Reader page (`web/static/reader.js`) | `#reader-main`: the positions it shows | keys and clicks, each a request; answers replace what it shows | the routes, which run on worker threads |
| Parsing (`parse/`, `domain/atomic.py`) | none | blocks of a text, pieces of the blocks | feeds the planner |
| Chunk planning (`domain/chunking/`, `domain/materialize.py`) | cursor state, local to a call | `plan`, `materialize_chunks`, `derive_sections` | called by every parse |
| Arrivals (`ingest/`, `web/routes/arrivals.py`, `web/routes/ingest.py`) | `inbound/raw`, `inbound/converted`, `originals`, `documents` | raw knock, converted knock, upload, URL form, `parsem add` | file system, store, gateway |
| Re-chunk (`web/ingest.py`, `domain/reanchor.py`) | a document's chunks, status and reading position | Retry, Re-chunk, `parsem rechunk` | store, under an open reader |
| Library (`web/routes/library.py`, `store/documents.py`, `store/tags.py`) | `documents`, `document_tags`, and what hangs on a document | list, rename, tag, delete, retry, batch | store, files, session |
| Start-up (`cli.py`, `store/db.py`, `web/app.py`) | `schema_version`, the schema | `migrate`; `build_app`: seed and open the welcome document | the database file, shared by processes |

**What makes it hard.** Route functions written `def` run on a thread pool,
each with its own database connection, while the reader's log keeps one
durable connection for the life of the server. Every helper of the store
commits by itself, so a request is several transactions with file operations
between them; nothing locks a document or a file name. The session in memory
and the tables repeat each other and are written in an order that differs from
route to route. Positions are numbers of chunks, and a re-chunk changes what
they mean. A page fetches at every key press without waiting, so the routes of
one page overlap and their answers may come back out of order. The server rebuilds nothing when it starts. The gateway repeats its
knocks at will.

**What makes each part correct.**

* *Bucket*: tokens stay in range, a burst is bounded, a chunk is paid once, an
  empty bucket refills.
* *Log and projections*: the tables say what replaying the log says.
* *Reader*: a mark is on settled text, the frontier never retreats and skips
  nothing, memory and database agree, a failed write keeps no lock.
* *Page*: overlapping presses skip no chunk; a reader who waits is served
  serially and sees the truth; a stale page never locks out.
* *Planning*: every piece is planned once, in order, within the budget, with
  its lead-in; the chunks tile the text, the sections tile the chunks.
* *Arrivals*: no file is lost, one document per content, a ready document is
  complete and stays ready, and no row is left half made but by a lost answer,
  conversion or withdrawal of its own.
* *Re-chunk*: a ready document has chunks, the stored place is in them and on
  the text the reader had open.
* *Library*: a page shows what is stored; a batch reaches all it was asked to
  that is still there, and counts what it changed.
* *Start-up*: a recorded version is complete, no migration wipes documents of
  its own release, there is one welcome document, one of several starts gets
  through.

`PROJECT.json` lists every component (also those left out) and, under
`hazards`, what is hard to test in this code, each at its line with the
properties that watch it.

## 2. The modules

| Module | Models | Composition |
|---|---|---|
| `Bucket` | `tokens_now`, `_advance`, `try_reveal` as operators | |
| `Economy` | presses, steps back, re-opening, time | extends `Bucket` |
| `Projections` | event application, rebuilding as a fold over the log | |
| `Reader` | the session, its routes, the log and the tables | extends `Bucket` and `Projections` |
| `ReadingSpine` | what the reader promises of a document | abstract; instantiated by `Reader` |
| `Page` | the page, and the movements of `Reader` as interleaved steps | instantiates `Bucket` |
| `Pieces` | from block tokens to blocks, pieces and slices, as operators | |
| `Cursor` | the chunk planner, its rules, sections, and its predecessor | extends `Pieces` |
| `Arrivals` | knocks, upload, URL submission, deletion, crash | |
| `Rechunk` | re-chunking and re-anchoring under a reader | |
| `Library` | the library page, rename, tags, the batch endpoint, overlapping | |
| `Startup` | migrations and the first steps of every process on one file | |
| `MC*` | values for TLC | one for each |
| `Reader_proofs`, `Economy_proofs`, `Page_proofs`, `Arrivals_proofs`, `Rechunk_proofs`, `Startup_proofs`, `Cursor_proofs`, `Library_proofs` | the theorems about a component; `Reader_proofs` also the refinement of `ReadingSpine` | each extends its component |

### Bucket and Economy

The code subtracts timestamps; the model keeps the differences (`paid[i]` is
the time between two paid reveals, `since` the time after the last). Elapsed
times above the idle threshold all take the same branch of `_advance`, so
`LongAbsence` stands for all of them and the state space is finite without a
bound on time. `Press` is the paced half of `post_reveal`, `Reopen` is
`build_reader_state_for_document`. `reveals` is a history variable: the paid
reveals of the log, which survive what the session's list does not; it marks
the first one of each session. `PacingBound` is about bursts within a session,
`AntiBurstFloor` about all of them, and the code does not keep it. The clock
only moves forward; what a time does that is told before the last paid reveal
is in `Page`.

### Projections and Reader

`reader`, `marks`, `paid` and `since` are the fields of `ReaderState`; `docs`,
`log`, `states` and `saved` are tables. A mark is one of three kinds (pin,
rating, note) with a number for its colour, value or text.

One action is one request with everything it changes. Appending an event has
three outcomes: `Record` (event and projections in one transaction);
`RejectedByForeignKey` (the document is gone: the INSERT fails before the
`try`, so the transaction stays open: `leaked`); `RejectedAsBusy` (another
connection held the lock for longer than `busy_timeout`). Where a route
assigns memory before the append (`/reveal`, `/pin`), the assignment survives
the refusal; where it assigns after (`/conceal`, ratings, notes), it does not.
`Hooked` is FALSE for the placeholder session after a delete, whose `EventLog`
has no projections. A delete is two steps, `DeleteRow` and `DeleteSwap`,
since other requests see the row gone before the session is dropped.
(After a refusal by `busy_timeout` too, the transaction that Python opened
before the statement stays open until the next commit; it holds no lock, and
`RejectedAsBusy` leaves it out.)
`Restart` is the death of the process and `build_app`: memory is rebuilt for
the welcome document, which is seeded again if it was deleted.

`ReadingSpine` keeps only the library, the settled part of each document and
the marks: a step settles one more chunk, sets a mark on settled text, clears
one, deletes or re-seeds a document. `Reader!ImplementsSpine` is the
refinement, with `settled` mapped to the stored high-water position and
`marked` to the stored marks.

### Page

`page` is what `reader.js` reads off the document (the current and high-water
position), `session` the two positions of `ReaderState`, `row` those of the
`reading_state` row; a request in `fetch` walks through the statements of its
route. `/reveal` reads the clock (`ReadClock`), decides, then assigns the current position, the frontier and
the payment, then logs; `/conceal` logs first; the projection reads the row in
one statement and writes it in another. Nothing is locked, so two requests may
interleave anywhere. The bucket is what the paid reveals leave after the last
of them (`left`), and the time since (`since`); `reading` is the time a request
has read. When another one is paid in between, that time is told from the
payment and is negative, and so may be the tokens: `Bucket!TryReveal` then
decides as the code does. A `Space` on the page is `/set-current-position` when the page
shows a place behind its frontier, `/reveal` otherwise. A rating reads the
position when it logs its event and again when it writes the session's
dictionary; `misrated` remembers that the two differed, of a reader who waits:
under an overlap they do.

### Pieces and Cursor

A text is a sequence of block tokens as markdown-it delivers them; a paragraph
holds the kinds of its sentences. `ParseToken` is one turn of the loop of
`parse`: a list item, quote or table absorbs what it contains, by depth, an
image alone in a paragraph is a block, and raw HTML is none. `AtomicPieces`
makes each sentence a piece, each run of list items one, and every other block
one. `Slice` is what `materialize_chunks` cuts out of the text for a chunk.

The document of `Cursor` is what `PiecesOf` makes of a text. `Consult` is the rule table in
priority order, `Apply` what a decision does to the bucket, the pending
headings and the emitted chunks, `Finished` the final flush; one step consumes
one piece. `LegacyPlan` is the imperative planner in
`current_reading_time.py`, as a recursive function; the registry still offers
both.

### Arrivals

Requests are threads; a step is what lies between two commits or between a
commit and a file operation, so the step names (`inserting`, `moving`,
`parsing`, `persisting`, `finishing`, ...) are places in the code where another
request may run. Guards that answer without an effect (a duplicate, a missing
file) begin no request. The two forms are coroutines that block the event loop
(`onLoop`): no other request begins under them, whereas those already on worker
threads, and `parsem add` in its own process, go on. The gateway, the
converters and the user are the environment: the answer that starts a
conversion may be lost (`AnswerLost`), a conversion may end without a file
(`ConversionDies`), a submission may be refused or time out, and the delete of
its row may fail in turn, which the code swallows (`WithdrawFails`). History
variables record what was dropped, what was discarded with its document, whether
two requests ever worked on one file (`raced`), and which documents wait in vain
(`lost`).

### Rechunk

One text, and a set of ways to chunk it: code and settings differ from one
process to the next, so each re-chunk arrives at any plan or fails. The steps
are the commits of `reparse_document`. `BestChunk` compares Jaccard indices as
fractions. `frame` is the chunking the stored place is a place of; `mishaps`
records what went wrong before: a restart half way, overlapping re-chunks, a
parse that failed, a reader who went on in a replaced chunking. A stored file
that is missing for a while is no mishap: the document is failed before
anything is wiped.

### Library

A document is its row with its sections, ratings, place and tags. A page is
one `SELECT` for the rows (`ListRows`) and one more for the tags, the ratings
and the section layout of each tile (`Read`), with writers in between; `stale`
remembers which documents others wrote since a request began. `Silhouette` and
`Drawer` are the two folds of a tile, `InSegment` the conditions of the three
segments with SQL's treatment of NULL. A batch loads a document, acts on it in
the commits of the action, and goes on to the next; the retry, re-chunk and
delete buttons are batches of one. A re-chunk is `Wipe`, `Persist` (or
`ParseFails`, or `Collide` with another one), `MarkReady`, `Reanchor`.

### Startup

`Script` is every migration as the kinds of its statements: what creates or
alters fails when it is run twice, and the second script ends by wiping
version 1 rows. A process takes one statement at a time, records the version
after the last, then (a server) looks for the welcome document, inserts it,
parses it and opens it. Two servers and a command-line process share the file
and may be killed at any step.

## 3. The runs

| Run | States | Asks | Answer |
|---|---|---|---|
| `economy_paced` | 197,803 | Is pacing sound within a session while time moves forward? | yes |
| `reader` | 649,141 | All routes on one document, with Free Mode, one refused write, delete and restart | the invariants hold |
| `reader_paced` | 407,060 | Two documents, no Free Mode, no refused write: does the reader implement `ReadingSpine`? | yes, and reading stays settled |
| `cursor` | 254,310 | Every text of up to five blocks | planned completely; reads in order if it has no thematic break |
| `arrivals` | 2,169,928 | Two concurrent requests of any kind, a loss, a crash or a deletion anywhere | nothing lost, nothing half made that a loss does not explain |
| `rechunk` | 508,827 | Two re-chunks under a reader, with one kind of mishap | the place survives |
| `page` | 518,324 | One page, two requests under way at any time | overlap skips nothing, patience is serial, Space reaches the end |
| `library` | 1,358,615 | Any two requests of the library page at once, beside a reader | tiles are true, batches serve what remains |
| `startup` | 105,649 | Two servers and a tool start on the file of any release, killed twice | versions are complete, nothing is wiped, one gets through |

The other three check one sentence each that the repository says of the program,
and find it violated; they are the findings of `PROJECT.json`, with the line
each quotes.

| Run | Property | The repository says | The code |
|---|---|---|---|
| `economy_reopen` | `AntiBurstFloor` | rapid close and open keeps the anti-burst floor (`parsem-spec.md:482`) | a session starts with a full bucket |
| `reader_free` | `NoChunkIsSkipped` | reading never skips ahead (`routes/reader.py:234`) | reload in Free Mode past the frontier, then Space |
| `arrivals_dup` | `OneDocumentPerContent` | repeated knocks are safe (`routes/arrivals.py:14`) | two that overlap make two documents of one content |

### What the repository says and the code does not do

The last section of five modules states ten more such sentences. To keep the
runs few they have none of their own, but they are disagreements like those
above: TLC finds every one violated when it is added to the configuration of
its module, as an `INVARIANT`, or as a `PROPERTY` for the two marked `*`:

| Property, configuration | The repository says | The code |
|---|---|---|
| `ChunksAreContiguous`, `cursor.cfg` | chunks are contiguous in source order (`AtomicChunkingPhase1.md:66`) | a heading between a colon and its block, held back by a thematic break, is read after the block, and shown twice (`cursor.py:334`) |
| `ReadyIsForGood`*, `arrivals.cfg` | repeated knocks are safe (`routes/arrivals.py:14`) | the slower of two knocks for a converted file marks the ready document failed (`arrivals.py:316`) |
| `RefusedUrlsLeaveNoRow`*, `arrivals.cfg` | a refused URL leaves no row (`test_url_submit.py:110`) | unless its delete fails, which is swallowed (`url_submit.py:123`) |
| `OneTokenPaysOnce`, `page.cfg` | of two presses at once the second is rejected (`parsem-spec.md:599`) | both are paid by one token (`routes/reader.py:452`) |
| `TokensStayInRange`, `page.cfg` | the token count is never below 0 (`bucket.py:51`) | it is, for a time read before the last payment, and opens the gate (`bucket.py:72`, `economy.py:67`) |
| `TagsAreStacked`, `library.cfg` | tags are AND-stacked (ADR 0005, line 81) | any of them will do (`store/documents.py:567`) |
| `BucketsAreRanges`, `library.cfg` | a silhouette cell is a range of chunks (ADR 0005, line 45) | chunks are assigned by `j * 25 // N`, which differs where 25 does not divide N (`store/documents.py:302`) |
| `ReadIsFinished`, `library.cfg` with `FinishedPercent = 95` | what is read to 95 % is finished (`test_library_strip.py:126`) | a document of fewer than 20 chunks never is (`store/documents.py:505`) |
| `HalfStaleSelectionsGoOn`, `library.cfg` | a half-stale selection does right by the rest (`routes/library.py:312`) | a document deleted between its load and its tag fails the batch (`routes/library.py:336`) |
| `WelcomeIsUnique`, `startup.cfg` | the welcome document has an idempotency key (`cli.py:56`) | two servers that start at once seed it twice (`cli.py:57`) |

Where a passing run looks at the same place, it holds whichever side is right:
`TilesAreTrue` says that a page misses no document that has all tags and has
none that has no tag, and that the silhouette and the drawer of one tile agree;
`UnbrokenDocumentsReadInOrder` is about texts without a break, `OnlyLossesStrand`
says what strands a row and nothing about who is to remove it, and `TypeOK` of
`Page` bounds what a payment leaves and not the count it starts from.

### Exemptions in the properties

Some properties hold only outside a hazard. The exemption is in the formula
and names the hazard:

* `MemoryFollowsTheStore`, `MarksStayBehindTheFrontier`: until a write is
  refused (`faults = 0`); afterwards memory may be ahead, never behind.
* `FrontierNeverRetreats`: the session's frontier may fall back at a restart,
  to what the database holds; the stored one never does.
* `RetriesMakeNoDuplicates`, `ReadyStaysReady`: unless two requests worked on
  one file at once (`raced`). `OnlyLossesStrand` allows a race to
  strand an unsupported file in processing, and a loss to strand its own
  document in converting, no other. `DropsAreNeverLost` allows a file to be
  orphaned only when a race and a deletion meet.
* `PacingBound`: bursts within one session.
* `PatienceIsSerial`: until two requests were under way at once
  (`overlapped`). Afterwards one token may have paid twice, session and row may
  disagree, a rating may be remembered for another chunk than it is logged
  for, and the position may be past the frontier; `OverlapsSkipNothing` and
  `SpaceReachesTheEnd` hold all the same.
* `TheFrontierKeepsItsText`: a re-chunk that changes nothing leaves both
  positions where they were unless the text repeats itself (`Repetitive`).
  Then `best_chunk_by_jaccard` takes the first of equally good chunks, and the
  frontier moves back to one that has the same text.
* `UnbrokenDocumentsReadInOrder`: documents without a thematic break, and all
  of the text but raw HTML, which is no block and is in no chunk unless it lies
  within one.
* `TilesAreTrue`: a tile is the stored document unless others wrote it
  meanwhile (`stale`); a torn one still agrees with itself.
  `BatchesServeWhatRemains`: a batch may fail when a document it tags is
  deleted between its `SELECT` and its `INSERT`, or when two re-chunks of one
  document collide.
* `WelcomeIsSeededOnce`: unless two processes were starting at once.
  `UpgradesFinish`: unless a process was killed inside a script, after which
  every later start fails on a statement that has been run already.
* `ReadyHasChunks`, `PlaceIsInTheChunks`, `MarksStayOnReadText` and
  `TheFrontierKeepsItsText`: unless the mishaps they name happened.
  Every mishap does break one of them; the model follows the code through it.

Deadlock is checked except where the system may stop: `cursor` (the plan is
finished), `arrivals` (the bound on arrivals is used up), `library` (each request is made once) and `page`, and the
finding runs on these modules.

### Bounds

* *Economy*: capacity 2, regeneration 2, idle 4: a burst, a partial
  regeneration and a refill all fit in five chunks.
* *Reader*: `MaxEvents` bounds the events ever logged (3 or 4; opening,
  moving and marking each use one), `MaxFaults` the refused writes. Three
  chunks make a settled, a current and an unread one; the second document, of one chunk, is there for
  switching and for the beacon of a page that is no longer open. `reader_free`
  has four chunks, so that there is something to skip.
* *Cursor*: texts of up to five blocks of eight kinds, up to ten pieces,
  budget 2: two sentences fill a chunk. The rules look at one piece and the
  one before it; the longest pattern they make (heading, colon, heading,
  block, heading) has five. One block has a list in a quote in a list.
* *Arrivals*: one name of each kind, three contents (readable, empty of
  chunks, not text), two threads, three rows, two arrivals, one disruption.
  Two requests are what a race needs, a third row shows a second round after
  it. The worker threads are symmetric: no property of `Arrivals` is about
  liveness.
* *Page*: two requests make every race of two; three chunks are needed for one
  to be skipped; capacity 1 makes a second paid reveal find the bucket empty.
  A regeneration period, the idle time and `MaxWait`, after which the clock
  stops until the next payment, or until a reading so old has been used, are
  one unit: a time is before, at or after the last payment, and after it the
  bucket is full again.
* *Rechunk*: three pieces, three plans (finer, and two coarser that cut
  elsewhere), two requests; the constraint `MCMishaps` cuts behaviours after
  two different kinds of mishap. Of those only `ReadyHasChunks` says something
  (a failed parse in a replaced chunking, for one); the theorem
  `ReadyDocumentsHaveChunks` covers them.
* *Library*: two documents, two requests, one move of the reader. Two requests
  tear a page or a batch; two documents make a selection half stale. Two
  buckets over three chunks make a bucket of two chunks; the cutoff of 60 %
  lies between one chunk and two of three.
* *Startup*: the scripts are as long as they are; three processes, two kills:
  one inside a script and one after it.

### Fairness

Safety runs assume none. `economy_paced` assumes that time passes
(`WF(Tick)`), and nothing of the reader. `Arrivals` assumes none: the gateway
is told not to knock again after an answer (`docs/ductile-pipelines/parsem-ingest.md`),
and a conversion may die, so that a drop settles is not the code's to promise;
what is left is `OnlyLossesStrand`. In `page` worker threads run,
answers come back and time passes (weak fairness), and the reader presses
Space again and again (strong, since the browser may be busy): the property is
about a reader who does, and who from some time on presses nothing that goes
back. `startup` assumes that a process which starts goes on, and that somebody
starts one again (both weak): without a kill, some process is always able to.
Elsewhere users have no obligations.

## 4. The proofs

Every theorem holds for all values of the constants that satisfy the named
assumption of its component, a conjunction of ranges which TLC evaluates on
every run: any number of documents, chunks, requests, processes and faults,
any bucket, text or plan.

| Module | Theorem | States |
|---|---|---|
| `Reader_proofs` | `TypeCorrect` | `Spec => []TypeOK` |
| | `LockReleased` | `Spec => []NoLockKeptOverALiveDocument` |
| | `MemoryAgreesWithTheStore` | `Spec => []MemoryFollowsTheStore` |
| | `MarksOnSettledText` | `Spec => []MarksStayBehindTheFrontier` |
| | `FrontierOnlyAdvances` | `Spec => FrontierNeverRetreats` |
| | `TablesFollowTheLog` | `Spec => []ProjectionsFollowTheLog` |
| | `QuietReadingIsSettled` | `Spec /\ []Quiet => []PacedReadingIsSettled` |
| | `QuietReadingImplementsSpine` | `Spec /\ []Quiet => ImplementsSpine` |
| | `PacedReadersImplementSpine` | both, for `~UseFreeMode` and `MaxFaults = 0` |
| `Economy_proofs` | `BucketsKeepTheirBounds` | `Spec => []TypeOK` |
| | `ReadingIsPaced` | `Spec => []PacingBound` |
| `Page_proofs` | `OverlapsKeepTypes` | `Spec => []TypeOK` |
| | `OverlapsNeverSkip` | `Spec => []OverlapsSkipNothing` |
| | `PatientReaderIsSerial` | `Spec => []PatienceIsSerial` |
| `Startup_proofs` | `SchemasAreComplete` | `Spec => []TypeOK` |
| | `LaterRowsAreNeverWiped` | `Spec => NothingStoredIsWiped` |
| | `OneWelcome` | `Spec => []WelcomeIsSeededOnce` |
| `Rechunk_proofs` | `PositionsStayPositions` | `Spec => []TypeOK` |
| | `ReadyDocumentsHaveChunks` | `Spec => []ReadyHasChunks` |
| | `PlacesAreInTheChunks` | `Spec => []PlaceIsInTheChunks` |
| | `MarksAreOnReadText` | `Spec => []MarksStayOnReadText` |
| | `FrontiersKeepTheirText` | `Spec => TheFrontierKeepsItsText` |
| `Arrivals_proofs` | `ArrivalsKeepTypes` | `Spec => []TypeOK` |
| | `ReadyDocumentsOpen` | `Spec => []ReadyIsComplete` |
| | `RetriesAreHarmless` | `Spec => []RetriesMakeNoDuplicates` |
| | `ReadyIsFinal` | `Spec => ReadyStaysReady` |
| | `NothingElseStrands` | `Spec => []OnlyLossesStrand` |
| | `NothingDroppedIsLost` | `Spec => []DropsAreNeverLost` |
| `Cursor_proofs` | `PlannerTyped` | `Spec => []TypeOK` |
| | `NothingLostOrDoubled` | `Spec => []NothingIsLostOrDoubled` |
| | `LeadInsStay` | `Spec => []LeadInsStayWithTheirBlock` |
| | `ProseFits` | `Spec => []ProseFitsTheBudget` |
| | `AgreesWithPredecessor` | `Spec => []AgreesWithItsPredecessor` |
| | `UnbrokenReadInOrder` | `Spec => []UnbrokenDocumentsReadInOrder` |
| `Library_proofs` | `LibraryIsTyped` | `Spec => []TypeOK` |
| | `TilesShowTheStore` | `Spec => []TilesAreTrue` |
| | `BatchesServeTheirSelection` | `Spec => []BatchesServeWhatRemains` |

**Reader.** Marks on settled text is not inductive by itself: a route checks
the position against the session's frontier and writes to the store, so the
step needs that the two frontiers are equal while no write was refused. That
they are needs the same of every projected event, which needs the positions of
the session to be positions of its document (type correctness). A write that
is refused must leave the session ahead and never behind, or the next one would
take the stored frontier back. `Coherent`, the inductive invariant, is the
conjunction of `TypeOK`, the lock, memory and mark invariants, and
`NothingSettledWithoutADocument` (the session left by a delete starts from 0,
so that dropping a session is no retreat of its frontier). The proof first says
what an append does in each of its outcomes (`RecordEffect`, `RefusedEffect`),
then what the groups of actions share (`MoveStep`, `MarkedStep`, `UnmarkedStep`,
`RefusedStep`), then takes one lemma per action. `FrontierOnlyAdvances` is an
action property: `Coherent` holds before every step, and `FrontierStep` goes
through the same actions.

**Log and tables.** The rebuilt row is a fold over the set of a document's
events, newest outermost. Lemmas on replays (`ReplayExists`, `ReplayUnique`,
`ReplayGrows`), shown by taking a smallest set that fails, reduce it to one
step law: one later event adds one application. `Ledger` is inductive: the log
is finite, ids are different and not past the last one given out, events belong
to documents that exist, and the tables are the fold.

**Spine.** `Quiet` says that Free Mode is off and no write was refused.
`Settled` strengthens the paced property by the two other places a reader can
be sent to: the jump origin and the pins of the session. With it, `Bounded`
and the equal frontiers of `Coherent`, each step settles one chunk, changes one
mark, deletes or seeds one document, or changes nothing the spine sees
(`SpineStep`). The corollary is what the run `reader_paced` checks.

**Economy.** `tokens_now` and the length of a burst are recursive functions;
the proofs use their equations, derived from the definitions by induction over
a set of numbers. `PacingBound` alone is not inductive: a burst that just fits
says nothing about the next press. `Thrift` reserves room: every unbroken burst
that ends now, together with what is left in the bucket, is within the bound.

**Page.** `Covered` says that whatever a position counts as read is on a page
already, or in an answer on its way (`Seen`), for the session, for the row and
for every decision that some request still carries; reading the row before
writing it is covered because the copy is. Types need that a reveal is paid
only with the time it was decided with, and that what a payment leaves is
within the bucket also when the count it starts from is negative
(`TokensBounds`); that patient readers never overspend needs that the time of
a request served alone is not before the last payment. `Serial` describes each step of a
request that is served alone, statement by statement.

**Startup.** A process in a script has behind it the earlier versions and its
own statements (`Migrating`); the first statement of a script fails when it is
run twice, so only one process ever gets past it (`Exclusive`); therefore the
rows that are wiped were there before (`Inherited`). `Seeded` is for the
welcome document.

**Rechunk.** `Jaccard` fractions are ordered and a finite sequence of them has
a first best one, which overlaps if anything does, and everything does in a
chunking that covers the text: `AnchoredProperties`. `RechunkInv` is `TypeOK`
with who is alone (`Single`), where there are chunks (`Held`), what the place
is a place of (`Framed`), the session (`Seated`) and the marks (`Marked`).

**Arrivals.** Invariants in layers, each from those before it: `Formed` (types
and assigned ids), `Complete` (what a request has prepared for the row it will
make ready), `Unraced` (what a request that nobody raced relies on; the
property follows, the action property too), `Tended` (who works on an
unfinished row, or that it is lost), `Labels` (what a row says of its file) and `Homes` (where each
dropped content is). Each layer has a lemma for what a step of one request has
to show, and then one step for each action.

**Cursor.** The pieces of a text are typed by following `ParseToken` and
`AtomicPieces` through their folds. Then each operation of the planner gets an
effect lemma (`FlushEffect`, `KeepEffect`, `EmitEffect`, `IsolateEffect`,
`AbsorbEffect`), and `TakeCases` says that a consumed piece joins the bucket,
reopens it, stands alone, follows its lead-in or is a break: every invariant is
proved over these five cases and the final flush. `Accounted` treats the
pending headings and the bucket as one queue: chunks and queue hold each piece
consumed once, and what the planner carries as seconds is the sum over the
pieces. That sections tile is a fact about every list of chunks
(`SectionsTile`), shown for each turn of its loop. Lead-ins need to know where
the last piece is (`EndsWith`), the budget needs the bucket without its
headings (`FittingQueue`), the predecessor needs that without headings nothing
is ever pending (`Plain`) and the equations of `LegacyTurns`. For the order of
an unbroken document, `Arranged` adds that the bucket ends with the last piece
read and that nothing is pending behind an empty bucket. That its chunks tile
the text comes in three layers: the blocks are apart and cover all but raw HTML
(`Traced`, token by token), what each block becomes tiles it or its run of items
(`PartTiles`, `PartsFollow`), and a slice reaches from a chunk's first piece to
its last (`SliceTiles`).

**Library.** The invariant is `Typed /\ AllSound /\ AllCounted`. `Sound` is what
one request has behind it and relies on. For a batch: what is left is the end
of the selection (`Shaped`), what is done is served unless somebody wrote it
since (`ServedBehind`), each step relies on what it found or left of its
document (`Midway`), and only an absent document or a collision ends it early
(`Excused`). For a page: a tile shows its document but for the fields whose
queries are still to come (`Showing`, `Pending`), and the rows are the wanted
ones (`Listing`, `Renaming`). That requests may overlap takes one lemma: a step
of somebody else leaves what a request has seen of a document as it was, or
makes the document stale (`Apart`, `ApartSound`). Then each action has a lemma
for the request that takes it. The counts need all requests at once: `Counted`
says how many have counted a deletion, or a change of a tag, and each change of
the store moves one of them into the count (`CountsOne`), because a request has
counted nothing that it has yet to do. That a layout
of sections with chunks has chunks (`LayoutChunks`) is shown of the fold itself
(`SummedExists`, `SummedUnique`).

Where a proof needs induction over data, the module shows it for the set it
needs: a smallest counterexample among finite sets, or a least one among
numbers, leads to a contradiction. Recursive functions are used through their
equations.

Only model-checked:

* the properties of the finding runs and those of the section after them, which
  are violated.
* `EmptyBucketRefills`, `SpaceReachesTheEnd`, `UpgradesFinish`: liveness under fairness, which these provers do not reach.

## 5. Not modelled

* markdown-it and sentence splitting: pure functions of a text, the input of
  `Pieces`; the `AtomicRules` and annotators that nothing in production
  selects. Templates, the other scripts, CSS, assets, notes export, reading
  configuration and paths: no state.
* Pins, notes, jumps, Free Mode and page loads under overlapping requests:
  `Page` has the movements and the rating, and one page. Two tabs that press at
  once race as two presses of one page do.
* A wall clock that is set back: it does to one request what
  `TokensStayInRange` of `Page` shows of two.
* The order of the library's rows, and what a tile shows besides progress,
  ratings, sections, title and tags.
* Opening a document as several reads: `Reader` takes the GET as one step.
* That pins, ratings and notes vanish in a re-chunk: `Rechunk` models it
  (`Wipe` clears `marks`). `README.md` of the repository says that they
  survive (line 42), `parsem-spec.md:370` defers it; no property takes a side.

## 6. Plan

In order; the first twelve are done.

1. `Bucket`, `Economy`: the pacing rule everything else builds on.
2. `Projections`, `Reader`, `ReadingSpine`, and `Reader_proofs`: the core.
3. `Cursor`; then `Arrivals`.
4. `Rechunk`.
5. `Page`: the movements of the reader, and ratings, as overlapping requests.
6. `Library` and `Startup`.
7. `Pieces` under `Cursor`.
8. Proofs about the reader, its tables and its refinement of `ReadingSpine`.
9. Proofs about `Startup` and `Economy`.
10. Proofs about `Page`, `Rechunk` and `Arrivals`.
11. Proofs about `Cursor`.
12. Proofs about `Library`.
13. A second tab in `Page`.
