------------------------------- MODULE Library --------------------------------
(***************************************************************************)
(* The library page and the routes behind its buttons                      *)
(* (web/routes/library.py over store/documents.py and store/tags.py).      *)
(* Every request runs on a worker thread with a connection of its own, so  *)
(* a step below is one SELECT or one commit: a page is put together from   *)
(* several of them, and a batch is served document by document.            *)
(*                                                                         *)
(* A document is its row, with what hangs on it: its sections as the       *)
(* numbers of chunks they have (they tile the chunks, see Cursor.tla), the *)
(* positions of its rated chunks, the reading_state row and the tags.      *)
(* Titles are old or new, and the order of the rows is any order.          *)
(*                                                                         *)
(* The session that a delete drops is in Reader.tla.  How a place is       *)
(* carried over is in Rechunk.tla: here it may land on any chunk.  The     *)
(* stored markdown is on disk, and the reader reads the chunks there are.  *)
(***************************************************************************)
EXTENDS Integers, Sequences, FiniteSets, SequencesExt

CONSTANTS
    Docs,            \* documents.id
    Tags,            \* canonical tags
    Canonical,       \* normalise_tag: from what people type to a tag, or Invalid
    Invalid,
    Unread,          \* there is no reading_state row
    NoTile,          \* the document is not on the page
    Shelves,         \* the libraries to start from: documents by id
    Layouts,         \* the sections that a parse of a document may come to
    Selections,      \* the ids of a batch, without repetitions
    Filters,         \* the ?tag= values of a page
    Requests,        \* the requests that are made
    Buckets,         \* SILHOUETTE_BUCKET_COUNT
    FinishedPercent, \* the cutoff of the finished segment
    MaxMoves         \* bound: what the reader does meanwhile

VARIABLES
    documents, \* the store
    request,   \* each request
    stale,     \* history: documents that others wrote since the request began
    moves      \* how often the reader has moved

vars == <<documents, request, stale, moves>>

-----------------------------------------------------------------------------
(* The store *)

Chunks(sections) == FoldSeq(+, 0, sections)

\* Deleted, with everything that hangs on it.
Gone == [status |-> "gone", title |-> "old", total |-> 0, sections |-> <<>>,
         rated |-> {}, place |-> Unread, tags |-> {}]

Exists(d) == documents[d] # Gone
At(k, step) == request[k].step = step

\* A document as others may have left it.  A parse has at least one chunk or
\* fails, a ready document has the total of one, and a place is only in a
\* document that has had a total.
Stored ==
    {doc \in [status : {"processing", "ready", "failed"}, title : {"old", "new"}, total : Nat,
              sections : Layouts \cup {<<>>}, rated : SUBSET Nat,
              place : {Unread} \cup [current : Nat, high : Nat], tags : SUBSET Tags] :
        /\ \A j \in doc.rated : j < Chunks(doc.sections)
        /\ doc.place # Unread => doc.place.current <= doc.place.high /\ doc.total > 0
        /\ doc.status = "ready" => doc.total > 0}

Tiles == [status : {"processing", "ready", "failed", "gone"}, title : {"old", "new"},
          total : Nat, percent : 0 .. 100, high : Nat, rated : Seq(BOOLEAN),
          layout : Layouts \cup {<<>>}, tags : SUBSET Tags]

Nobody == "reader"   \* not one of the requests

ASSUME LibraryAssumption ==
    /\ IsFiniteSet(Docs)
    /\ Canonical \in [DOMAIN Canonical -> Tags \cup {Invalid}] /\ Invalid \notin Tags
    /\ NoTile \notin Tiles
    /\ Layouts \subseteq Seq(Nat \ {0}) \ {<<>>}
    /\ \A shelf \in Shelves : shelf \in [Docs -> Stored]
    /\ \A ids \in Selections :
         /\ ids \in Seq(Docs) /\ ids # <<>>
         /\ \A i, j \in DOMAIN ids : ids[i] = ids[j] => i = j
    /\ \A f \in Filters : f \subseteq DOMAIN Canonical /\ IsFiniteSet(f)
    /\ IsFiniteSet(Requests) /\ Nobody \notin Requests
    /\ Buckets \in Nat \ {0}
    /\ FinishedPercent \in 1 .. 100
    /\ MaxMoves \in Nat

\* A commit to document d by `who`; requests under way have an old view of it.
Write(who, d, new) ==
    /\ documents' = [documents EXCEPT ![d] = new]
    /\ stale' = [k \in Requests |-> IF k = who \/ At(k, "idle") \/ new = documents[d]
                                    THEN stale[k] ELSE stale[k] \cup {d}]

Idle == [step |-> "idle", action |-> "none", segment |-> "all", asked |-> {},
         active |-> {}, ids |-> <<>>, left |-> <<>>, todo |-> <<>>,
         tiles |-> [d \in Docs |-> NoTile], counted |-> {}, planned |-> 0,
         anchored |-> FALSE]

Init ==
    /\ documents \in Shelves
    /\ request = [k \in Requests |-> Idle]
    /\ stale = [k \in Requests |-> {}]
    /\ moves = 0

-----------------------------------------------------------------------------
(* What a tile shows (store/documents.py) *)

\* round() of a / b: to the nearest, halves to the even one.
Rounded(a, b) ==
    LET q == a \div b
        r == 2 * (a % b)
    IN  IF r > b \/ (r = b /\ q % 2 = 1) THEN q + 1 ELSE q

\* progress_percent
Percent(total, place) ==
    IF total = 0 \/ place = Unread THEN 0
    ELSE LET raw == Rounded(100 * (place.current + 1), total)
         IN  IF raw > 100 THEN 100 ELSE raw

HighWater(place) == IF place = Unread THEN 0 ELSE place.high

\* The bucket of the j-th of n chunks.
BucketOf(j, n) == (j * Buckets) \div n

\* compute_silhouette_buckets, from the dense ratings.
Silhouette(rated, high) ==
    LET n == Len(rated)
        chunksOf(b) == {j \in 0 .. n - 1 : BucketOf(j, n) = b}
    IN  [b \in 0 .. Buckets - 1 |->
           IF n = 0 THEN "unread"
           ELSE IF chunksOf(b) = {} THEN "absent"
           ELSE IF \A j \in chunksOf(b) : j >= high THEN "unread"
           ELSE IF \E j \in chunksOf(b) : rated[j + 1] THEN "rated" ELSE "read"]

\* compute_drawer_sections: the cells, section after section.
Drawer(layout, rated, high) ==
    [j \in 0 .. Chunks(layout) - 1 |->
       IF j >= high \/ j >= Len(rated) THEN "unread"
       ELSE IF rated[j + 1] THEN "rated" ELSE "read"]

\* _SEGMENT_COND; a comparison with the quotient by no chunks is not true.
Segments == {"all", "unread", "in_progress", "finished"}
InSegment(doc, segment) ==
    LET high == HighWater(doc.place) IN
    CASE segment = "all" -> TRUE
      [] segment = "unread" -> high = 0
      [] segment = "in_progress" ->
           high > 0 /\ doc.total > 0 /\ 100 * high < FinishedPercent * doc.total
      [] segment = "finished" ->
           doc.total > 0 /\ 100 * high >= FinishedPercent * doc.total

\* A tile as far as the row and reading_state fill it.
TileOf(doc) ==
    [status |-> doc.status, title |-> doc.title, total |-> doc.total,
     percent |-> Percent(doc.total, doc.place), high |-> HighWater(doc.place),
     rated |-> <<>>, layout |-> <<>>, tags |-> {}]

\* What a later SELECT puts into one field of it: load_chunk_ratings_dense,
\* load_section_layout, load_tags_for_documents, and in a rename the progress
\* and the high water, each by a query of its own.
Fetched(field, doc, tile) ==
    CASE field = "rated" -> [i \in 1 .. tile.total |-> (i - 1) \in doc.rated]
      [] field = "layout" -> doc.sections
      [] field = "tags" -> doc.tags
      [] field = "percent" -> Percent(doc.total, doc.place)
      [] field = "high" -> HighWater(doc.place)

\* Ratings are asked for if there is a total, the layout of ready documents.
Ratings(d, tile) == IF tile.total > 0 THEN << <<"rated", {d}>> >> ELSE <<>>
Layout(d, tile) == IF tile.total > 0 /\ tile.status = "ready"
                   THEN << <<"layout", {d}>> >> ELSE <<>>

-----------------------------------------------------------------------------
(* GET /library *)

Known == UNION {documents[d].tags : d \in Docs}

\* Mutant: a tag that no document has stays in the filter.
GetLibraryKeepingUnknown(k, segment, asked) ==
    /\ At(k, "idle")
    /\ request' = [request EXCEPT ![k] =
         [Idle EXCEPT !.step = "listing", !.action = "page", !.segment = segment,
                      !.asked = asked,
                      !.active = {Canonical[s] : s \in asked} \ {Invalid}]]
    /\ UNCHANGED <<documents, stale, moves>>

\* list_all_tags; what is asked for is normalised, and dropped if unknown.
GetLibrary(k, segment, asked) ==
    /\ At(k, "idle")
    /\ request' = [request EXCEPT ![k] =
         [Idle EXCEPT !.step = "listing", !.action = "page", !.segment = segment,
                      !.asked = asked,
                      !.active = {Canonical[s] : s \in asked} \cap Known]]
    /\ UNCHANGED <<documents, stale, moves>>

Reading(k, tiles, todo) ==
    request' = [request EXCEPT ![k].tiles = tiles, ![k].todo = todo,
                               ![k].step = IF todo = <<>> THEN "answered" ELSE "reading"]

\* The one SELECT of list_library_rows, then the tags; the rest is read row by
\* row, and a row without chunks needs no more.
ListRows(k) ==
    /\ At(k, "listing")
    /\ LET active == request[k].active
           rows == {d \in Docs : /\ Exists(d)
                                 /\ InSegment(documents[d], request[k].segment)
                                 /\ active = {} \/ documents[d].tags \cap active # {}}
           tile(d) == TileOf(documents[d])
       IN  \E order \in SetToSeqs({d \in rows : tile(d).total > 0}) :
             Reading(k, [d \in Docs |-> IF d \in rows THEN tile(d) ELSE NoTile],
                     IF rows = {} THEN <<>>
                     ELSE << << <<"tags", rows>> >> >>
                       \o [i \in DOMAIN order |->
                            Ratings(order[i], tile(order[i])) \o Layout(order[i], tile(order[i]))])
    /\ UNCHANGED <<documents, stale, moves>>

\* What is left to read of rows and their queries when one is done.
Rest(todo) == IF Len(Head(todo)) = 1 THEN Tail(todo) ELSE <<Tail(Head(todo))>> \o Tail(todo)

\* The next of them.
Read(k) ==
    /\ At(k, "reading")
    /\ LET field == Head(Head(request[k].todo))[1]
           of    == Head(Head(request[k].todo))[2]
           old   == request[k].tiles
       IN  Reading(k, [d \in Docs |-> IF d \notin of THEN old[d]
                          ELSE [old[d] EXCEPT ![field] = Fetched(field, documents[d], old[d])]],
                   Rest(request[k].todo))
    /\ UNCHANGED <<documents, stale, moves>>

-----------------------------------------------------------------------------
(* POST /documents/<id>/rename *)

\* load_document; an unknown one is a 404.
Rename(k, d) ==
    /\ At(k, "idle")
    /\ request' = [request EXCEPT ![k] =
         IF Exists(d)
         THEN [Idle EXCEPT !.step = "renaming", !.action = "rename", !.ids = <<d>>,
                           !.tiles[d] = [TileOf(documents[d]) EXCEPT !.title = "new"]]
         ELSE [Idle EXCEPT !.step = "failed", !.action = "rename", !.ids = <<d>>]]
    /\ UNCHANGED <<documents, stale, moves>>

\* rename_document, no matter whether the row is still there; the tile that is
\* sent back has the row of before and reads the rest now.
SetTitle(k) ==
    /\ At(k, "renaming")
    /\ LET d == request[k].ids[1]
           tile == request[k].tiles[d]
       IN  /\ Write(k, d, IF Exists(d) THEN [documents[d] EXCEPT !.title = "new"] ELSE Gone)
           /\ Reading(k, request[k].tiles,
                 << << <<"percent", {d}>> >> \o Ratings(d, tile) \o << <<"high", {d}>> >>
                      \o Layout(d, tile) \o << <<"tags", {d}>> >> >>)
    /\ UNCHANGED moves

-----------------------------------------------------------------------------
(* POST /documents/batch, and the buttons for one document *)

Batch(k, action, ids, asked) ==
    /\ At(k, "idle")
    /\ asked \subseteq {s \in DOMAIN Canonical : Canonical[s] # Invalid}
    /\ Cardinality(asked) = IF action \in {"tag", "untag"} THEN 1 ELSE 0
    /\ request' = [request EXCEPT ![k] =
         [Idle EXCEPT !.step = "loading", !.action = action, !.asked = asked,
                      !.ids = ids, !.left = ids]]
    /\ UNCHANGED <<documents, stale, moves>>

This(k) == Head(request[k].left)
Does(k, action) == At(k, "acting") /\ request[k].action = action
Tag(k) == Canonical[CHOOSE s \in request[k].asked : TRUE]

GoOn(k, step) == request' = [request EXCEPT ![k].step = step]

\* On to the next id; `counts` if this one is among the affected.
Proceed(k, counts) ==
    request' = [request EXCEPT
      ![k].step = IF Len(request[k].left) = 1 THEN "answered" ELSE "loading",
      ![k].left = Tail(@),
      ![k].counted = IF counts THEN @ \cup {This(k)} ELSE @]

\* Mutant: an id that is unknown ends the batch.
LoadOrFail(k) ==
    /\ At(k, "loading")
    /\ IF ~Exists(This(k)) THEN GoOn(k, "failed")
       ELSE IF request[k].action = "rechunk" /\ documents[This(k)].status # "ready"
       THEN Proceed(k, FALSE) ELSE GoOn(k, "acting")
    /\ UNCHANGED <<documents, stale, moves>>

\* load_document: unknown ids are skipped, and for a re-chunk all that are not
\* ready.
Load(k) ==
    /\ At(k, "loading")
    /\ IF ~Exists(This(k)) \/ (request[k].action = "rechunk"
                               /\ documents[This(k)].status # "ready")
       THEN Proceed(k, FALSE) ELSE GoOn(k, "acting")
    /\ UNCHANGED <<documents, stale, moves>>

\* post_delete acts without a look at the row (its 404 for a document that is
\* gone by then changes nothing), post_retry_parse on one of any status.
PressButton(k, action, d) ==
    /\ At(k, "idle")
    /\ action \in {"delete", "rechunk"}
    /\ request' = [request EXCEPT ![k] =
         [Idle EXCEPT !.step = IF action = "delete" \/ Exists(d) THEN "acting" ELSE "failed",
                      !.action = action, !.ids = <<d>>, !.left = <<d>>]]
    /\ UNCHANGED <<documents, stale, moves>>

\* delete_document, whose rowcount tells whether it was this one.
Delete(k) ==
    /\ Does(k, "delete")
    /\ Write(k, This(k), Gone)
    /\ Proceed(k, Exists(This(k)))
    /\ UNCHANGED moves

\* add_tag: INSERT OR IGNORE, which does not ignore a foreign key.
AddTag(k) ==
    /\ Does(k, "tag")
    /\ LET d == This(k) IN
       IF Exists(d)
       THEN /\ Write(k, d, [documents[d] EXCEPT !.tags = @ \cup {Tag(k)}])
            /\ Proceed(k, Tag(k) \notin documents[d].tags)
       ELSE GoOn(k, "failed") /\ UNCHANGED <<documents, stale>>
    /\ UNCHANGED moves

\* remove_tag
RemoveTag(k) ==
    /\ Does(k, "untag")
    /\ LET d == This(k) IN
       /\ Write(k, d, [documents[d] EXCEPT !.tags = @ \ {Tag(k)}])
       /\ Proceed(k, Tag(k) \in documents[d].tags)
    /\ UNCHANGED moves

\* Mutant: ratings survive their chunks.
WipeKeepingRatings(k) ==
    /\ Does(k, "rechunk")
    /\ LET d == This(k) IN
       IF Exists(d)
       THEN /\ Write(k, d, [documents[d] EXCEPT !.sections = <<>>])
            /\ request' = [request EXCEPT ![k].step = "parsing",
                                          ![k].anchored = documents[d].sections # <<>>]
       ELSE Proceed(k, TRUE) /\ UNCHANGED <<documents, stale>>
    /\ UNCHANGED moves

\* reparse_document finds out whether there are chunks to carry a place over
\* from, and wipes them.  A batch counts what it was called for.
Wipe(k) ==
    /\ Does(k, "rechunk")
    /\ LET d == This(k) IN
       IF Exists(d)
       THEN /\ Write(k, d, [documents[d] EXCEPT !.sections = <<>>, !.rated = {}])
            /\ request' = [request EXCEPT ![k].step = "parsing",
                                          ![k].anchored = documents[d].sections # <<>>]
       ELSE Proceed(k, TRUE) /\ UNCHANGED <<documents, stale>>
    /\ UNCHANGED moves

\* The parse fails, for one because the document is gone: insert_revision is
\* inside the try block.
ParseFails(k) ==
    /\ At(k, "parsing")
    /\ LET d == This(k) IN
       Write(k, d, IF Exists(d) THEN [documents[d] EXCEPT !.status = "failed"] ELSE Gone)
    /\ Proceed(k, TRUE)
    /\ UNCHANGED moves

Persist(k, sections) ==
    /\ At(k, "parsing")
    /\ Exists(This(k))
    /\ documents[This(k)].sections = <<>>
    /\ Write(k, This(k), [documents[This(k)] EXCEPT !.sections = sections])
    /\ request' = [request EXCEPT ![k].step = "marking", ![k].planned = Chunks(sections)]
    /\ UNCHANGED moves

\* Another re-chunk has put chunks there: UNIQUE(document_id, position).
Collide(k) ==
    /\ At(k, "parsing")
    /\ documents[This(k)].sections # <<>>
    /\ GoOn(k, "failed")
    /\ UNCHANGED <<documents, stale, moves>>

MarkReady(k) ==
    /\ At(k, "marking")
    /\ LET d == This(k) IN
       Write(k, d, IF Exists(d) THEN [documents[d] EXCEPT !.status = "ready",
                                                          !.total = request[k].planned]
                   ELSE Gone)
    /\ IF request[k].anchored THEN GoOn(k, "placing") ELSE Proceed(k, TRUE)
    /\ UNCHANGED moves

\* reanchor_reading_state
Reanchor(k) ==
    /\ At(k, "placing")
    /\ LET d == This(k)
           n == Chunks(documents[d].sections)
       IN  IF documents[d].place = Unread \/ n = 0
           THEN UNCHANGED <<documents, stale>>
           ELSE \E high \in 0 .. n - 1 : \E current \in 0 .. high :
                  Write(k, d, [documents[d] EXCEPT !.place =
                                 [current |-> current, high |-> high]])
    /\ Proceed(k, TRUE)
    /\ UNCHANGED moves

-----------------------------------------------------------------------------
(* The reader, who opens a document, reveals its chunks and rates them. *)

Reveal(d) ==
    /\ moves < MaxMoves
    /\ documents[d].status = "ready"
    /\ LET at == IF documents[d].place = Unread THEN 0 ELSE documents[d].place.high + 1
       IN  /\ at < Chunks(documents[d].sections)
           /\ Write(Nobody, d, [documents[d] EXCEPT !.place = [current |-> at, high |-> at]])
    /\ moves' = moves + 1
    /\ UNCHANGED request

Rate(d) ==
    /\ moves < MaxMoves
    /\ documents[d].place # Unread
    /\ documents[d].place.current < Chunks(documents[d].sections)
    /\ Write(Nobody, d, [documents[d] EXCEPT !.rated = @ \cup {documents[d].place.current}])
    /\ moves' = moves + 1
    /\ UNCHANGED request

-----------------------------------------------------------------------------
Actions == {"delete", "rechunk", "tag", "untag"}

Ask(k) ==
    \/ \E segment \in Segments, asked \in Filters : GetLibrary(k, segment, asked)
    \/ \E d \in Docs : Rename(k, d)
    \/ \E action \in Actions, ids \in Selections, asked \in Filters :
         Batch(k, action, ids, asked)
    \/ \E action \in Actions, d \in Docs : PressButton(k, action, d)

Serve(k) ==
    \/ ListRows(k) \/ Read(k) \/ SetTitle(k)
    \/ Load(k) \/ Delete(k) \/ AddTag(k) \/ RemoveTag(k)
    \/ Wipe(k) \/ ParseFails(k) \/ (\E s \in Layouts : Persist(k, s))
    \/ Collide(k) \/ MarkReady(k) \/ Reanchor(k)

Next ==
    \/ \E k \in Requests : Ask(k) \/ Serve(k)
    \/ \E d \in Docs : Reveal(d) \/ Rate(d)

Spec == Init /\ [][Next]_vars

-----------------------------------------------------------------------------
(* Properties *)

\* Every variable keeps its type.  Ratings are of chunks there are, a document
\* somebody has read in has a total, which is what puts it into exactly one of
\* the three segments, and a ready one never has none.
TypeOK ==
    /\ \A d \in Docs :
         LET doc == documents[d] IN
         /\ doc.status \in {"processing", "ready", "failed", "gone"}
         /\ doc.title \in {"old", "new"}
         /\ doc.sections \in Layouts \cup {<<>>}
         /\ doc.rated \subseteq 0 .. Chunks(doc.sections) - 1
         /\ doc.tags \subseteq Tags
         /\ doc.place # Unread => /\ doc.place.current \in 0 .. doc.place.high
                                  /\ doc.total > 0
         /\ doc.status = "ready" => doc.total > 0
         /\ Cardinality({s \in Segments : InSegment(doc, s)}) = 2
    /\ \A k \in Requests :
         /\ request[k].step \in {"idle", "listing", "reading", "renaming", "loading", "acting",
                                 "parsing", "marking", "placing", "answered", "failed"}
         /\ request[k].active \subseteq Tags
         /\ request[k].counted \subseteq Docs
         /\ stale[k] \subseteq Docs
    /\ moves \in 0 .. MaxMoves

\* What the tile of a document has to show.
TrueTile(doc) ==
    [TileOf(doc) EXCEPT
       !.rated = [i \in 1 .. doc.total |-> (i - 1) \in doc.rated],
       !.layout = IF doc.status = "ready" /\ doc.total > 0 THEN doc.sections ELSE <<>>,
       !.tags = doc.tags]

\* The tags a page asks for, but for those nobody uses.
Used(k) == {t \in Tags : \E s \in request[k].asked, e \in Docs :
                            Canonical[s] = t /\ t \in documents[e].tags}

\* The marks of a tile agree, however many chunks there were when each of them
\* was read: where the drawer has a read cell the silhouette has a read bucket,
\* and a rated one where it has a rated cell; and the silhouette fills from
\* the first bucket on.
MarksAgree(tile) ==
    LET bucket == Silhouette(tile.rated, tile.high)
        cell   == Drawer(tile.layout, tile.rated, tile.high)
        Shown(marks, kinds) == \E i \in DOMAIN marks : marks[i] \in kinds
    IN  /\ Shown(cell, {"read", "rated"}) => Shown(bucket, {"read", "rated"})
        /\ Shown(cell, {"rated"}) => Shown(bucket, {"rated"})
        /\ \A a, b \in DOMAIN bucket :
             a < b /\ bucket[a] = "unread" => bucket[b] \notin {"read", "rated"}

\* A page or a tile that is sent shows each document that nobody has changed
\* meanwhile as it is stored, by a page as by a rename; a page nobody disturbed
\* misses no document of its segment that has all the tags asked for, and has
\* none that is of another segment or has none of the tags; and a tile that is
\* torn between two versions of a document still agrees with itself.
TilesAreTrue ==
    \A k \in Requests : At(k, "answered") /\ request[k].action \in {"page", "rename"} =>
      /\ \A d \in Docs : request[k].tiles[d] # NoTile =>
           /\ MarksAgree(request[k].tiles[d])
           /\ d \notin stale[k] => request[k].tiles[d] = TrueTile(documents[d])
      /\ request[k].action = "page" /\ stale[k] = {} =>
           \A d \in Docs :
             LET listed  == request[k].tiles[d] # NoTile
                 belongs == Exists(d) /\ InSegment(documents[d], request[k].segment)
             IN  /\ belongs /\ Used(k) \subseteq documents[d].tags => listed
                 /\ listed => /\ belongs
                              /\ Used(k) = {} \/ Used(k) \cap documents[d].tags # {}

\* What a batch owes a document that only it has written.
Served(k, d) ==
    CASE request[k].action = "delete" -> ~Exists(d)
      [] request[k].action = "tag" -> Exists(d) => Tag(k) \in documents[d].tags
      [] request[k].action = "untag" -> Tag(k) \notin documents[d].tags
      [] request[k].action = "rechunk" ->
           d \in request[k].counted /\ documents[d].status = "ready" =>
             /\ documents[d].sections # <<>>
             /\ documents[d].total = Chunks(documents[d].sections)

\* By how many requests document d counts among those affected by an action on
\* tag t.
Affected(action, d, t) ==
    Cardinality({k \in Requests : /\ request[k].action = action
                                  /\ d \in request[k].counted
                                  /\ Tag(k) = t})

\* A batch reaches every document of a half stale selection that remains: it
\* answers for all of them, and stops only when a document it tags is deleted
\* under it, or when two re-chunks of one document collide.  And its count is
\* of what it changed: over all requests, every document is deleted once, and
\* the tags added and removed come to the tags there are.
BatchesServeWhatRemains ==
    /\ \A k \in Requests : request[k].action \in Actions =>
         /\ At(k, "answered") =>
              \A i \in DOMAIN request[k].ids :
                request[k].ids[i] \notin stale[k] => Served(k, request[k].ids[i])
         /\ At(k, "failed") =>
              \/ Len(request[k].ids) = 1 /\ ~Exists(request[k].ids[1])
              \/ request[k].action = "tag" /\ ~Exists(This(k)) /\ This(k) \in stale[k]
              \/ request[k].action = "rechunk" /\ This(k) \in stale[k]
    /\ \A d \in Docs :
         /\ Cardinality({k \in Requests : request[k].action = "delete"
                                          /\ d \in request[k].counted})
              = IF Exists(d) THEN 0 ELSE 1
         /\ Exists(d) => \A t \in Tags :
              LET net == Affected("tag", d, t) - Affected("untag", d, t) IN
              /\ net \in -1 .. 1
              /\ net = 1 => t \in documents[d].tags
              /\ net = -1 => t \notin documents[d].tags

-----------------------------------------------------------------------------
(* What the repository says and the code does not do.  No run has these:  *)
(* README.md tells what each needs, and what TLC finds, with library.cfg. *)

\* The tags of a page are stacked: a page nobody disturbed has only documents
\* with every one of them (list_library_rows).
TagsAreStacked ==
    \A k \in Requests :
      At(k, "answered") /\ request[k].action = "page" /\ stale[k] = {} =>
        \A d \in Docs :
          request[k].tiles[d] # NoTile => Used(k) \subseteq documents[d].tags

\* Bucket b of the silhouette of a tile of n chunks is of the chunks from
\* b * n / Buckets up to (b + 1) * n / Buckets, rounded down: it shows as read
\* if one of them has been (compute_silhouette_buckets).
BucketsAreRanges ==
    \A k \in Requests, d \in Docs :
      At(k, "answered") /\ request[k].tiles[d] # NoTile =>
        LET tile == request[k].tiles[d]
            n    == Len(tile.rated)
        IN  \A b \in 0 .. Buckets - 1 :
              \A j \in (b * n) \div Buckets .. ((b + 1) * n) \div Buckets - 1 :
                j < tile.high => Silhouette(tile.rated, tile.high)[b] \in {"read", "rated"}

\* "A doc that's read >=95% of chunks counts as finished"
\* (tests/web/test_library_strip.py): a page nobody disturbed lists no document
\* of such progress among those in progress or unread (_SEGMENT_COND).
ReadIsFinished ==
    \A k \in Requests, d \in Docs :
      /\ At(k, "answered") /\ request[k].action = "page" /\ stale[k] = {}
      /\ request[k].segment \in {"in_progress", "unread"}
      /\ request[k].tiles[d] # NoTile
      => request[k].tiles[d].percent < FinishedPercent

\* "A half-stale selection still does the right thing for the docs that remain"
\* (post_batch): a document that is gone fails no batch that still has others
\* to tag.
HalfStaleSelectionsGoOn ==
    \A k \in Requests :
      At(k, "failed") /\ request[k].action = "tag" =>
        \A i \in DOMAIN request[k].left : ~Exists(request[k].left[i])

===============================================================================
