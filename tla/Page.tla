---------------------------------- MODULE Page ---------------------------------
(***************************************************************************)
(* The page that shows a document (web/static/reader.js) and the worker    *)
(* threads that serve it.  The page sends a request at every key press and *)
(* click, without waiting for the answer to the one before: a Space held   *)
(* down is enough.  The routes run on a thread pool, over one ReaderState  *)
(* and one database connection, and nothing locks either; an answer is the *)
(* reader as it stands when the answer is rendered, and is put on the page *)
(* when it comes back, in whatever order.                                  *)
(*                                                                         *)
(* A step of a request below is one assignment to the shared session, or   *)
(* one statement on the shared connection; what a decision or an answer    *)
(* reads, it reads in one step, but for the clock, which post_reveal reads *)
(* before it.  Reader.tla has the routes as single actions, with           *)
(* everything that can fail; here they do not fail.                        *)
(* Times are told from the last of paid_reveal_times, as in Bucket.tla: a  *)
(* request that has read the clock before that one was paid has a negative *)
(* time.                                                                   *)
(* Of the marks there is the rating, as the chunk its event is about and   *)
(* the one the session then remembers; pins and notes look at the current  *)
(* position once.  Left out: loading the page again; jumps; Free Mode;     *)
(* scrolling, and with it the key presses that only scroll back to the     *)
(* current chunk.                                                          *)
(***************************************************************************)
EXTENDS Integers

CONSTANTS
    Fetches,   \* requests that can be under way at once
    Total,     \* chunks of the document
    Capacity, RegenSeconds, IdleMultiplier,   \* BucketConfig
    MaxWait    \* bound: the clock stops so long after the last paid reveal, and
               \* after the oldest reading of it that is still in use

ASSUME PageAssumption ==
    /\ Total \in Nat \ {0}
    /\ Capacity \in Nat \ {0}
    /\ RegenSeconds \in Nat \ {0}
    /\ IdleMultiplier \in Nat \ {0}
    /\ MaxWait \in Nat

VARIABLES
    page,       \* what the page shows
    fetch,      \* each request under way
    session,    \* ReaderState: current_position and high_water_position
    left,       \* what its paid_reveal_times leave in the bucket after the last
    since,      \* time since the last of them
    reading,    \* the time each request has read off the clock
    row,        \* the reading_state row
    revealed,   \* the chunks of the reveal events in the log
    paidFor,    \* history: the chunks of the paid reveals
    overspent,  \* history: a chunk was paid for twice, or without a token
    misrated,   \* history: before any two requests were under way at once, the
                \* session put a rating on another chunk than the log
    overlapped  \* history: two requests were under way at once

store == <<row, revealed>>
bill  == <<left, since, reading, paidFor, overspent>>
history == <<misrated, overlapped>>
vars  == <<page, fetch, session, store, bill, history>>

Bucket == INSTANCE Bucket WITH StartFull <- TRUE

Positions == 0 .. Total - 1
Nowhere   == -1

\* What the page shows (data-current-position, data-high-water-position), what
\* ReaderState holds, and what the row holds.
Places == [current: Positions, high: Positions]
Start  == [current |-> 0, high |-> 0]

\* A request: the step it is at, the position it moves to, the row its
\* projection read, and the answer.
Idle == [step |-> "idle", kind |-> "reveal", target |-> Nowhere, read |-> Start,
         body |-> Start]

Init ==
    /\ page = Start
    /\ fetch = [k \in Fetches |-> Idle]
    /\ session = Start
    /\ left = Capacity
    /\ since = 0
    /\ reading = [k \in Fetches |-> 0]
    /\ row = Start
    /\ revealed = {}
    /\ paidFor = {}
    /\ overspent = FALSE
    /\ misrated = FALSE
    /\ overlapped = FALSE

At(k, step) == fetch[k].step = step
Of(k, kind) == fetch[k].kind = kind
Target(k)   == fetch[k].target
Busy(K)     == \E k \in K : ~At(k, "idle")
\* What is left to do of a request that has only its answer to come.
Left(step) == [Idle EXCEPT !.step = step]

GoOn(k, step) ==
    fetch' = [fetch EXCEPT ![k] = IF step \in {"rendering", "refused"} THEN Left(step)
                                  ELSE [@ EXCEPT !.step = step]]

-----------------------------------------------------------------------------
(* The page *)

\* performAction, as far as fetch.
Send(k, kind, target) ==
    /\ At(k, "idle")
    /\ fetch' = [fetch EXCEPT
         ![k] = [Idle EXCEPT !.step = "sent", !.kind = kind, !.target = target]]
    /\ overlapped' = (overlapped \/ Busy(Fetches \ {k}))
    /\ UNCHANGED <<page, session, store, bill, misrated>>

\* Mutant: behind the frontier, Space goes back to the chunk shown.
PressSpaceStayingPut(k) ==
    IF page.current < page.high THEN Send(k, "go", page.current)
                                ELSE Send(k, "reveal", Nowhere)

\* spaceActionForState: behind the frontier, Space first resumes.
PressSpace(k) ==
    IF page.current < page.high THEN Send(k, "go", page.high)
                                ELSE Send(k, "reveal", Nowhere)

\* A click on the reveal glyph does not look at the frontier.
ClickGlyph(k) == Send(k, "reveal", Nowhere)

PressBackspace(k) == Send(k, "conceal", Nowhere)

PressRating(k) == Send(k, "rate", Nowhere)

\* A click on the body of a chunk.
ClickChunk(k, p) ==
    /\ p <= page.high
    /\ p # page.current
    /\ Send(k, "go", p)

\* applyResponseFragment.
Apply(k) ==
    /\ At(k, "answered")
    /\ page' = fetch[k].body
    /\ fetch' = [fetch EXCEPT ![k] = Idle]
    /\ UNCHANGED <<session, store, bill, history>>

\* An empty bucket (playRejection) and an error leave the page as it is.
Dismiss(k) ==
    /\ At(k, "refused")
    /\ fetch' = [fetch EXCEPT ![k] = Idle]
    /\ UNCHANGED <<page, session, store, bill, history>>

-----------------------------------------------------------------------------
(* The routes *)

\* post_reveal takes the time.
ReadClock(k) ==
    /\ At(k, "sent") /\ Of(k, "reveal")
    /\ reading' = [reading EXCEPT ![k] = since]
    /\ GoOn(k, "timed")
    /\ UNCHANGED <<page, session, store, left, since, paidFor, overspent, history>>

\* tokens_now, of the reveals paid by now and the time read before.
Tokens(k) == Bucket!Credited(left, reading[k])

\* try_reveal, on the session as it stands now.
Outcome(k) == Bucket!TryReveal(session.current, session.high, Total, Tokens(k))

\* The request goes on to a chunk next to the current one.
Aimed(k, step, kind, offset) ==
    [fetch[k] EXCEPT !.step = step, !.kind = kind, !.target = session.current + offset]

\* The time goes with a reveal that is paid for, and no further.
Decided(k, r) ==
    /\ fetch' = [fetch EXCEPT ![k] = r]
    /\ reading' = IF r.kind = "paid_reveal" THEN reading
                  ELSE [reading EXCEPT ![k] = 0]
    /\ UNCHANGED <<page, session, store, left, since, paidFor, overspent, history>>

\* Mutant: the last chunk is not looked for.
DecideRevealPastTheEnd(k) ==
    At(k, "timed") /\ Decided(k, Aimed(k, "moving", "reveal", 1))

\* Mutant: an empty bucket lets the reveal pass, as if it were free.
DecideRevealOnCredit(k) ==
    /\ At(k, "timed")
    /\ Decided(k, CASE Outcome(k) = "end_of_document" -> Left("rendering")
                    [] Outcome(k) = "advanced_paid"   -> Aimed(k, "moving", "paid_reveal", 1)
                    [] OTHER                          -> Aimed(k, "moving", "reveal", 1))

\* The rest of post_reveal up to its first assignment.
DecideReveal(k) ==
    /\ At(k, "timed")
    /\ Decided(k, CASE Outcome(k) = "end_of_document" -> Left("rendering")
                    [] Outcome(k) = "bucket_empty"    -> Left("refused")
                    [] Outcome(k) = "advanced_free"   -> Aimed(k, "moving", "reveal", 1)
                    [] Outcome(k) = "advanced_paid"   -> Aimed(k, "moving", "paid_reveal", 1))

\* Mutant: a reveal moves one on from wherever the session is by then.
MoveByOne(k) ==
    /\ At(k, "moving")
    /\ session' = [session EXCEPT
         !.current = IF Of(k, "conceal") THEN Target(k)
                     ELSE IF @ + 1 < Total THEN @ + 1 ELSE @]
    /\ GoOn(k, CASE Of(k, "paid_reveal") -> "settling"
                 [] Of(k, "reveal")      -> "logging"
                 [] Of(k, "conceal")     -> "rendering")
    /\ UNCHANGED <<page, store, bill, history>>

\* state.current_position = ..., before the event of a reveal and after that
\* of a conceal.
Move(k) ==
    /\ At(k, "moving")
    /\ session' = [session EXCEPT !.current = Target(k)]
    /\ GoOn(k, CASE Of(k, "paid_reveal") -> "settling"
                 [] Of(k, "reveal")      -> "logging"
                 [] Of(k, "conceal")     -> "rendering")
    /\ UNCHANGED <<page, store, bill, history>>

\* state.high_water_position = ...
Settle(k) ==
    /\ At(k, "settling")
    /\ session' = [session EXCEPT !.high = Target(k)]
    /\ GoOn(k, "paying")
    /\ UNCHANGED <<page, store, bill, history>>

\* paid_reveal_times.append, with the time as it was read: the times of the
\* other requests are told from that one from now on.
Pay(k) ==
    /\ At(k, "paying")
    /\ left' = Bucket!Spend(Tokens(k))
    /\ since' = since - reading[k]
    /\ reading' = [j \in Fetches |-> IF j # k /\ (At(j, "timed") \/ Of(j, "paid_reveal"))
                                    THEN reading[j] - reading[k] ELSE 0]
    /\ paidFor' = paidFor \cup {Target(k)}
    /\ overspent' = (overspent \/ Tokens(k) <= 0 \/ Target(k) \in paidFor)
    /\ fetch' = [fetch EXCEPT ![k].step = "logging", ![k].kind = "reveal"]
    /\ UNCHANGED <<page, session, store, history>>

\* post_conceal.
DecideConceal(k) ==
    /\ At(k, "sent") /\ Of(k, "conceal")
    /\ fetch' = [fetch EXCEPT ![k] =
         IF session.current > 0 THEN Aimed(k, "logging", "conceal", -1)
                                ELSE Left("rendering")]
    /\ UNCHANGED <<page, session, store, bill, history>>

\* post_set_current_position.
Go(k) ==
    /\ At(k, "sent") /\ Of(k, "go")
    /\ IF Target(k) <= session.high
         THEN /\ session' = [session EXCEPT !.current = Target(k)]
              /\ GoOn(k, "rendering")
         ELSE /\ GoOn(k, "refused")
              /\ UNCHANGED session
    /\ UNCHANGED <<page, store, bill, history>>

\* _reject_past_frontier, at the head of post_rate.
DecideRate(k) ==
    /\ At(k, "sent") /\ Of(k, "rate")
    /\ GoOn(k, IF session.current > session.high THEN "refused" ELSE "logging")
    /\ UNCHANGED <<page, session, store, bill, history>>

\* EventLog inserts the event, and the projection hook reads the reading_state
\* row it will write back.  A rating is of the chunk that is current by now.
Log(k) ==
    /\ At(k, "logging")
    /\ LET chunk == IF Of(k, "rate") THEN session.current ELSE Target(k)
       IN  /\ fetch' = [fetch EXCEPT ![k].step = "projecting", ![k].read = row,
                                     ![k].target = chunk]
           /\ revealed' = IF Of(k, "reveal") THEN revealed \cup {chunk} ELSE revealed
    /\ UNCHANGED <<page, session, row, bill, history>>

\* apply_event, on the row as it was read.
Folded(k) ==
    LET old == fetch[k].read
    IN  CASE Of(k, "reveal")  -> [current |-> Target(k),
                                  high |-> IF Target(k) > old.high THEN Target(k)
                                           ELSE old.high]
          [] Of(k, "conceal") -> [old EXCEPT !.current = Target(k)]
          [] Of(k, "rate")    -> old

\* _write_reading_state, and the commit.
Project(k) ==
    /\ At(k, "projecting")
    /\ row' = Folded(k)
    /\ fetch' = [fetch EXCEPT ![k] =
         CASE Of(k, "reveal")  -> Left("rendering")
           [] Of(k, "conceal") -> [@ EXCEPT !.step = "moving", !.read = Start]
           [] Of(k, "rate")    -> [@ EXCEPT !.step = "rating", !.read = Start]]
    /\ UNCHANGED <<page, session, revealed, bill, history>>

\* state.chunk_ratings, at the position there is by now.  Under an overlap that
\* may well be another chunk, so only the others count.
Rate(k) ==
    /\ At(k, "rating")
    /\ misrated' = (misrated \/ (~overlapped /\ session.current # Target(k)))
    /\ GoOn(k, "rendering")
    /\ UNCHANGED <<page, session, store, bill, overlapped>>

\* _render_partial.
Render(k) ==
    /\ At(k, "rendering")
    /\ fetch' = [fetch EXCEPT ![k] = [Idle EXCEPT !.step = "answered", !.body = session]]
    /\ UNCHANGED <<page, session, store, bill, history>>

\* Time passes.
Tick ==
    /\ since < MaxWait /\ \A k \in Fetches : since - reading[k] < MaxWait
    /\ since' = since + 1
    /\ UNCHANGED <<page, fetch, session, store, left, reading, paidFor, overspent, history>>

-----------------------------------------------------------------------------
Serve(k) ==
    \/ ReadClock(k) \/ DecideReveal(k) \/ Move(k) \/ Settle(k) \/ Pay(k)
    \/ DecideConceal(k) \/ Go(k) \/ DecideRate(k)
    \/ Log(k) \/ Project(k) \/ Rate(k) \/ Render(k)
    \/ Apply(k) \/ Dismiss(k)

\* Everything a reader does but asking for more.
Wander ==
    \E k \in Fetches :
        PressBackspace(k) \/ PressRating(k) \/ \E p \in Positions : ClickChunk(k, p)

Next ==
    \/ \E k \in Fetches : Serve(k) \/ PressSpace(k) \/ ClickGlyph(k)
    \/ Wander
    \/ Tick

\* Threads run and answers come back, time passes, and the reader keeps coming
\* back to Space, among all else they press.
Fairness ==
    /\ \A k \in Fetches : WF_vars(Serve(k))
    /\ SF_vars(\E k \in Fetches : PressSpace(k))
    /\ WF_vars(Tick)

Spec == Init /\ [][Next]_vars /\ Fairness

-----------------------------------------------------------------------------
(* Properties *)

Steps == {"idle", "sent", "timed", "moving", "settling", "paying", "logging",
          "projecting", "rating", "rendering", "answered", "refused"}
Kinds == {"reveal", "paid_reveal", "conceal", "go", "rate"}

\* Every variable keeps its type: no interleaving of decisions and assignments
\* (post_reveal, post_conceal) takes a position out of the document, or leaves
\* the bucket after a paid reveal out of its range.
TypeOK ==
    /\ page \in Places
    /\ fetch \in [Fetches -> [step: Steps, kind: Kinds,
                              target: Positions \cup {Nowhere}, read: Places,
                              body: Places]]
    /\ session \in Places
    /\ left \in 0 .. Capacity
    /\ since \in Int
    /\ reading \in [Fetches -> Int]
    /\ row \in Places
    /\ revealed \subseteq Positions
    /\ paidFor \subseteq Positions
    /\ {overspent, misrated, overlapped} \subseteq BOOLEAN

Quiet == ~Busy(Fetches)

\* However presses overlap, reading skips nothing: once every request is
\* answered, each chunk up to the frontier and the position, the session's
\* (post_reveal) and the stored ones (apply_event), has its reveal event.
OverlapsSkipNothing ==
    Quiet => \A p \in Positions \ {0} :
        p <= session.current \/ p <= session.high \/ p <= row.high => p \in revealed

\* A reader who waits for each answer is served as if the routes were atomic:
\* they act on what they see, session and row agree on the frontier, every
\* settled chunk was paid for, once and with a token (try_reveal), nothing is
\* shown unsettled, and a rating is remembered where it is logged (post_rate).
PatienceIsSerial ==
    (Quiet /\ ~overlapped) =>
        /\ page = session
        /\ session.high = row.high
        /\ session.current <= session.high
        /\ paidFor = 1 .. session.high
        /\ ~overspent
        /\ ~misrated

\* A reader who from some time on only presses Space, or clicks the glyph, gets
\* to the end of the document and stays there, whatever the page shows by then
\* and however the answers overtake each other: a stale page costs presses and
\* never locks out (spaceActionForState).
SpaceReachesTheEnd ==
    <>[][~Wander]_vars => <>[](session.current = Total - 1)

-----------------------------------------------------------------------------
(* What the repository says and the code does not do.  No run has these:  *)
(* README.md tells what each needs, and what TLC finds, with page.cfg.    *)

\* A token is paid with once, for one chunk: of two requests at nearly the same
\* moment the second finds the bucket empty (try_reveal).
OneTokenPaysOnce == ~overspent

\* The bucket that a reveal is decided on (tokens_now) is never below empty and
\* never above full.
TokensStayInRange ==
    \A k \in Fetches : At(k, "timed") => Tokens(k) \in 0 .. Capacity

===============================================================================
