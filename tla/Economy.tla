-------------------------------- MODULE Economy -------------------------------
(***************************************************************************)
(* One reader pressing Space through one document in paced mode, with the  *)
(* bucket of Bucket.tla and a wall clock that moves between two presses.   *)
(* A press is the paced half of post_reveal (web/routes/reader.py), a step *)
(* back is post_conceal; the clock is _utcnow of web/state.py, which this  *)
(* module only ever moves forward.                                         *)
(***************************************************************************)
EXTENDS Bucket

CONSTANTS
    Total,      \* chunks of the document
    WarmChunks  \* _RESUME_WARM_CHUNKS_DEFAULT (2)

ASSUME EconomyAssumption ==
    /\ Total \in Nat \ {0}
    /\ WarmChunks \in Nat

VARIABLES
    current,     \* ReaderState.current_position
    highWater,   \* ReaderState.high_water_position
    paid,        \* ReaderState.paid_reveal_times, as differences
    since,       \* time from the last paid reveal to now
    outcome,     \* the X-Reveal-Outcome header of the last press
    reveals      \* history: the paid reveals in the event log, each with the
                 \* time since the one before, the first of a session marked

vars == <<current, highWater, paid, since, outcome, reveals>>

Outcomes == {"none", "end_of_document", "advanced_free", "bucket_empty",
             "advanced_paid"}

Tokens == TokensNow(paid, since)

\* Every variable keeps its type, and tokens_now answers with a count in
\* [0, capacity], whatever the history of paid reveals.
TypeOK ==
    /\ current \in 0 .. Total - 1
    /\ highWater \in 0 .. Total - 1
    /\ paid \in Seq(0 .. LongAbsence)
    /\ reveals \in Seq([gap : 0 .. LongAbsence, first : BOOLEAN])
    /\ since \in 0 .. LongAbsence
    /\ outcome \in Outcomes
    /\ Tokens \in 0 .. Capacity

-----------------------------------------------------------------------------

Init ==
    /\ current = 0
    /\ highWater = 0
    /\ paid = << >>
    /\ since = 0
    /\ outcome = "none"
    /\ reveals = << >>

Advances(reason) == reason \in {"advanced_free", "advanced_paid"}

\* The three assignments that follow a paid outcome.
Settle(position) ==
    /\ highWater' = position
    /\ paid' = Append(paid, since)
    /\ reveals' = Append(reveals, [gap |-> since, first |-> paid = << >>])
    /\ since' = 0

\* Mutant: a press that was refused is put on the list of paid reveals.
PressRecordingRefusals ==
    LET reason == TryReveal(current, highWater, Total, Tokens)
    IN  /\ outcome' = reason
        /\ current' = IF Advances(reason) THEN current + 1 ELSE current
        /\ CASE reason = "advanced_paid" -> Settle(current + 1)
             [] reason = "bucket_empty"  -> since' = 0 /\ UNCHANGED <<highWater, paid, reveals>>
             [] OTHER                    -> UNCHANGED <<highWater, paid, reveals, since>>

\* post_reveal outside Free Mode.
Press ==
    LET reason == TryReveal(current, highWater, Total, Tokens)
    IN  /\ outcome' = reason
        /\ current' = IF Advances(reason) THEN current + 1 ELSE current
        /\ IF reason = "advanced_paid"
             THEN Settle(current + 1)
             ELSE UNCHANGED <<highWater, paid, reveals, since>>

\* post_conceal.
Conceal ==
    /\ current > 0
    /\ current' = current - 1
    /\ outcome' = "none"
    /\ UNCHANGED <<highWater, paid, since, reveals>>

\* Another document was opened, or the server restarted, and this document is
\* opened again: build_reader_state_for_document resumes behind the frontier
\* and starts with no paid reveals.
Reopen ==
    /\ paid # << >>
    /\ current' = IF highWater > WarmChunks THEN highWater - WarmChunks ELSE 0
    /\ paid' = << >>
    /\ outcome' = "none"
    /\ UNCHANGED <<highWater, since, reveals>>

\* A second passes.  Before the first paid reveal time has no effect.
Tick ==
    /\ reveals # << >>
    /\ since' = IF since < LongAbsence THEN since + 1 ELSE LongAbsence
    /\ UNCHANGED <<current, highWater, paid, outcome, reveals>>

Next == Press \/ Conceal \/ Reopen \/ Tick

Spec == Init /\ [][Next]_vars

\* Time keeps passing.  Nothing obliges the reader to press.
FairSpec == Spec /\ WF_vars(Tick)

-----------------------------------------------------------------------------
(* Properties *)

\* Time from reveal i to reveal j of the log.
Span(i, j) ==
    LET sum[k \in i .. j] == IF k = i THEN 0 ELSE sum[k - 1] + reveals[k].gap
    IN  sum[j]

\* No reveal after i, up to j, follows an absence that refills the bucket.
Unbroken(i, j) == \A k \in i + 1 .. j : reveals[k].gap <= IdleSeconds

\* One full bucket, and one token for each regeneration period since.
WithinBucket(i, j) == j - i + 1 <= Capacity + Span(i, j) \div RegenSeconds

\* The frontier is paid for chunk by chunk, and a burst within one session that
\* no long absence interrupts is never longer than one full bucket and one
\* token for each regeneration period (try_reveal, tokens_now).  No re-read,
\* step back or refused press earns a token.
PacingBound ==
    /\ highWater = Len(reveals)
    /\ \A i, j \in 1 .. Len(reveals) :
        (/\ i <= j /\ Unbroken(i, j)
         /\ \A k \in i + 1 .. j : ~ reveals[k].first) => WithinBucket(i, j)

\* The same bound for bursts that close and open the document on the way:
\* parsem-spec.md promises that the anti-burst floor is preserved for rapid
\* open/close cycles.  build_reader_state_for_document starts every session
\* with no paid reveals, which is a full bucket, and does not keep it.
AntiBurstFloor ==
    \A i, j \in 1 .. Len(reveals) :
        (i <= j /\ Unbroken(i, j)) => WithinBucket(i, j)

\* An empty bucket is a delay and never a lock-out: it refills while time
\* passes, even under a reader who keeps pressing against it.
EmptyBucketRefills == (Tokens = 0) ~> (Tokens > 0)

===============================================================================
