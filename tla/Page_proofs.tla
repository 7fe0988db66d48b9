----------------------------- MODULE Page_proofs ------------------------------
(***************************************************************************)
(* Theorems about overlapping requests, for any number of requests, any    *)
(* document and any bucket.                                                *)
(***************************************************************************)
EXTENDS Page, TLAPS

-----------------------------------------------------------------------------
(* The inductive invariant *)

\* A request that has decided and not yet rendered.
Deciding == {"moving", "settling", "paying", "logging", "projecting"}

Requests == [step: Steps, kind: Kinds, target: Positions \cup {Nowhere},
             read: Places, body: Places]

\* Which request can be at which step, and where it is going.
Controlled(r) ==
    /\ r.step = "sent" => r.kind # "paid_reveal"
    /\ r.step = "timed" => r.kind = "reveal"
    /\ r.step = "sent" /\ r.kind = "go" => r.target \in Positions
    /\ r.step = "moving" => r.kind \in {"reveal", "paid_reveal", "conceal"}
    /\ r.step \in {"settling", "paying"} => r.kind = "paid_reveal"
    /\ r.step \in {"logging", "projecting"} => r.kind \in {"reveal", "conceal", "rate"}
    /\ r.step = "rating" => r.kind = "rate"
    /\ r.step \in Deciding /\ r.kind # "rate" => r.target \in Positions
    /\ r.step \in {"projecting", "rating"} => r.target \in Positions

Control == \A k \in Fetches : Controlled(fetch[k])

\* A reveal that has decided and will log its chunk.
Announces(k) ==
    /\ fetch[k].step \in {"moving", "settling", "paying", "logging"}
    /\ Of(k, "reveal") \/ Of(k, "paid_reveal")

\* The chunks that are in the log, or will be.
Seen == revealed \cup {Target(k) : k \in {j \in Fetches : Announces(j)}}

\* Whatever a position is taken from, all chunks up to it are in the log, or
\* will be.
Covered ==
    /\ 1 .. session.current \subseteq Seen
    /\ 1 .. session.high \subseteq Seen
    /\ 1 .. row.high \subseteq Seen
    /\ \A k \in Fetches :
          /\ fetch[k].step \in Deciding /\ ~Of(k, "rate") => 1 .. Target(k) \subseteq Seen
          /\ At(k, "projecting") => 1 .. fetch[k].read.high \subseteq Seen

\* Nothing is under way: session, row and bill agree.
Balanced ==
    /\ session.high = row.high
    /\ session.current <= session.high
    /\ paidFor = 1 .. session.high

\* The time k has read is not before the last paid reveal, nor after now.
HasTime(k) == reading[k] \in Nat /\ since - reading[k] \in Nat

\* What holds while request k is served alone.
Alone(k) ==
    /\ At(k, "sent") \/ At(k, "refused") => Balanced /\ page = session
    /\ At(k, "timed") => Balanced /\ page = session /\ HasTime(k)
    /\ At(k, "moving") /\ Of(k, "reveal") => Balanced /\ Target(k) <= session.high
    /\ At(k, "moving") /\ Of(k, "paid_reveal") =>
          Balanced /\ Target(k) = session.high + 1 /\ HasTime(k) /\ Tokens(k) > 0
    /\ At(k, "moving") /\ Of(k, "conceal") => Balanced /\ Target(k) <= session.high
    /\ At(k, "settling") =>
          /\ session.high = row.high
          /\ paidFor = 1 .. session.high
          /\ session.current = Target(k) /\ Target(k) = session.high + 1
          /\ HasTime(k) /\ Tokens(k) > 0
    /\ At(k, "paying") =>
          /\ session.high = Target(k)
          /\ row.high = session.high - 1
          /\ session.current <= session.high
          /\ paidFor = 1 .. session.high - 1
          /\ HasTime(k) /\ Tokens(k) > 0
    /\ (At(k, "logging") \/ At(k, "projecting")) /\ Of(k, "reveal") =>
          /\ session.high = IF Target(k) > row.high THEN Target(k) ELSE row.high
          /\ session.current <= session.high
          /\ paidFor = 1 .. session.high
    /\ (At(k, "logging") \/ At(k, "projecting")) /\ Of(k, "conceal") =>
          Balanced /\ Target(k) <= session.high
    /\ (At(k, "logging") \/ At(k, "projecting")) /\ Of(k, "rate") => Balanced
    /\ (At(k, "projecting") \/ At(k, "rating")) /\ Of(k, "rate") =>
          Target(k) = session.current
    /\ At(k, "projecting") => fetch[k].read = row
    /\ At(k, "rating") \/ At(k, "rendering") => Balanced
    /\ At(k, "answered") => Balanced /\ fetch[k].body = session

\* Until two requests overlap there is one at most, and it finds everything as
\* it would if the routes were atomic.
Serial ==
    ~overlapped =>
        /\ \A j, k \in Fetches : ~At(j, "idle") /\ ~At(k, "idle") => j = k
        /\ ~overspent /\ ~misrated
        /\ Quiet => Balanced /\ page = session
        /\ \A k \in Fetches : Alone(k)

\* Until then, too, the clock is not before the last paid reveal.
Onward == ~overlapped => since \in Nat

-----------------------------------------------------------------------------
(* Type correctness *)

\* What the bucket has is a number, never more than it holds, and never
\* negative when the time is not before the last paid reveal.
LEMMA TokensBounds ==
    ASSUME TypeOK, NEW k \in Fetches
    PROVE  /\ Tokens(k) \in Int /\ Tokens(k) <= Capacity
           /\ reading[k] \in Nat => Tokens(k) \in Nat
  <1> DEFINE periods == reading[k] \div RegenSeconds
  <1>1. /\ left \in Nat /\ reading[k] \in Int
        /\ Capacity \in Nat \ {0} /\ RegenSeconds \in Nat \ {0}
    BY PageAssumption DEF TypeOK
  <1>2. periods \in Int
    BY <1>1
  <1>3. reading[k] \in Nat => periods \in Nat
    BY <1>1
  <1>4. \/ Tokens(k) = Capacity
        \/ Tokens(k) = left + periods /\ Tokens(k) <= Capacity
    <2>1. \/ Tokens(k) = Capacity
          \/ Tokens(k) = IF left + periods > Capacity THEN Capacity ELSE left + periods
      BY DEF Tokens, Bucket!Credited
    <2> HIDE DEF periods
    <2> QED
      BY <1>1, <1>2, <2>1
  <1> HIDE DEF periods
  <1> QED
    BY <1>1, <1>2, <1>3, <1>4

\* A decision that advances finds a next chunk in the document, and one that
\* is paid for does not find the bucket at zero.
LEMMA OutcomeBounds ==
    ASSUME TypeOK, NEW k \in Fetches
    PROVE  /\ Outcome(k) \in {"end_of_document", "bucket_empty",
                              "advanced_free", "advanced_paid"}
           /\ Outcome(k) \in {"advanced_free", "advanced_paid"} =>
                 session.current + 1 \in Positions
           /\ Outcome(k) = "advanced_free" => session.current + 1 <= session.high
           /\ Outcome(k) = "advanced_paid" =>
                 session.current + 1 > session.high /\ Tokens(k) # 0
  <1> DEFINE here == session.current
             front == session.high
             count == Tokens(k)
  <1>1. here \in Positions /\ front \in Positions /\ Total \in Nat /\ count \in Int
    BY PageAssumption, TokensBounds DEF TypeOK, Places
  <1>2. Outcome(k) = Bucket!TryReveal(here, front, Total, count)
    BY DEF Outcome
  <1> HIDE DEF here, front, count
  <1>3. /\ Bucket!TryReveal(here, front, Total, count)
              \in {"end_of_document", "bucket_empty", "advanced_free", "advanced_paid"}
        /\ Bucket!TryReveal(here, front, Total, count)
              \in {"advanced_free", "advanced_paid"} => here + 1 \in Positions
        /\ Bucket!TryReveal(here, front, Total, count) = "advanced_free" =>
              here + 1 <= front
        /\ Bucket!TryReveal(here, front, Total, count) = "advanced_paid" =>
              here + 1 > front /\ count # 0
    BY <1>1 DEF Bucket!TryReveal, Positions
  <1> QED
    BY <1>2, <1>3 DEF here, front, count

\* A fresh request, and one that has only its answer to come.
LEMMA IdleTyped == Idle \in Requests /\ Idle.step = "idle"
  <1>1. Start \in Places
    BY PageAssumption DEF Start, Places, Positions
  <1> QED
    BY <1>1 DEF Idle, Requests, Steps, Kinds

LEMMA LeftTyped ==
    ASSUME NEW step \in {"rendering", "refused", "answered"}
    PROVE  /\ Left(step) \in Requests
           /\ Left(step).step = step
           /\ Controlled(Left(step))
  <1>1. Left(step) \in Requests /\ Left(step).step = step
    BY IdleTyped DEF Left, Requests, Steps
  <1> QED
    BY <1>1 DEF Controlled, Deciding

\* A step of one request leaves the others as they were.
LEMMA OneRequest ==
    ASSUME TypeOK, Control, NEW k \in Fetches, NEW r \in Requests, Controlled(r),
           fetch' = [fetch EXCEPT ![k] = r]
    PROVE  /\ fetch' \in [Fetches -> Requests]
           /\ Control'
  <1>1. fetch \in [Fetches -> Requests]
    BY DEF TypeOK, Requests
  <1>2. \A j \in Fetches : fetch'[j] = IF j = k THEN r ELSE fetch[j]
    BY <1>1
  <1> QED
    BY <1>1, <1>2 DEF Control

\* The changes a request makes to itself.
Renewed(k) == \E r \in Requests : Controlled(r) /\ fetch' = [fetch EXCEPT ![k] = r]

LEMMA RenewedTyped ==
    ASSUME TypeOK, Control, NEW k \in Fetches, Renewed(k)
    PROVE  /\ fetch' \in [Fetches -> Requests]
           /\ Control'
  BY OneRequest DEF Renewed

LEMMA GoOnRenews ==
    ASSUME TypeOK, Control, NEW k \in Fetches, NEW step \in Steps, GoOn(k, step),
           \/ step \in {"rendering", "refused"}
           \/ Controlled([fetch[k] EXCEPT !.step = step])
    PROVE  Renewed(k)
  <1>1. fetch[k] \in Requests
    BY DEF TypeOK, Requests
  <1>2. CASE step \in {"rendering", "refused"}
    BY <1>2, LeftTyped DEF GoOn, Renewed
  <1>3. CASE step \notin {"rendering", "refused"}
    <2>1. [fetch[k] EXCEPT !.step = step] \in Requests
      BY <1>1 DEF Requests
    <2> QED
      BY <1>3, <2>1 DEF GoOn, Renewed
  <1> QED
    BY <1>2, <1>3

LEMMA SendRenews ==
    ASSUME TypeOK, Control, NEW k \in Fetches,
           NEW kind \in {"reveal", "conceal", "rate", "go"},
           NEW target \in Positions \cup {Nowhere},
           kind = "go" => target \in Positions,
           Send(k, kind, target)
    PROVE  TypeOK' /\ Control'
  <1> DEFINE r == [Idle EXCEPT !.step = "sent", !.kind = kind, !.target = target]
  <1>1. r \in Requests
    BY IdleTyped DEF Requests, Steps, Kinds
  <1>2. r.step = "sent" /\ r.kind = kind /\ r.target = target
    BY IdleTyped DEF Requests
  <1>3. Controlled(r)
    BY <1>2 DEF Controlled, Deciding
  <1>4. fetch' = [fetch EXCEPT ![k] = r]
    BY DEF Send
  <1>5. Renewed(k)
    BY <1>1, <1>3, <1>4 DEF Renewed
  <1>6. overlapped' \in BOOLEAN
    BY DEF Send, TypeOK, Busy
  <1> QED
    BY <1>5, <1>6, RenewedTyped DEF Send, TypeOK, Requests, store, bill

LEMMA ReadClockTyped ==
    ASSUME TypeOK, Control, NEW k \in Fetches, ReadClock(k)
    PROVE  TypeOK' /\ Control'
  <1>1. fetch[k] \in Requests /\ fetch[k].kind = "reveal"
    BY DEF TypeOK, Requests, ReadClock, Of
  <1>2. Controlled([fetch[k] EXCEPT !.step = "timed"])
    BY <1>1 DEF Controlled, Requests, Deciding
  <1>3. Renewed(k)
    BY <1>2, GoOnRenews DEF ReadClock, Steps
  <1>4. reading' \in [Fetches -> Int]
    BY DEF ReadClock, TypeOK
  <1> QED
    BY <1>3, <1>4, RenewedTyped DEF ReadClock, TypeOK, Requests, store, history

LEMMA DecideRevealTyped ==
    ASSUME TypeOK, Control, NEW k \in Fetches, DecideReveal(k)
    PROVE  TypeOK' /\ Control'
  <1>1. Renewed(k)
    <2>1. CASE Outcome(k) \in {"end_of_document", "bucket_empty"}
      BY <2>1, LeftTyped DEF DecideReveal, Decided, Renewed
    <2>2. CASE Outcome(k) \in {"advanced_free", "advanced_paid"}
      <3>1. PICK kind \in {"reveal", "paid_reveal"} :
              fetch' = [fetch EXCEPT ![k] = Aimed(k, "moving", kind, 1)]
        BY <2>2 DEF DecideReveal, Decided
      <3>2. session.current + 1 \in Positions
        BY <2>2, OutcomeBounds
      <3>3. /\ Aimed(k, "moving", kind, 1) \in Requests
            /\ Aimed(k, "moving", kind, 1).step = "moving"
            /\ Aimed(k, "moving", kind, 1).kind = kind
            /\ Aimed(k, "moving", kind, 1).target \in Positions
        <4>1. "moving" \in Steps /\ kind \in Kinds
          BY DEF Steps, Kinds
        <4>2. fetch[k] \in Requests
          BY DEF TypeOK, Requests
        <4> QED
          BY <3>2, <4>1, <4>2 DEF Aimed, Requests
      <3>4. Controlled(Aimed(k, "moving", kind, 1))
        BY <3>3 DEF Controlled
      <3> QED
        BY <3>1, <3>3, <3>4 DEF Renewed
    <2> QED
      BY <2>1, <2>2, OutcomeBounds
  <1>2. reading' \in [Fetches -> Int]
    BY DEF DecideReveal, Decided, TypeOK
  <1> QED
    BY <1>1, <1>2, RenewedTyped DEF DecideReveal, Decided, TypeOK, Requests, store, history

LEMMA DecideConcealTyped ==
    ASSUME TypeOK, Control, NEW k \in Fetches, DecideConceal(k)
    PROVE  TypeOK' /\ Control'
  <1>1. Renewed(k)
    <2>1. CASE ~(session.current > 0)
      BY <2>1, LeftTyped DEF DecideConceal, Renewed
    <2>2. CASE session.current > 0
      <3>1. session.current - 1 \in Positions /\ session.current + (-1) \in Positions
        BY <2>2, PageAssumption DEF TypeOK, Places, Positions
      <3>2. /\ Aimed(k, "logging", "conceal", -1) \in Requests
            /\ Aimed(k, "logging", "conceal", -1).step = "logging"
            /\ Aimed(k, "logging", "conceal", -1).kind = "conceal"
            /\ Aimed(k, "logging", "conceal", -1).target \in Positions
        <4>1. "logging" \in Steps /\ "conceal" \in Kinds
          BY DEF Steps, Kinds
        <4>2. fetch[k] \in Requests
          BY DEF TypeOK, Requests
        <4> QED
          BY <3>1, <4>1, <4>2 DEF Aimed, Requests
      <3>3. Controlled(Aimed(k, "logging", "conceal", -1))
        BY <3>2 DEF Controlled
      <3> QED
        BY <2>2, <3>2, <3>3 DEF DecideConceal, Renewed
    <2> QED
      BY <2>1, <2>2
  <1> QED
    BY <1>1, RenewedTyped DEF DecideConceal, TypeOK, Requests, store, bill, history

LEMMA MoveTyped ==
    ASSUME TypeOK, Control, NEW k \in Fetches, Move(k)
    PROVE  TypeOK' /\ Control'
  <1>1. /\ fetch[k] \in Requests /\ Controlled(fetch[k]) /\ fetch[k].step = "moving"
        /\ Target(k) \in Positions
        /\ fetch[k].kind \in {"reveal", "paid_reveal", "conceal"}
    BY DEF TypeOK, Requests, Control, Controlled, Move, At, Deciding, Target
  <1>2. PICK step \in {"settling", "logging", "rendering"} :
          /\ GoOn(k, step)
          /\ step = "settling" => fetch[k].kind = "paid_reveal"
          /\ step = "logging" => fetch[k].kind = "reveal"
    BY <1>1 DEF Move, Of
  <1>3. step # "rendering" => Controlled([fetch[k] EXCEPT !.step = step])
    BY <1>1, <1>2 DEF Controlled, Requests, Deciding, Target
  <1>4. Renewed(k)
    BY <1>2, <1>3, GoOnRenews DEF Steps
  <1>5. session' \in Places
    BY <1>1 DEF Move, TypeOK, Places
  <1> QED
    BY <1>4, <1>5, RenewedTyped DEF Move, TypeOK, Requests, store, bill, history

LEMMA SettleTyped ==
    ASSUME TypeOK, Control, NEW k \in Fetches, Settle(k)
    PROVE  TypeOK' /\ Control'
  <1>1. /\ fetch[k] \in Requests /\ Controlled(fetch[k]) /\ fetch[k].step = "settling"
        /\ Target(k) \in Positions /\ fetch[k].kind = "paid_reveal"
    BY DEF TypeOK, Requests, Control, Controlled, Settle, At, Deciding, Target
  <1>2. Controlled([fetch[k] EXCEPT !.step = "paying"])
    BY <1>1 DEF Controlled, Requests, Deciding, Target
  <1>3. Renewed(k)
    BY <1>2, GoOnRenews DEF Settle, Steps
  <1>4. session' \in Places
    BY <1>1 DEF Settle, TypeOK, Places
  <1> QED
    BY <1>3, <1>4, RenewedTyped DEF Settle, TypeOK, Requests, store, bill, history

LEMMA PayTyped ==
    ASSUME TypeOK, Control, NEW k \in Fetches, Pay(k)
    PROVE  TypeOK' /\ Control'
  <1> DEFINE r == [fetch[k] EXCEPT !.step = "logging", !.kind = "reveal"]
  <1>1. /\ fetch[k] \in Requests /\ Controlled(fetch[k]) /\ fetch[k].step = "paying"
        /\ Target(k) \in Positions
    BY DEF TypeOK, Requests, Control, Controlled, Pay, At, Deciding, Target
  <1>2. r \in Requests /\ r.step = "logging" /\ r.kind = "reveal" /\ r.target = Target(k)
    BY <1>1 DEF Requests, Steps, Kinds, Target
  <1>3. fetch' = [fetch EXCEPT ![k] = r]
    BY <1>1 DEF Pay, TypeOK
  <1> HIDE DEF r
  <1>4. Renewed(k)
    BY <1>1, <1>2, <1>3 DEF Controlled, Renewed
  <1>5. /\ left' \in 0 .. Capacity /\ since' \in Int
        /\ reading' \in [Fetches -> Int]
    <2>1. Tokens(k) \in Int /\ Tokens(k) <= Capacity /\ Capacity \in Nat \ {0}
      BY PageAssumption, TokensBounds
    <2>2. left' = IF Tokens(k) > 0 THEN Tokens(k) - 1 ELSE 0
      BY DEF Pay, Bucket!Spend
    <2>3. left' \in 0 .. Capacity
      BY <2>1, <2>2
    <2> QED
      BY <2>3 DEF Pay, TypeOK
  <1>6. paidFor' \subseteq Positions
    BY <1>1 DEF Pay, TypeOK
  <1>7. overspent' \in BOOLEAN
    BY DEF Pay, TypeOK
  <1> QED
    BY <1>4, <1>5, <1>6, <1>7, RenewedTyped DEF Pay, TypeOK, Requests, store, history

LEMMA GoTyped ==
    ASSUME TypeOK, Control, NEW k \in Fetches, Go(k)
    PROVE  TypeOK' /\ Control'
  <1>1. Target(k) \in Positions
    BY DEF Control, Controlled, Go, At, Of, Target
  <1>2. Renewed(k)
    BY GoOnRenews DEF Go, Steps
  <1>3. session' \in Places
    BY <1>1 DEF Go, TypeOK, Places
  <1> QED
    BY <1>2, <1>3, RenewedTyped DEF Go, TypeOK, Requests, store, bill, history

LEMMA DecideRateTyped ==
    ASSUME TypeOK, Control, NEW k \in Fetches, DecideRate(k)
    PROVE  TypeOK' /\ Control'
  <1>1. fetch[k] \in Requests /\ fetch[k].kind = "rate"
    BY DEF TypeOK, Requests, DecideRate, Of
  <1>2. Controlled([fetch[k] EXCEPT !.step = "logging"])
    BY <1>1 DEF Controlled, Requests
  <1>3. Renewed(k)
    BY <1>2, GoOnRenews DEF DecideRate, Steps
  <1> QED
    BY <1>3, RenewedTyped DEF DecideRate, TypeOK, Requests, store, bill, history

LEMMA LogTyped ==
    ASSUME TypeOK, Control, NEW k \in Fetches, Log(k)
    PROVE  TypeOK' /\ Control'
  <1> DEFINE chunk == IF Of(k, "rate") THEN session.current ELSE Target(k)
             r == [fetch[k] EXCEPT !.step = "projecting", !.read = row, !.target = chunk]
  <1>1. /\ fetch[k] \in Requests /\ Controlled(fetch[k]) /\ fetch[k].step = "logging"
    BY DEF TypeOK, Requests, Control, Log, At
  <1>2. chunk \in Positions
    BY <1>1 DEF Controlled, Deciding, Target, Of, TypeOK, Places
  <1>3. fetch' = [fetch EXCEPT ![k] = r]
    BY DEF Log, TypeOK
  <1> HIDE DEF chunk
  <1>4. /\ r \in Requests /\ r.step = "projecting" /\ r.kind = fetch[k].kind
        /\ r.target = chunk
    BY <1>1, <1>2 DEF Requests, Steps, TypeOK
  <1> HIDE DEF r
  <1>5. Controlled(r)
    BY <1>1, <1>2, <1>4 DEF Controlled
  <1>6. Renewed(k)
    BY <1>3, <1>4, <1>5 DEF Renewed
  <1>7. revealed' \subseteq Positions
    BY <1>2 DEF Log, TypeOK, chunk
  <1> QED
    BY <1>6, <1>7, RenewedTyped DEF Log, TypeOK, Requests, bill, history

\* Folding an event into the row that was read gives a well-formed row.
LEMMA FoldedTyped ==
    ASSUME NEW k \in Fetches, fetch[k] \in Requests, Target(k) \in Positions,
           fetch[k].kind \in {"reveal", "conceal", "rate"}
    PROVE  Folded(k) \in Places
  BY DEF Folded, Requests, Places, Of

LEMMA ProjectTyped ==
    ASSUME TypeOK, Control, NEW k \in Fetches, Project(k)
    PROVE  TypeOK' /\ Control'
  <1>1. /\ fetch[k] \in Requests /\ Controlled(fetch[k]) /\ fetch[k].step = "projecting"
        /\ fetch[k].kind \in {"reveal", "conceal", "rate"} /\ Target(k) \in Positions
    BY DEF TypeOK, Requests, Control, Controlled, Project, At, Target
  <1>2. row' \in Places
    BY <1>1, FoldedTyped DEF Project
  <1>3. Renewed(k)
    <2>1. CASE fetch[k].kind = "reveal"
      BY <2>1, LeftTyped DEF Project, Renewed, Of
    <2>2. CASE fetch[k].kind \in {"conceal", "rate"}
      <3>1. PICK step \in {"moving", "rating"} :
              /\ fetch' = [fetch EXCEPT
                             ![k] = [fetch[k] EXCEPT !.step = step, !.read = Start]]
              /\ step = "moving" <=> fetch[k].kind = "conceal"
        BY <1>1, <2>2 DEF Project, Of, TypeOK
      <3>2. Start \in Places
        BY PageAssumption DEF Start, Places, Positions
      <3> DEFINE r == [fetch[k] EXCEPT !.step = step, !.read = Start]
      <3>3. /\ r \in Requests /\ r.step = step /\ r.kind = fetch[k].kind
            /\ r.target \in Positions
        BY <1>1, <3>2 DEF Requests, Steps, Target
      <3>4. fetch' = [fetch EXCEPT ![k] = r]
        BY <3>1
      <3> HIDE DEF r
      <3>5. Controlled(r)
        BY <2>2, <3>1, <3>3 DEF Controlled
      <3> QED
        BY <3>3, <3>4, <3>5 DEF Renewed
    <2> QED
      BY <1>1, <2>1, <2>2
  <1> QED
    BY <1>2, <1>3, RenewedTyped DEF Project, TypeOK, Requests, bill, history

LEMMA RateTyped ==
    ASSUME TypeOK, Control, NEW k \in Fetches, Rate(k)
    PROVE  TypeOK' /\ Control'
  <1>1. Renewed(k)
    BY GoOnRenews DEF Rate, Steps
  <1>2. misrated' \in BOOLEAN
    BY DEF Rate, TypeOK
  <1> QED
    BY <1>1, <1>2, RenewedTyped DEF Rate, TypeOK, Requests, store, bill

LEMMA RenderTyped ==
    ASSUME TypeOK, Control, NEW k \in Fetches, Render(k)
    PROVE  TypeOK' /\ Control'
  <1> DEFINE r == [Idle EXCEPT !.step = "answered", !.body = session]
  <1>1. r \in Requests /\ r.step = "answered"
    BY IdleTyped DEF Requests, Steps, TypeOK
  <1>2. fetch' = [fetch EXCEPT ![k] = r]
    BY DEF Render
  <1> HIDE DEF r
  <1>3. Renewed(k)
    BY <1>1, <1>2 DEF Renewed, Controlled, Deciding
  <1> QED
    BY <1>3, RenewedTyped DEF Render, TypeOK, Requests, store, bill, history

LEMMA ApplyTyped ==
    ASSUME TypeOK, Control, NEW k \in Fetches, Apply(k) \/ Dismiss(k)
    PROVE  TypeOK' /\ Control'
  <1>1. Controlled(Idle)
    BY IdleTyped DEF Controlled, Deciding
  <1>2. Renewed(k)
    BY <1>1, IdleTyped DEF Apply, Dismiss, Renewed
  <1>3. page' \in Places
    BY DEF Apply, Dismiss, TypeOK
  <1> QED
    BY <1>2, <1>3, RenewedTyped DEF Apply, Dismiss, TypeOK, Requests, store, bill, history

LEMMA TickTyped ==
    ASSUME TypeOK, Control, Tick
    PROVE  TypeOK' /\ Control'
  BY DEF Tick, TypeOK, Control, store, history

\* A key press or a click sends one request.
Press(k) ==
    \E kind \in {"reveal", "conceal", "rate", "go"}, target \in Positions \cup {Nowhere} :
        (kind = "go" => target \in Positions) /\ Send(k, kind, target)

LEMMA PressesSend ==
    ASSUME TypeOK, NEW k \in Fetches,
           \/ PressSpace(k) \/ ClickGlyph(k) \/ PressBackspace(k) \/ PressRating(k)
           \/ \E p \in Positions : ClickChunk(k, p)
    PROVE  Press(k)
  <1>1. page.high \in Positions
    BY DEF TypeOK, Places
  <1> QED
    BY <1>1 DEF PressSpace, ClickGlyph, PressBackspace, PressRating, ClickChunk, Press

\* The ways the program goes on, for the proofs that take one after another.
LEMMA NextCases ==
    ASSUME TypeOK, [Next]_vars
    PROVE  \/ \E k \in Fetches : Press(k) \/ Serve(k)
           \/ Tick
           \/ UNCHANGED vars
  BY PressesSend DEF Next, Wander

LEMMA StepTyped ==
    ASSUME TypeOK, Control, [Next]_vars
    PROVE  TypeOK' /\ Control'
  <1>1. ASSUME NEW k \in Fetches, Press(k) PROVE TypeOK' /\ Control'
    BY <1>1, SendRenews DEF Press
  <1>2. ASSUME NEW k \in Fetches, Serve(k) PROVE TypeOK' /\ Control'
    BY <1>2, ReadClockTyped, DecideRevealTyped, MoveTyped, SettleTyped, PayTyped, DecideConcealTyped,
       GoTyped, DecideRateTyped, LogTyped, ProjectTyped, RateTyped, RenderTyped,
       ApplyTyped DEF Serve
  <1>3. CASE UNCHANGED vars
    BY <1>3 DEF vars, store, bill, history, TypeOK, Control
  <1> QED
    BY <1>1, <1>2, <1>3, TickTyped, NextCases

LEMMA InitTyped == Init => TypeOK /\ Control
  <1> SUFFICES ASSUME Init PROVE TypeOK /\ Control
    OBVIOUS
  <1>1. Start \in Places
    BY PageAssumption DEF Start, Places, Positions
  <1>2. Controlled(Idle)
    BY IdleTyped DEF Controlled, Deciding
  <1>3. fetch \in [Fetches -> Requests] /\ Control
    BY <1>2, IdleTyped DEF Init, Control
  <1>4. /\ left \in 0 .. Capacity /\ since \in Int
        /\ reading \in [Fetches -> Int]
    BY PageAssumption DEF Init
  <1>5. /\ revealed \subseteq Positions /\ paidFor \subseteq Positions
        /\ {overspent, misrated, overlapped} \subseteq BOOLEAN
    BY DEF Init
  <1> QED
    BY <1>1, <1>3, <1>4, <1>5 DEF Init, TypeOK, Requests

\* No interleaving of the decisions and assignments of any number of requests
\* (post_reveal, post_conceal) takes a position out of the document, or leaves
\* the bucket after a paid reveal out of its range.
THEOREM OverlapsKeepTypes == Spec => []TypeOK
  <1>1. TypeOK /\ Control /\ [Next]_vars => (TypeOK /\ Control)'
    BY StepTyped
  <1> QED
    BY <1>1, InitTyped, PTL DEF Spec

-----------------------------------------------------------------------------
(* Reading skips nothing *)

\* Only request k changes.
OnlyRequest(k) == \A j \in Fetches \ {k} : fetch'[j] = fetch[j]

LEMMA ServesOne ==
    ASSUME TypeOK, NEW k \in Fetches, Press(k) \/ Serve(k)
    PROVE  OnlyRequest(k)
  <1>1. \A r : fetch' = [fetch EXCEPT ![k] = r] => OnlyRequest(k)
    BY DEF OnlyRequest, TypeOK
  <1>2. CASE Press(k)
    BY <1>1, <1>2 DEF Press, Send
  <1>3. CASE Serve(k)
    <2>1. CASE Pay(k)
      BY <2>1 DEF OnlyRequest, TypeOK, Pay
    <2>2. CASE Log(k)
      BY <2>2 DEF OnlyRequest, TypeOK, Log
    <2> QED
      BY <1>1, <1>3, <2>1, <2>2
         DEF Serve, ReadClock, DecideReveal, Decided, Move, Settle, DecideConceal, Go,
             DecideRate, Project, Rate, Render, Apply, Dismiss, GoOn
  <1> QED
    BY <1>2, <1>3

\* A request that announces its chunk goes on announcing it until the chunk is
\* in the log.
LEMMA SeenKept ==
    ASSUME TypeOK, NEW k \in Fetches, OnlyRequest(k), revealed \subseteq revealed',
           Announces(k) => \/ Announces(k)' /\ fetch'[k].target = Target(k)
                           \/ Target(k) \in revealed'
    PROVE  Seen \subseteq Seen'
  <1> SUFFICES ASSUME NEW p \in Seen PROVE p \in Seen'
    OBVIOUS
  <1>1. CASE p \in revealed
    BY <1>1 DEF Seen
  <1>2. CASE \E j \in Fetches : Announces(j) /\ p = Target(j)
    <2>1. PICK j \in Fetches : Announces(j) /\ p = Target(j)
      BY <1>2
    <2>2. CASE j = k
      BY <2>1, <2>2 DEF Seen, Target
    <2>3. CASE j # k
      <3>1. Announces(j)' /\ Target(j)' = p
        BY <2>1, <2>3 DEF OnlyRequest, Announces, At, Of, Target
      <3> QED
        BY <3>1 DEF Seen
    <2> QED
      BY <2>2, <2>3
  <1> QED
    BY <1>1, <1>2 DEF Seen

LEMMA SeenGrows ==
    ASSUME TypeOK, Control, NEW k \in Fetches, Press(k) \/ Serve(k)
    PROVE  Seen \subseteq Seen'
  <1>1. OnlyRequest(k)
    BY ServesOne
  <1>2. fetch[k] \in Requests /\ Controlled(fetch[k])
    BY DEF TypeOK, Requests, Control
  <1>3. revealed \subseteq revealed'
    BY DEF Press, Send, Serve, ReadClock, DecideReveal, Decided, Move, Settle, Pay, DecideConceal, Go,
           DecideRate, Log, Project, Rate, Render, Apply, Dismiss, store
  <1>4. Announces(k) => \/ Announces(k)' /\ fetch'[k].target = Target(k)
                        \/ Target(k) \in revealed'
    <2> SUFFICES ASSUME Announces(k)
                 PROVE  \/ Announces(k)' /\ fetch'[k].target = Target(k)
                        \/ Target(k) \in revealed'
      OBVIOUS
    <2>1. fetch[k].step \in {"moving", "settling", "paying", "logging"}
      BY DEF Announces
    <2>2. Move(k) \/ Settle(k) \/ Pay(k) \/ Log(k)
      BY <2>1 DEF Press, Send, Serve, ReadClock, DecideReveal, DecideConceal, Go, DecideRate,
                  Project, Rate, Render, Apply, Dismiss, At
    <2>3. CASE Move(k)
      <3>1. PICK step \in {"settling", "logging"} : GoOn(k, step)
        BY <2>3 DEF Move, Announces, Of
      <3>2. fetch'[k] = [fetch[k] EXCEPT !.step = step]
        BY <3>1 DEF GoOn, TypeOK
      <3> QED
        BY <1>2, <3>2 DEF Announces, Of, Target, Requests
    <2>4. CASE Settle(k)
      <3>1. fetch'[k] = [fetch[k] EXCEPT !.step = "paying"]
        BY <2>4 DEF Settle, GoOn, TypeOK
      <3> QED
        BY <1>2, <3>1 DEF Announces, Of, Target, Requests
    <2>5. CASE Pay(k)
      <3>1. fetch'[k] = [fetch[k] EXCEPT !.step = "logging", !.kind = "reveal"]
        BY <2>5 DEF Pay, TypeOK
      <3> QED
        BY <1>2, <3>1 DEF Announces, Of, Target, Requests
    <2>6. CASE Log(k)
      <3>1. fetch[k].kind = "reveal"
        BY <1>2, <2>6 DEF Log, At, Announces, Of, Controlled
      <3> QED
        BY <2>6, <3>1 DEF Log, Of
    <2> QED
      BY <2>2, <2>3, <2>4, <2>5, <2>6
  <1> QED
    BY <1>1, <1>3, <1>4, SeenKept

\* What a step must keep covered: the positions it assigns, and those its
\* request will.
LEMMA CoveredKept ==
    ASSUME TypeOK, Covered, NEW k \in Fetches, OnlyRequest(k), Seen \subseteq Seen',
           1 .. session'.current \subseteq Seen',
           1 .. session'.high \subseteq Seen',
           1 .. row'.high \subseteq Seen',
           fetch'[k].step \in Deciding /\ fetch'[k].kind # "rate" =>
              1 .. fetch'[k].target \subseteq Seen',
           fetch'[k].step = "projecting" => 1 .. fetch'[k].read.high \subseteq Seen'
    PROVE  Covered'
  <1>1. ASSUME NEW j \in Fetches
        PROVE  /\ fetch'[j].step \in Deciding /\ fetch'[j].kind # "rate" =>
                     1 .. fetch'[j].target \subseteq Seen'
               /\ fetch'[j].step = "projecting" =>
                     1 .. fetch'[j].read.high \subseteq Seen'
    <2>1. CASE j = k
      BY <2>1
    <2>2. CASE j # k
      BY <2>2 DEF OnlyRequest, Covered, At, Of, Target
    <2> QED
      BY <2>1, <2>2
  <1> QED
    BY <1>1 DEF Covered, At, Of, Target

\* A request that is sent, refused, answered or done has nothing to cover.
LEMMA CoveredByOthers ==
    ASSUME TypeOK, Control, Covered, NEW k \in Fetches, Press(k) \/ Serve(k),
           fetch'[k].step \notin Deciding,
           UNCHANGED <<session, row>>
    PROVE  Covered'
  <1>1. OnlyRequest(k) /\ Seen \subseteq Seen'
    BY ServesOne, SeenGrows
  <1>2. /\ 1 .. session'.current \subseteq Seen' /\ 1 .. session'.high \subseteq Seen'
        /\ 1 .. row'.high \subseteq Seen'
    BY <1>1 DEF Covered
  <1>3. fetch'[k].step # "projecting"
    BY DEF Deciding
  <1> QED
    BY <1>1, <1>2, <1>3, CoveredKept

\* What is covered up to a position and has the next one is covered up to that.
LEMMA UpToTheNext ==
    ASSUME NEW p \in Positions, NEW S, 1 .. p \subseteq S, p + 1 \in S
    PROVE  1 .. p + 1 \subseteq S
  <1>1. p \in Nat
    BY PageAssumption DEF Positions
  <1>2. \A q \in 1 .. p + 1 : q \in 1 .. p \/ q = p + 1
    BY <1>1
  <1> QED
    BY <1>2

LEMMA DecideRevealCovered ==
    ASSUME TypeOK, Control, Covered, NEW k \in Fetches, DecideReveal(k)
    PROVE  Covered'
  <1>1. OnlyRequest(k) /\ Seen \subseteq Seen'
    BY ServesOne, SeenGrows DEF Serve
  <1>2. fetch[k] \in Requests /\ session.current \in Positions
    BY DEF TypeOK, Requests, Places
  <1>3. CASE Outcome(k) \in {"end_of_document", "bucket_empty"}
    <2>1. fetch'[k].step \in {"rendering", "refused"}
      BY <1>3, LeftTyped DEF DecideReveal, Decided, TypeOK
    <2> QED
      BY <2>1, CoveredByOthers DEF Deciding, DecideReveal, Decided, Serve, store
  <1>4. CASE Outcome(k) \in {"advanced_free", "advanced_paid"}
    <2>1. PICK kind \in {"reveal", "paid_reveal"} :
            fetch'[k] = Aimed(k, "moving", kind, 1)
      BY <1>4 DEF DecideReveal, Decided, TypeOK
    <2>2. /\ fetch'[k].step = "moving" /\ fetch'[k].kind = kind
          /\ fetch'[k].target = session.current + 1
      BY <1>2, <2>1 DEF Aimed, Requests
    <2>3. Announces(k)'
      BY <2>2 DEF Announces, Of
    <2>4. session.current + 1 \in Seen'
      BY <2>2, <2>3 DEF Seen, Target
    <2>5. 1 .. session.current \subseteq Seen'
      BY <1>1 DEF Covered
    <2>6. 1 .. session.current + 1 \subseteq Seen'
      BY <1>2, <2>4, <2>5, UpToTheNext
    <2>7. UNCHANGED <<session, row>>
      BY DEF DecideReveal, Decided, store
    <2> QED
      BY <1>1, <2>2, <2>6, <2>7, CoveredKept DEF Covered
  <1> QED
    BY <1>3, <1>4, OutcomeBounds

LEMMA DecideConcealCovered ==
    ASSUME TypeOK, Control, Covered, NEW k \in Fetches, DecideConceal(k)
    PROVE  Covered'
  <1>1. OnlyRequest(k) /\ Seen \subseteq Seen'
    BY ServesOne, SeenGrows DEF Serve
  <1>2. fetch[k] \in Requests /\ session.current \in Positions
    BY DEF TypeOK, Requests, Places
  <1>3. CASE ~(session.current > 0)
    <2>1. fetch'[k].step = "rendering"
      BY <1>3, LeftTyped DEF DecideConceal, TypeOK
    <2> QED
      BY <2>1, CoveredByOthers DEF Deciding, DecideConceal, Serve, store
  <1>4. CASE session.current > 0
    <2>1. fetch'[k] = Aimed(k, "logging", "conceal", -1)
      BY <1>4 DEF DecideConceal, TypeOK
    <2>2. /\ fetch'[k].step = "logging"
          /\ fetch'[k].target = session.current - 1
      BY <1>2, <2>1, PageAssumption DEF Aimed, Requests, Positions
    <2>3. 1 .. session.current \subseteq Seen'
      BY <1>1 DEF Covered
    <2>4. 1 .. session.current - 1 \subseteq Seen'
      BY <1>2, <2>3, PageAssumption DEF Positions
    <2>5. UNCHANGED <<session, row>>
      BY DEF DecideConceal, store
    <2> QED
      BY <1>1, <2>2, <2>4, <2>5, CoveredKept DEF Covered
  <1> QED
    BY <1>3, <1>4

LEMMA MoveCovered ==
    ASSUME TypeOK, Control, Covered, NEW k \in Fetches, Move(k)
    PROVE  Covered'
  <1>1. OnlyRequest(k) /\ Seen \subseteq Seen'
    BY ServesOne, SeenGrows DEF Serve
  <1>2. /\ fetch[k] \in Requests /\ fetch[k].step = "moving"
        /\ fetch[k].kind \in {"reveal", "paid_reveal", "conceal"}
    BY DEF TypeOK, Requests, Control, Controlled, Move, At
  <1>3. 1 .. Target(k) \subseteq Seen'
    BY <1>1, <1>2 DEF Covered, Deciding, Of
  <1>4. session'.current = Target(k) /\ session'.high = session.high /\ row' = row
    BY DEF Move, TypeOK, Places, store
  <1>5. fetch'[k].step \in Deciding => fetch'[k].target = Target(k)
    <2>1. PICK step \in {"settling", "logging", "rendering"} : GoOn(k, step)
      BY <1>2 DEF Move, Of
    <2>2. CASE step = "rendering"
      BY <2>1, <2>2, LeftTyped DEF GoOn, TypeOK, Deciding
    <2>3. CASE step # "rendering"
      BY <1>2, <2>1, <2>3 DEF GoOn, TypeOK, Requests, Target
    <2> QED
      BY <2>2, <2>3
  <1>6. fetch'[k].step # "projecting"
    BY <1>2, LeftTyped DEF Move, GoOn, TypeOK, Requests, Of
  <1> QED
    BY <1>1, <1>3, <1>4, <1>5, <1>6, CoveredKept DEF Covered

LEMMA SettleCovered ==
    ASSUME TypeOK, Control, Covered, NEW k \in Fetches, Settle(k)
    PROVE  Covered'
  <1>1. OnlyRequest(k) /\ Seen \subseteq Seen'
    BY ServesOne, SeenGrows DEF Serve
  <1>2. /\ fetch[k] \in Requests /\ fetch[k].step = "settling"
        /\ fetch[k].kind = "paid_reveal"
    BY DEF TypeOK, Requests, Control, Controlled, Settle, At
  <1>3. 1 .. Target(k) \subseteq Seen'
    BY <1>1, <1>2 DEF Covered, Deciding, Of
  <1>4. session'.high = Target(k) /\ session'.current = session.current /\ row' = row
    BY DEF Settle, TypeOK, Places, store
  <1>5. fetch'[k] = [fetch[k] EXCEPT !.step = "paying"]
    BY DEF Settle, GoOn, TypeOK
  <1>6. fetch'[k].step = "paying" /\ fetch'[k].target = Target(k)
    BY <1>2, <1>5 DEF Requests, Target
  <1> QED
    BY <1>1, <1>3, <1>4, <1>6, CoveredKept DEF Covered

LEMMA PayCovered ==
    ASSUME TypeOK, Control, Covered, NEW k \in Fetches, Pay(k)
    PROVE  Covered'
  <1>1. OnlyRequest(k) /\ Seen \subseteq Seen'
    BY ServesOne, SeenGrows DEF Serve
  <1>2. /\ fetch[k] \in Requests /\ fetch[k].step = "paying"
        /\ fetch[k].kind = "paid_reveal"
    BY DEF TypeOK, Requests, Control, Controlled, Pay, At
  <1>3. 1 .. Target(k) \subseteq Seen'
    BY <1>1, <1>2 DEF Covered, Deciding, Of
  <1>4. session' = session /\ row' = row
    BY DEF Pay, store
  <1>5. fetch'[k] = [fetch[k] EXCEPT !.step = "logging", !.kind = "reveal"]
    BY DEF Pay, TypeOK
  <1>6. fetch'[k].step = "logging" /\ fetch'[k].target = Target(k)
    BY <1>2, <1>5 DEF Requests, Target
  <1> QED
    BY <1>1, <1>3, <1>4, <1>6, CoveredKept DEF Covered

LEMMA GoCovered ==
    ASSUME TypeOK, Control, Covered, NEW k \in Fetches, Go(k)
    PROVE  Covered'
  <1>1. OnlyRequest(k) /\ Seen \subseteq Seen'
    BY ServesOne, SeenGrows DEF Serve
  <1>2. Target(k) \in Positions /\ session.high \in Positions
    BY DEF Control, Controlled, Go, At, Of, Target, TypeOK, Places
  <1>3. 1 .. session.high \subseteq Seen' /\ 1 .. session.current \subseteq Seen'
        /\ 1 .. row'.high \subseteq Seen'
    BY <1>1 DEF Covered, Go, store
  <1>4. fetch'[k].step \notin Deciding
    BY LeftTyped DEF Go, GoOn, TypeOK, Deciding
  <1>5. CASE Target(k) <= session.high
    <2>1. session'.current = Target(k) /\ session'.high = session.high
      BY <1>5 DEF Go, TypeOK, Places
    <2>2. 1 .. Target(k) \subseteq Seen'
      BY <1>2, <1>3, <1>5, PageAssumption DEF Positions
    <2> QED
      BY <1>1, <1>3, <1>4, <2>1, <2>2, CoveredKept DEF Deciding
  <1>6. CASE ~(Target(k) <= session.high)
    BY <1>4, <1>6, CoveredByOthers DEF Go, store, Serve
  <1> QED
    BY <1>5, <1>6

LEMMA DecideRateCovered ==
    ASSUME TypeOK, Control, Covered, NEW k \in Fetches, DecideRate(k)
    PROVE  Covered'
  <1>1. OnlyRequest(k) /\ Seen \subseteq Seen'
    BY ServesOne, SeenGrows DEF Serve
  <1>2. fetch[k] \in Requests /\ fetch[k].kind = "rate"
    BY DEF TypeOK, Requests, DecideRate, Of
  <1>3. session' = session /\ row' = row
    BY DEF DecideRate, store
  <1>4. CASE session.current > session.high
    <2>1. fetch'[k].step = "refused"
      BY <1>4, LeftTyped DEF DecideRate, GoOn, TypeOK
    <2> QED
      BY <1>3, <2>1, CoveredByOthers DEF Deciding, Serve
  <1>5. CASE ~(session.current > session.high)
    <2>1. fetch'[k] = [fetch[k] EXCEPT !.step = "logging"]
      BY <1>5 DEF DecideRate, GoOn, TypeOK
    <2>2. fetch'[k].step = "logging" /\ fetch'[k].kind = "rate"
      BY <1>2, <2>1 DEF Requests
    <2> QED
      BY <1>1, <1>3, <2>2, CoveredKept DEF Covered
  <1> QED
    BY <1>4, <1>5

LEMMA LogCovered ==
    ASSUME TypeOK, Control, Covered, NEW k \in Fetches, Log(k)
    PROVE  Covered'
  <1>1. OnlyRequest(k) /\ Seen \subseteq Seen'
    BY ServesOne, SeenGrows DEF Serve
  <1>2. fetch[k] \in Requests /\ fetch[k].step = "logging"
    BY DEF TypeOK, Requests, Log, At
  <1>3. session' = session /\ row' = row
    BY DEF Log
  <1>4. fetch'[k] = [fetch[k] EXCEPT
          !.step = "projecting", !.read = row,
          !.target = IF Of(k, "rate") THEN session.current ELSE Target(k)]
    BY DEF Log, TypeOK
  <1>5. /\ fetch'[k].kind = fetch[k].kind /\ fetch'[k].read = row
        /\ fetch[k].kind # "rate" => fetch'[k].target = Target(k)
    BY <1>2, <1>4 DEF Requests, Of, Target
  <1>6. fetch[k].kind # "rate" => 1 .. Target(k) \subseteq Seen'
    BY <1>1, <1>2 DEF Covered, Deciding, Of
  <1>7. 1 .. row.high \subseteq Seen'
    BY <1>1 DEF Covered
  <1> QED
    BY <1>1, <1>3, <1>5, <1>6, <1>7, CoveredKept DEF Covered

LEMMA ProjectCovered ==
    ASSUME TypeOK, Control, Covered, NEW k \in Fetches, Project(k)
    PROVE  Covered'
  <1>1. OnlyRequest(k) /\ Seen \subseteq Seen'
    BY ServesOne, SeenGrows DEF Serve
  <1>2. /\ fetch[k] \in Requests /\ fetch[k].step = "projecting"
        /\ fetch[k].kind \in {"reveal", "conceal", "rate"}
    BY DEF TypeOK, Requests, Control, Controlled, Project, At
  <1>3. session' = session /\ row' = Folded(k)
    BY DEF Project
  <1>4. /\ fetch[k].kind # "rate" => 1 .. Target(k) \subseteq Seen'
        /\ 1 .. fetch[k].read.high \subseteq Seen'
    BY <1>1, <1>2 DEF Covered, Deciding, Of, At
  <1>5. \/ row'.high = fetch[k].read.high
        \/ row'.high = Target(k) /\ fetch[k].kind # "rate"
    BY <1>2, <1>3 DEF Folded, Of, Requests, Places
  <1>6. 1 .. row'.high \subseteq Seen'
    BY <1>4, <1>5
  <1>7. CASE fetch[k].kind = "reveal"
    <2>1. fetch'[k].step = "rendering"
      BY <1>7, LeftTyped DEF Project, Of, TypeOK
    <2> QED
      BY <1>1, <1>3, <1>6, <2>1, CoveredKept DEF Covered, Deciding
  <1>8. CASE fetch[k].kind = "conceal"
    <2>1. fetch'[k] = [fetch[k] EXCEPT !.step = "moving", !.read = Start]
      BY <1>8 DEF Project, Of, TypeOK
    <2>2. fetch'[k].step = "moving" /\ fetch'[k].target = Target(k)
      BY <1>2, <2>1 DEF Requests, Target
    <2> QED
      BY <1>1, <1>3, <1>4, <1>6, <1>8, <2>2, CoveredKept DEF Covered
  <1>9. CASE fetch[k].kind = "rate"
    <2>1. fetch'[k] = [fetch[k] EXCEPT !.step = "rating", !.read = Start]
      BY <1>9 DEF Project, Of, TypeOK
    <2>2. fetch'[k].step = "rating"
      BY <1>2, <2>1 DEF Requests
    <2> QED
      BY <1>1, <1>3, <1>6, <2>2, CoveredKept DEF Covered, Deciding
  <1> QED
    BY <1>2, <1>7, <1>8, <1>9

LEMMA StepCovered ==
    ASSUME TypeOK, Control, Covered, [Next]_vars
    PROVE  Covered'
  <1>1. ASSUME NEW k \in Fetches, Press(k) PROVE Covered'
    <2>1. fetch'[k].step = "sent" /\ UNCHANGED <<session, row>>
      <3>1. PICK kind, target : Send(k, kind, target)
        BY <1>1 DEF Press
      <3>2. fetch'[k] = [Idle EXCEPT !.step = "sent", !.kind = kind, !.target = target]
        BY <3>1 DEF Send, TypeOK
      <3> QED
        BY <3>1, <3>2, IdleTyped DEF Send, store, Requests
    <2> QED
      BY <1>1, <2>1, CoveredByOthers DEF Deciding
  <1>2. ASSUME NEW k \in Fetches,
               ReadClock(k) \/ Rate(k) \/ Render(k) \/ Apply(k) \/ Dismiss(k)
        PROVE  Covered'
    <2>1. CASE ReadClock(k)
      <3>1. fetch'[k] = [fetch[k] EXCEPT !.step = "timed"] /\ fetch[k] \in Requests
        BY <2>1 DEF ReadClock, GoOn, TypeOK, Requests
      <3>2. fetch'[k].step = "timed" /\ UNCHANGED <<session, row>>
        BY <2>1, <3>1 DEF ReadClock, store, Requests
      <3> QED
        BY <1>2, <3>2, CoveredByOthers DEF Deciding, Serve
    <2>2. ASSUME ~ReadClock(k) PROVE fetch'[k].step \in {"rendering", "answered", "idle"}
      <3>1. [Idle EXCEPT !.step = "answered", !.body = session].step = "answered"
        BY IdleTyped DEF Requests
      <3> QED
        BY <1>2, <2>2, <3>1, LeftTyped, IdleTyped
           DEF Rate, Render, Apply, Dismiss, GoOn, TypeOK
    <2>3. UNCHANGED <<session, row>>
      BY <1>2 DEF ReadClock, Rate, Render, Apply, Dismiss, store
    <2> QED
      BY <1>2, <2>1, <2>2, <2>3, CoveredByOthers DEF Deciding, Serve
  <1>3. ASSUME NEW k \in Fetches, Serve(k) PROVE Covered'
    BY <1>2, <1>3, DecideRevealCovered, MoveCovered, SettleCovered, PayCovered,
       DecideConcealCovered, GoCovered, DecideRateCovered, LogCovered, ProjectCovered
       DEF Serve
  <1>4. CASE Tick \/ UNCHANGED vars
    <2>1. UNCHANGED <<fetch, session, row, revealed>>
      BY <1>4 DEF Tick, vars, store
    <2>2. Seen' = Seen
      BY <2>1 DEF Seen, Announces, At, Of, Target
    <2> QED
      BY <2>1, <2>2 DEF Covered, At, Of, Target
  <1> QED
    BY <1>1, <1>3, <1>4, NextCases

\* Once every request is answered, the log has the reveal of every chunk up to
\* any position or frontier the session (post_reveal) or the row (apply_event)
\* holds, however many requests overlapped.
THEOREM OverlapsNeverSkip == Spec => []OverlapsSkipNothing
  <1> DEFINE Inv == TypeOK /\ Control /\ Covered
  <1>1. Init => Inv
    <2> SUFFICES ASSUME Init PROVE Covered
      BY InitTyped
    <2>1. 1 .. 0 = {}
      OBVIOUS
    <2> QED
      BY <2>1 DEF Init, Covered, Start, Idle, Deciding, At
  <1>2. Inv /\ [Next]_vars => Inv'
    BY StepTyped, StepCovered
  <1>3. Inv => OverlapsSkipNothing
    <2> SUFFICES ASSUME Inv, Quiet, NEW p \in Positions \ {0},
                        p <= session.current \/ p <= session.high \/ p <= row.high
                 PROVE  p \in revealed
      BY DEF OverlapsSkipNothing
    <2>1. Seen = revealed
      BY DEF Quiet, Busy, Seen, Announces, At
    <2>2. /\ session.current \in Positions /\ session.high \in Positions
          /\ row.high \in Positions
      BY DEF TypeOK, Places
    <2>3. p \in 1 .. session.current \/ p \in 1 .. session.high \/ p \in 1 .. row.high
      BY <2>2, PageAssumption DEF Positions
    <2> QED
      BY <2>1, <2>3 DEF Covered
  <1> QED
    BY <1>1, <1>2, <1>3, PTL DEF Spec

-----------------------------------------------------------------------------
(* Patience is serial *)

\* What a request that is served alone finds and must leave behind.
Only(k) ==
    /\ \A j \in Fetches \ {k} : At(j, "idle")
    /\ ~overspent /\ ~misrated
    /\ Alone(k)

LEMMA SerialKept ==
    ASSUME TypeOK, NEW k \in Fetches, OnlyRequest(k), Only(k),
           ~overspent', ~misrated', Alone(k)',
           fetch'[k].step = "idle" => Balanced' /\ page' = session'
    PROVE  Serial'
  <1>1. \A j \in Fetches \ {k} : fetch'[j].step = "idle"
    BY DEF Only, OnlyRequest, At
  <1>2. \A i, j \in Fetches : fetch'[i].step # "idle" /\ fetch'[j].step # "idle" => i = j
    BY <1>1
  <1>3. Quiet' => fetch'[k].step = "idle"
    BY DEF Quiet, Busy, At
  <1>4. \A j \in Fetches : Alone(j)'
    <2>1. \A j \in Fetches \ {k} : Alone(j)'
      BY <1>1 DEF Alone, At
    <2> QED
      BY <2>1
  <1> QED
    BY <1>2, <1>3, <1>4 DEF Serial, At

\* A request that is being served finds itself alone.
LEMMA ServedAlone ==
    ASSUME Serial, ~overlapped, NEW k \in Fetches, ~At(k, "idle")
    PROVE  Only(k)
  BY DEF Serial, Only

LEMMA NumbersTyped ==
    ASSUME TypeOK
    PROVE  /\ session.current \in Nat /\ session.high \in Nat /\ row.high \in Nat
           /\ \A k \in Fetches : fetch[k].target \in Int /\ fetch[k].read.high \in Nat
  <1>1. Positions \subseteq Nat
    BY PageAssumption DEF Positions
  <1>2. \A k \in Fetches : fetch[k].target \in Positions \cup {-1}
                           /\ fetch[k].read.high \in Positions
    BY DEF TypeOK, Places, Nowhere
  <1>3. /\ session.current \in Positions /\ session.high \in Positions
        /\ row.high \in Positions
    BY DEF TypeOK, Places
  <1>4. \A p \in Positions \cup {-1} : p \in Int
    BY <1>1
  <1> QED
    BY <1>1, <1>2, <1>3, <1>4

\* The time and the count are as they were when the bucket is.
LEMMA TimeKept ==
    ASSUME NEW k, UNCHANGED <<left, since, reading>>
    PROVE  HasTime(k)' = HasTime(k) /\ Tokens(k)' = Tokens(k)
  BY DEF HasTime, Tokens, Bucket!Credited, Bucket!IdleSeconds

LEMMA PressSerial ==
    ASSUME TypeOK, Control, Serial, ~overlapped', NEW k \in Fetches, Press(k)
    PROVE  Serial'
  <1>1. PICK kind, target : Send(k, kind, target)
    BY DEF Press
  <1>2. ~overlapped /\ ~Busy(Fetches \ {k}) /\ At(k, "idle")
    BY <1>1 DEF Send
  <1>3. Quiet
    BY <1>2 DEF Quiet, Busy
  <1>4. Only(k)
    BY <1>2 DEF Only, Busy, Serial
  <1>5. Balanced /\ page = session /\ ~overspent /\ ~misrated
    BY <1>2, <1>3 DEF Serial
  <1>6. UNCHANGED <<page, session, row, paidFor, overspent, misrated>>
    BY <1>1 DEF Send, store, bill
  <1>7. fetch'[k].step = "sent"
    <2>1. fetch'[k] = [Idle EXCEPT !.step = "sent", !.kind = kind, !.target = target]
      BY <1>1 DEF Send, TypeOK
    <2> QED
      BY <2>1, IdleTyped DEF Requests
  <1>8. Balanced'
    BY <1>5, <1>6 DEF Balanced
  <1>9. Alone(k)'
    BY <1>5, <1>6, <1>7, <1>8 DEF Alone, At, Of
  <1> QED
    BY <1>4, <1>5, <1>6, <1>7, <1>9, ServesOne, SerialKept

LEMMA ReadClockSerial ==
    ASSUME TypeOK, Control, Serial, Onward, ~overlapped, NEW k \in Fetches, ReadClock(k)
    PROVE  Serial'
  <1>1. Only(k) /\ OnlyRequest(k)
    BY ServedAlone, ServesOne DEF ReadClock, At, Serve
  <1>2. Balanced /\ page = session /\ ~overspent /\ ~misrated
    BY <1>1 DEF Only, Alone, ReadClock
  <1>3. UNCHANGED <<page, session, row, since, paidFor, overspent, misrated>>
    BY DEF ReadClock, store, history
  <1>4. fetch'[k].step = "timed"
    <2>1. fetch[k] \in Requests
      BY DEF TypeOK, Requests
    <2>2. fetch'[k] = [fetch[k] EXCEPT !.step = "timed"]
      BY DEF ReadClock, GoOn, TypeOK
    <2> QED
      BY <2>1, <2>2 DEF Requests
  <1>5. reading'[k] = since /\ since \in Nat
    BY DEF ReadClock, TypeOK, Onward
  <1>6. HasTime(k)'
    BY <1>3, <1>5 DEF HasTime
  <1>7. Balanced' /\ page' = session'
    BY <1>2, <1>3 DEF Balanced
  <1>8. Alone(k)'
    BY <1>4, <1>6, <1>7 DEF Alone, At
  <1> QED
    BY <1>1, <1>2, <1>3, <1>4, <1>8, SerialKept

LEMMA DecideRevealSerial ==
    ASSUME TypeOK, Control, Serial, ~overlapped, NEW k \in Fetches, DecideReveal(k)
    PROVE  Serial'
  <1>1. Only(k) /\ OnlyRequest(k)
    BY ServedAlone, ServesOne DEF DecideReveal, At, Serve
  <1>2. Balanced /\ page = session /\ HasTime(k) /\ ~overspent /\ ~misrated
    BY <1>1 DEF Only, Alone, DecideReveal
  <1>3. UNCHANGED <<page, session, row, left, since, paidFor, overspent, misrated>>
    BY DEF DecideReveal, Decided, store, history
  <1>4. Balanced' /\ page' = session'
    BY <1>2, <1>3 DEF Balanced
  <1>5. CASE Outcome(k) \in {"end_of_document", "bucket_empty"}
    <2>1. fetch'[k].step \in {"rendering", "refused"}
      BY <1>5, LeftTyped DEF DecideReveal, Decided, TypeOK
    <2>2. Alone(k)'
      BY <1>4, <2>1 DEF Alone, At
    <2> QED
      BY <1>1, <1>2, <1>3, <2>1, <2>2, SerialKept
  <1>6. CASE Outcome(k) \in {"advanced_free", "advanced_paid"}
    <2>1. PICK form \in {"reveal", "paid_reveal"} :
            /\ fetch'[k] = Aimed(k, "moving", form, 1)
            /\ form = "paid_reveal" <=> Outcome(k) = "advanced_paid"
      BY <1>6 DEF DecideReveal, Decided, TypeOK
    <2>2. fetch[k] \in Requests
      BY DEF TypeOK, Requests
    <2>3. /\ fetch'[k].step = "moving" /\ fetch'[k].kind = form
          /\ fetch'[k].target = session.current + 1
      BY <2>1, <2>2 DEF Aimed, Requests
    <2>4. session.current <= session.high
      BY <1>2 DEF Balanced
    <2>5. form = "reveal" => session.current + 1 <= session.high
      BY <1>6, <2>1, OutcomeBounds
    <2>6. form = "paid_reveal" => session.current + 1 = session.high + 1
      BY <2>1, <2>4, OutcomeBounds, NumbersTyped
    <2>7. form = "paid_reveal" => HasTime(k)' /\ Tokens(k)' > 0
      <3> SUFFICES ASSUME form = "paid_reveal" PROVE HasTime(k)' /\ Tokens(k)' > 0
        OBVIOUS
      <3>1. Aimed(k, "moving", form, 1).kind = "paid_reveal"
        BY <2>2 DEF Aimed, Requests
      <3>2. reading' = reading
        BY <1>6, <2>1, <3>1 DEF DecideReveal, Decided
      <3>3. Tokens(k) \in Nat /\ Tokens(k) # 0
        BY <1>2, <2>1, OutcomeBounds, TokensBounds DEF HasTime
      <3> QED
        BY <1>2, <1>3, <3>2, <3>3, TimeKept
    <2>8. Alone(k)'
      BY <1>3, <1>4, <2>3, <2>5, <2>6, <2>7 DEF Alone, At, Of, Target
    <2> QED
      BY <1>1, <1>2, <1>3, <2>3, <2>8, SerialKept
  <1> QED
    BY <1>5, <1>6, OutcomeBounds

LEMMA MoveSerial ==
    ASSUME TypeOK, Control, Serial, ~overlapped, NEW k \in Fetches, Move(k)
    PROVE  Serial'
  <1>1. Only(k) /\ OnlyRequest(k)
    BY ServedAlone, ServesOne DEF Move, At, Serve
  <1>2. /\ fetch[k] \in Requests /\ fetch[k].step = "moving"
        /\ fetch[k].kind \in {"reveal", "paid_reveal", "conceal"}
    BY DEF TypeOK, Requests, Control, Controlled, Move, At
  <1>3. Balanced /\ ~overspent /\ ~misrated
    BY <1>1, <1>2 DEF Only, Alone, At, Of
  <1>4. UNCHANGED <<row, left, since, reading, paidFor, overspent, misrated>>
    BY DEF Move, store, bill, history
  <1>5. session'.current = Target(k) /\ session'.high = session.high
    BY DEF Move, TypeOK, Places
  <1>6. CASE fetch[k].kind = "reveal"
    <2>1. fetch'[k] = [fetch[k] EXCEPT !.step = "logging"]
      BY <1>6 DEF Move, GoOn, Of, TypeOK
    <2>2. fetch'[k].step = "logging" /\ fetch'[k].kind = "reveal"
          /\ fetch'[k].target = Target(k)
      BY <1>2, <1>6, <2>1 DEF Requests, Target
    <2>3. Target(k) <= session.high
      BY <1>1, <1>2, <1>6 DEF Only, Alone, At, Of
    <2>4. /\ session'.high = row'.high /\ ~(Target(k) > row'.high)
          /\ session'.current <= session'.high /\ paidFor' = 1 .. session'.high
      BY <1>3, <1>4, <1>5, <2>3, NumbersTyped DEF Balanced, Target
    <2>5. Alone(k)'
      BY <2>2, <2>4 DEF Alone, At, Of, Target
    <2> QED
      BY <1>1, <1>3, <1>4, <2>2, <2>5, SerialKept
  <1>7. CASE fetch[k].kind = "paid_reveal"
    <2>1. fetch'[k] = [fetch[k] EXCEPT !.step = "settling"]
      BY <1>7 DEF Move, GoOn, Of, TypeOK
    <2>2. fetch'[k].step = "settling" /\ fetch'[k].target = Target(k)
      BY <1>2, <2>1 DEF Requests, Target
    <2>3. Target(k) = session.high + 1 /\ HasTime(k)' /\ Tokens(k)' > 0
      BY <1>1, <1>2, <1>4, <1>7, TimeKept DEF Only, Alone, At, Of
    <2>4. Alone(k)'
      BY <1>3, <1>4, <1>5, <2>2, <2>3 DEF Alone, At, Target, Balanced
    <2> QED
      BY <1>1, <1>3, <1>4, <2>2, <2>4, SerialKept
  <1>8. CASE fetch[k].kind = "conceal"
    <2>1. fetch'[k].step = "rendering"
      BY <1>8, LeftTyped DEF Move, GoOn, Of, TypeOK
    <2>2. Target(k) <= session.high
      BY <1>1, <1>2, <1>8 DEF Only, Alone, At, Of
    <2>3. Balanced'
      BY <1>3, <1>4, <1>5, <2>2 DEF Balanced
    <2>4. Alone(k)'
      BY <2>1, <2>3 DEF Alone, At
    <2> QED
      BY <1>1, <1>3, <1>4, <2>1, <2>4, SerialKept
  <1> QED
    BY <1>2, <1>6, <1>7, <1>8

LEMMA SettleSerial ==
    ASSUME TypeOK, Control, Serial, ~overlapped, NEW k \in Fetches, Settle(k)
    PROVE  Serial'
  <1>1. Only(k) /\ OnlyRequest(k)
    BY ServedAlone, ServesOne DEF Settle, At, Serve
  <1>2. fetch[k] \in Requests /\ At(k, "settling")
    BY DEF TypeOK, Requests, Settle
  <1>3. /\ session.high = row.high /\ paidFor = 1 .. session.high
        /\ session.current = Target(k) /\ Target(k) = session.high + 1
        /\ HasTime(k) /\ Tokens(k) > 0 /\ ~overspent /\ ~misrated
    BY <1>1, <1>2 DEF Only, Alone
  <1>4. UNCHANGED <<row, left, since, reading, paidFor, overspent, misrated>>
    BY DEF Settle, store, bill, history
  <1>5. session'.high = Target(k) /\ session'.current = session.current
    BY DEF Settle, TypeOK, Places
  <1>6. fetch'[k] = [fetch[k] EXCEPT !.step = "paying"]
    BY DEF Settle, GoOn, TypeOK
  <1>7. fetch'[k].step = "paying" /\ fetch'[k].target = Target(k)
    BY <1>2, <1>6 DEF Requests, Target
  <1>8. row'.high = session'.high - 1 /\ session'.current <= session'.high
    BY <1>3, <1>4, <1>5, NumbersTyped
  <1>9. paidFor' = 1 .. session'.high - 1
    BY <1>3, <1>4, <1>8
  <1>10. HasTime(k)' /\ Tokens(k)' > 0
    BY <1>3, <1>4, TimeKept
  <1>11. Alone(k)'
    BY <1>3, <1>4, <1>5, <1>7, <1>8, <1>9, <1>10 DEF Alone, At, Target
  <1> QED
    BY <1>1, <1>3, <1>4, <1>7, <1>11, SerialKept

LEMMA PaySerial ==
    ASSUME TypeOK, Control, Serial, ~overlapped, NEW k \in Fetches, Pay(k)
    PROVE  Serial'
  <1>1. Only(k) /\ OnlyRequest(k)
    BY ServedAlone, ServesOne DEF Pay, At, Serve
  <1>2. fetch[k] \in Requests /\ At(k, "paying")
    BY DEF TypeOK, Requests, Pay
  <1>3. /\ session.high = Target(k) /\ row.high = session.high - 1
        /\ session.current <= session.high /\ paidFor = 1 .. session.high - 1
        /\ Tokens(k) > 0 /\ ~overspent /\ ~misrated
    BY <1>1, <1>2 DEF Only, Alone
  <1>4. UNCHANGED <<session, row, misrated>>
    BY DEF Pay, store, history
  <1>5. fetch'[k] = [fetch[k] EXCEPT !.step = "logging", !.kind = "reveal"]
    BY DEF Pay, TypeOK
  <1>6. /\ fetch'[k].step = "logging" /\ fetch'[k].kind = "reveal"
        /\ fetch'[k].target = Target(k)
    BY <1>2, <1>5 DEF Requests, Target
  <1>7. Target(k) \in Positions \ {0}
    <2>1. Target(k) \in Positions /\ row.high \in Nat
      BY <1>2, <1>3, NumbersTyped DEF Control, Controlled, At, Deciding, Target, TypeOK,
                                      Places
    <2>2. Target(k) # 0
      BY <1>3, <2>1
    <2> QED
      BY <2>1, <2>2
  <1>8. \A n \in Nat : n > 0 => n \notin 1 .. n - 1 /\ 1 .. n = (1 .. n - 1) \cup {n}
    OBVIOUS
  <1>9. Target(k) \in Nat /\ Target(k) > 0
    BY <1>7, PageAssumption DEF Positions
  <1>10. paidFor' = 1 .. session.high /\ Target(k) \notin paidFor
    BY <1>3, <1>8, <1>9 DEF Pay
  <1>11. ~overspent'
    <2>1. ~(Tokens(k) <= 0)
      BY <1>3, TokensBounds
    <2> QED
      BY <1>3, <1>10, <2>1 DEF Pay
  <1>12. Target(k) > row.high
    BY <1>3, NumbersTyped
  <1>13. Alone(k)'
    BY <1>3, <1>4, <1>6, <1>10, <1>12 DEF Alone, At, Of, Target
  <1> QED
    BY <1>1, <1>3, <1>4, <1>6, <1>11, <1>13, SerialKept

LEMMA DecideConcealSerial ==
    ASSUME TypeOK, Control, Serial, ~overlapped, NEW k \in Fetches, DecideConceal(k)
    PROVE  Serial'
  <1>1. Only(k) /\ OnlyRequest(k)
    BY ServedAlone, ServesOne DEF DecideConceal, At, Serve
  <1>2. Balanced /\ ~overspent /\ ~misrated
    BY <1>1 DEF Only, Alone, DecideConceal
  <1>3. UNCHANGED <<session, row, paidFor, overspent, misrated>>
    BY DEF DecideConceal, store, bill, history
  <1>4. Balanced'
    BY <1>2, <1>3 DEF Balanced
  <1>5. CASE ~(session.current > 0)
    <2>1. fetch'[k].step = "rendering"
      BY <1>5, LeftTyped DEF DecideConceal, TypeOK
    <2>2. Alone(k)'
      BY <1>4, <2>1 DEF Alone, At
    <2> QED
      BY <1>1, <1>2, <1>3, <2>1, <2>2, SerialKept
  <1>6. CASE session.current > 0
    <2>1. fetch[k] \in Requests /\ fetch'[k] = Aimed(k, "logging", "conceal", -1)
      BY <1>6 DEF DecideConceal, TypeOK, Requests
    <2>2. /\ fetch'[k].step = "logging" /\ fetch'[k].kind = "conceal"
          /\ fetch'[k].target = session.current + (-1)
      BY <2>1 DEF Aimed, Requests
    <2>3. fetch'[k].target <= session'.high
      BY <1>2, <1>3, <2>2, NumbersTyped DEF Balanced
    <2>4. Alone(k)'
      BY <1>4, <2>2, <2>3 DEF Alone, At, Of, Target
    <2> QED
      BY <1>1, <1>2, <1>3, <2>2, <2>4, SerialKept
  <1> QED
    BY <1>5, <1>6

LEMMA GoSerial ==
    ASSUME TypeOK, Control, Serial, ~overlapped, NEW k \in Fetches, Go(k)
    PROVE  Serial'
  <1>1. Only(k) /\ OnlyRequest(k)
    BY ServedAlone, ServesOne DEF Go, At, Serve
  <1>2. Balanced /\ page = session /\ ~overspent /\ ~misrated
    BY <1>1 DEF Only, Alone, Go
  <1>3. UNCHANGED <<page, row, paidFor, overspent, misrated>>
    BY DEF Go, store, bill, history
  <1>4. CASE Target(k) <= session.high
    <2>1. fetch'[k].step = "rendering"
      BY <1>4, LeftTyped DEF Go, GoOn, TypeOK
    <2>2. session'.current = Target(k) /\ session'.high = session.high
      BY <1>4 DEF Go, TypeOK, Places
    <2>3. Balanced'
      BY <1>2, <1>3, <1>4, <2>2 DEF Balanced
    <2>4. Alone(k)'
      BY <2>1, <2>3 DEF Alone, At
    <2> QED
      BY <1>1, <1>2, <1>3, <2>1, <2>4, SerialKept
  <1>5. CASE ~(Target(k) <= session.high)
    <2>1. fetch'[k].step = "refused" /\ session' = session
      BY <1>5, LeftTyped DEF Go, GoOn, TypeOK
    <2>2. Balanced' /\ page' = session'
      BY <1>2, <1>3, <2>1 DEF Balanced
    <2>3. Alone(k)'
      BY <2>1, <2>2 DEF Alone, At
    <2> QED
      BY <1>1, <1>2, <1>3, <2>1, <2>3, SerialKept
  <1> QED
    BY <1>4, <1>5

LEMMA DecideRateSerial ==
    ASSUME TypeOK, Control, Serial, ~overlapped, NEW k \in Fetches, DecideRate(k)
    PROVE  Serial'
  <1>1. Only(k) /\ OnlyRequest(k)
    BY ServedAlone, ServesOne DEF DecideRate, At, Serve
  <1>2. Balanced /\ page = session /\ ~overspent /\ ~misrated
    BY <1>1 DEF Only, Alone, DecideRate
  <1>3. UNCHANGED <<page, session, row, paidFor, overspent, misrated>>
    BY DEF DecideRate, store, bill, history
  <1>4. Balanced' /\ page' = session'
    BY <1>2, <1>3 DEF Balanced
  <1>5. CASE session.current > session.high
    <2>1. fetch'[k].step = "refused"
      BY <1>5, LeftTyped DEF DecideRate, GoOn, TypeOK
    <2>2. Alone(k)'
      BY <1>4, <2>1 DEF Alone, At
    <2> QED
      BY <1>1, <1>2, <1>3, <2>1, <2>2, SerialKept
  <1>6. CASE ~(session.current > session.high)
    <2>1. fetch[k] \in Requests /\ fetch[k].kind = "rate"
      BY DEF TypeOK, Requests, DecideRate, Of
    <2>2. fetch'[k] = [fetch[k] EXCEPT !.step = "logging"]
      BY <1>6 DEF DecideRate, GoOn, TypeOK
    <2>3. fetch'[k].step = "logging" /\ fetch'[k].kind = "rate"
      BY <2>1, <2>2 DEF Requests
    <2>4. Alone(k)'
      BY <1>4, <2>3 DEF Alone, At, Of
    <2> QED
      BY <1>1, <1>2, <1>3, <2>3, <2>4, SerialKept
  <1> QED
    BY <1>5, <1>6

LEMMA LogSerial ==
    ASSUME TypeOK, Control, Serial, ~overlapped, NEW k \in Fetches, Log(k)
    PROVE  Serial'
  <1>1. Only(k) /\ OnlyRequest(k)
    BY ServedAlone, ServesOne DEF Log, At, Serve
  <1>2. /\ fetch[k] \in Requests /\ At(k, "logging")
        /\ fetch[k].kind \in {"reveal", "conceal", "rate"}
    BY DEF TypeOK, Requests, Control, Controlled, Log, At
  <1>3. UNCHANGED <<session, row, paidFor, overspent, misrated>>
    BY DEF Log, bill, history
  <1>4. ~overspent /\ ~misrated
    BY <1>1 DEF Only
  <1>5. fetch'[k] = [fetch[k] EXCEPT
          !.step = "projecting", !.read = row,
          !.target = IF Of(k, "rate") THEN session.current ELSE Target(k)]
    BY DEF Log, TypeOK
  <1>6. /\ fetch'[k].step = "projecting" /\ fetch'[k].kind = fetch[k].kind
        /\ fetch'[k].read = row
        /\ fetch[k].kind # "rate" => fetch'[k].target = Target(k)
        /\ fetch[k].kind = "rate" => fetch'[k].target = session.current
    BY <1>2, <1>5 DEF Requests, Of, Target
  <1>7. Alone(k)'
    <2>1. CASE fetch[k].kind = "reveal"
      <3>1. /\ session.high = IF Target(k) > row.high THEN Target(k) ELSE row.high
            /\ session.current <= session.high /\ paidFor = 1 .. session.high
        BY <1>1, <1>2, <2>1 DEF Only, Alone, Of
      <3> QED
        BY <1>3, <1>6, <2>1, <3>1 DEF Alone, At, Of, Target
    <2>2. CASE fetch[k].kind = "conceal"
      <3>1. Balanced /\ Target(k) <= session.high
        BY <1>1, <1>2, <2>2 DEF Only, Alone, Of
      <3>2. Balanced'
        BY <1>3, <3>1 DEF Balanced
      <3> QED
        BY <1>3, <1>6, <2>2, <3>1, <3>2 DEF Alone, At, Of, Target
    <2>3. CASE fetch[k].kind = "rate"
      <3>1. Balanced
        BY <1>1, <1>2, <2>3 DEF Only, Alone, Of
      <3>2. Balanced'
        BY <1>3, <3>1 DEF Balanced
      <3> QED
        BY <1>3, <1>6, <2>3, <3>2 DEF Alone, At, Of, Target
    <2> QED
      BY <1>2, <2>1, <2>2, <2>3
  <1> QED
    BY <1>1, <1>3, <1>4, <1>6, <1>7, SerialKept

LEMMA ProjectSerial ==
    ASSUME TypeOK, Control, Serial, ~overlapped, NEW k \in Fetches, Project(k)
    PROVE  Serial'
  <1>1. Only(k) /\ OnlyRequest(k)
    BY ServedAlone, ServesOne DEF Project, At, Serve
  <1>2. /\ fetch[k] \in Requests /\ At(k, "projecting")
        /\ fetch[k].kind \in {"reveal", "conceal", "rate"}
    BY DEF TypeOK, Requests, Control, Controlled, Project, At
  <1>3. UNCHANGED <<session, paidFor, overspent, misrated>> /\ row' = Folded(k)
    BY DEF Project, bill, history
  <1>4. ~overspent /\ ~misrated /\ fetch[k].read = row /\ row \in Places
    BY <1>1, <1>2 DEF Only, Alone, TypeOK
  <1>5. CASE fetch[k].kind = "reveal"
    <2>1. fetch'[k].step = "rendering"
      BY <1>5, LeftTyped DEF Project, Of, TypeOK
    <2>2. /\ session.high = IF Target(k) > row.high THEN Target(k) ELSE row.high
          /\ session.current <= session.high /\ paidFor = 1 .. session.high
      BY <1>1, <1>2, <1>5 DEF Only, Alone, Of
    <2>3. row'.high = IF Target(k) > row.high THEN Target(k) ELSE row.high
      BY <1>3, <1>4, <1>5 DEF Folded, Of
    <2>4. Balanced'
      BY <1>3, <2>2, <2>3 DEF Balanced
    <2>5. Alone(k)'
      BY <2>1, <2>4 DEF Alone, At
    <2> QED
      BY <1>1, <1>3, <1>4, <2>1, <2>5, SerialKept
  <1>6. CASE fetch[k].kind = "conceal"
    <2>1. fetch'[k] = [fetch[k] EXCEPT !.step = "moving", !.read = Start]
      BY <1>6 DEF Project, Of, TypeOK
    <2>2. /\ fetch'[k].step = "moving" /\ fetch'[k].kind = "conceal"
          /\ fetch'[k].target = Target(k)
      BY <1>2, <1>6, <2>1 DEF Requests, Target
    <2>3. Balanced /\ Target(k) <= session.high
      BY <1>1, <1>2, <1>6 DEF Only, Alone, Of
    <2>4. row'.high = row.high
      BY <1>3, <1>4, <1>6 DEF Folded, Of, Places
    <2>5. Balanced'
      BY <1>3, <2>3, <2>4 DEF Balanced
    <2>6. Alone(k)'
      BY <1>3, <2>2, <2>3, <2>5 DEF Alone, At, Of, Target
    <2> QED
      BY <1>1, <1>3, <1>4, <2>2, <2>6, SerialKept
  <1>7. CASE fetch[k].kind = "rate"
    <2>1. fetch'[k] = [fetch[k] EXCEPT !.step = "rating", !.read = Start]
      BY <1>7 DEF Project, Of, TypeOK
    <2>2. /\ fetch'[k].step = "rating" /\ fetch'[k].kind = "rate"
          /\ fetch'[k].target = Target(k)
      BY <1>2, <1>7, <2>1 DEF Requests, Target
    <2>3. Balanced /\ Target(k) = session.current
      BY <1>1, <1>2, <1>7 DEF Only, Alone, Of
    <2>4. row' = row
      BY <1>3, <1>4, <1>7 DEF Folded, Of
    <2>5. Balanced'
      BY <1>3, <2>3, <2>4 DEF Balanced
    <2>6. Alone(k)'
      BY <1>3, <2>2, <2>3, <2>5 DEF Alone, At, Of, Target
    <2> QED
      BY <1>1, <1>3, <1>4, <2>2, <2>6, SerialKept
  <1> QED
    BY <1>2, <1>5, <1>6, <1>7

LEMMA RateSerial ==
    ASSUME TypeOK, Control, Serial, ~overlapped, NEW k \in Fetches, Rate(k)
    PROVE  Serial'
  <1>1. Only(k) /\ OnlyRequest(k)
    BY ServedAlone, ServesOne DEF Rate, At, Serve
  <1>2. Of(k, "rate")
    BY DEF Control, Controlled, Rate, At, Of
  <1>3. Balanced /\ Target(k) = session.current /\ ~overspent /\ ~misrated
    BY <1>1, <1>2 DEF Only, Alone, Rate
  <1>4. UNCHANGED <<session, row, paidFor, overspent>>
    BY DEF Rate, store, bill
  <1>5. ~misrated'
    BY <1>3 DEF Rate
  <1>6. fetch'[k].step = "rendering"
    BY LeftTyped DEF Rate, GoOn, TypeOK
  <1>7. Balanced'
    BY <1>3, <1>4 DEF Balanced
  <1>8. Alone(k)'
    BY <1>6, <1>7 DEF Alone, At
  <1> QED
    BY <1>1, <1>3, <1>4, <1>5, <1>6, <1>8, SerialKept

LEMMA RenderSerial ==
    ASSUME TypeOK, Control, Serial, ~overlapped, NEW k \in Fetches, Render(k)
    PROVE  Serial'
  <1>1. Only(k) /\ OnlyRequest(k)
    BY ServedAlone, ServesOne DEF Render, At, Serve
  <1>2. Balanced /\ ~overspent /\ ~misrated
    BY <1>1 DEF Only, Alone, Render
  <1>3. UNCHANGED <<session, row, paidFor, overspent, misrated>>
    BY DEF Render, store, bill, history
  <1>4. fetch'[k] = [Idle EXCEPT !.step = "answered", !.body = session]
    BY DEF Render, TypeOK
  <1>5. fetch'[k].step = "answered" /\ fetch'[k].body = session
    BY <1>4, IdleTyped DEF Requests
  <1>6. Balanced'
    BY <1>2, <1>3 DEF Balanced
  <1>7. Alone(k)'
    BY <1>3, <1>5, <1>6 DEF Alone, At
  <1> QED
    BY <1>1, <1>2, <1>3, <1>5, <1>7, SerialKept

LEMMA ApplySerial ==
    ASSUME TypeOK, Control, Serial, ~overlapped, NEW k \in Fetches,
           Apply(k) \/ Dismiss(k)
    PROVE  Serial'
  <1>1. Only(k) /\ OnlyRequest(k)
    BY ServedAlone, ServesOne DEF Apply, Dismiss, At, Serve
  <1>2. Balanced /\ ~overspent /\ ~misrated /\ page' = session
    BY <1>1 DEF Only, Alone, Apply, Dismiss
  <1>3. UNCHANGED <<session, row, paidFor, overspent, misrated>>
    BY DEF Apply, Dismiss, store, bill, history
  <1>4. fetch'[k].step = "idle"
    BY IdleTyped DEF Apply, Dismiss, TypeOK
  <1>5. Balanced' /\ page' = session'
    BY <1>2, <1>3 DEF Balanced
  <1>6. Alone(k)'
    BY <1>4 DEF Alone, At
  <1> QED
    BY <1>1, <1>2, <1>3, <1>4, <1>5, <1>6, SerialKept

LEMMA TickSerial ==
    ASSUME TypeOK, Serial, Tick
    PROVE  Serial'
  <1>1. UNCHANGED <<page, fetch, session, row, left, reading, paidFor, overspent,
                    misrated, overlapped>>
    BY DEF Tick, store, history
  <1>2. ASSUME NEW k \in Fetches
        PROVE  (HasTime(k) => HasTime(k)') /\ Tokens(k)' = Tokens(k)
    <2>1. since \in Int /\ reading[k] \in Int /\ since' = since + 1
      BY DEF Tick, TypeOK
    <2>2. since - reading[k] \in Nat => since' - reading[k] \in Nat
      BY <2>1
    <2>3. HasTime(k) => HasTime(k)'
      BY <1>1, <2>2 DEF HasTime
    <2> QED
      BY <1>1, <2>3 DEF Tokens, Bucket!Credited, Bucket!IdleSeconds
  <1>3. ASSUME NEW k \in Fetches, Alone(k) PROVE Alone(k)'
    BY <1>1, <1>2, <1>3 DEF Alone, Balanced, At, Of, Target
  <1> QED
    BY <1>1, <1>3 DEF Serial, Quiet, Busy, At, Balanced

LEMMA StepOnward ==
    ASSUME TypeOK, Serial, Onward, [Next]_vars
    PROVE  Onward'
  <1>1. ASSUME NEW k \in Fetches, Pay(k) PROVE Onward'
    <2>1. ~overlapped => HasTime(k)
      BY <1>1 DEF Serial, Alone, Pay
    <2> QED
      BY <1>1, <2>1 DEF Onward, HasTime, Pay, history
  <1>2. ASSUME NEW k \in Fetches, Serve(k), ~Pay(k) PROVE Onward'
    BY <1>2 DEF Onward, Serve, ReadClock, DecideReveal, Decided, Move, Settle,
                DecideConceal, Go, DecideRate, Log, Project, Rate, Render, Apply, Dismiss,
                bill, history
  <1>3. ASSUME NEW k \in Fetches, Press(k) PROVE Onward'
    BY <1>3 DEF Onward, Press, Send, bill, TypeOK
  <1>4. CASE Tick
    BY <1>4 DEF Onward, Tick, history
  <1>5. CASE UNCHANGED vars
    BY <1>5 DEF Onward, vars, bill, history
  <1> QED
    BY <1>1, <1>2, <1>3, <1>4, <1>5, NextCases

LEMMA StepSerial ==
    ASSUME TypeOK, Control, Serial, Onward, [Next]_vars
    PROVE  Serial'
  <1>1. CASE overlapped'
    BY <1>1 DEF Serial
  <1>2. CASE ~overlapped'
    <2>1. ASSUME NEW k \in Fetches, Serve(k) PROVE Serial'
      <3>1. ~overlapped
        BY <1>2, <2>1 DEF Serve, ReadClock, DecideReveal, Decided, Move, Settle, Pay, DecideConceal, Go,
                          DecideRate, Log, Project, Rate, Render, Apply, Dismiss, history
      <3> QED
        BY <2>1, <3>1, ReadClockSerial, DecideRevealSerial, MoveSerial, SettleSerial, PaySerial,
           DecideConcealSerial, GoSerial, DecideRateSerial, LogSerial, ProjectSerial,
           RateSerial, RenderSerial, ApplySerial DEF Serve
    <2>2. CASE UNCHANGED vars
      BY <2>2 DEF vars, store, bill, history, Serial, Quiet, Busy, Alone, Balanced, At,
                  Of, Target, HasTime, Tokens, Bucket!Credited, Bucket!IdleSeconds
    <2> QED
      BY <1>2, <2>1, <2>2, PressSerial, TickSerial, NextCases
  <1> QED
    BY <1>1, <1>2

\* A reader who waits for each answer is served as if the routes were atomic:
\* page, session and row agree, every settled chunk was paid for once and with
\* a token (try_reveal), and a rating is remembered where it is logged
\* (post_rate), whatever the length of the document and the size of the bucket.
THEOREM PatientReaderIsSerial == Spec => []PatienceIsSerial
  <1> DEFINE Inv == TypeOK /\ Control /\ Serial /\ Onward
  <1>1. Init => Inv
    <2> SUFFICES ASSUME Init PROVE Serial /\ Onward
      BY InitTyped
    <2>1. \A k \in Fetches : fetch[k].step = "idle"
      BY IdleTyped DEF Init
    <2>2. Balanced /\ page = session
      <3>1. 1 .. 0 = {}
        OBVIOUS
      <3> QED
        BY <3>1 DEF Init, Start, Balanced
    <2>3. \A k \in Fetches : Alone(k)
      BY <2>1 DEF Alone, At
    <2> QED
      BY <2>1, <2>2, <2>3 DEF Init, Serial, At, Onward
  <1>2. Inv /\ [Next]_vars => Inv'
    BY StepTyped, StepSerial, StepOnward
  <1>3. Inv => PatienceIsSerial
    BY DEF Serial, PatienceIsSerial, Balanced
  <1> QED
    BY <1>1, <1>2, <1>3, PTL DEF Spec

=============================================================================
