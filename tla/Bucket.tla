-------------------------------- MODULE Bucket --------------------------------
(***************************************************************************)
(* The token bucket that paces reading (domain/bucket.py) and the decision *)
(* one press of Space takes against it (domain/economy.py).  Pure: a list  *)
(* of paid reveals and the time since the last of them go in, a token      *)
(* count or an outcome comes out.                                          *)
(*                                                                         *)
(* The code keeps absolute timestamps, and only ever subtracts one from    *)
(* the next.  The model keeps the differences: paid[i] is the time between *)
(* paid reveal i-1 and paid reveal i (paid[1] is never read), and `since'  *)
(* is the time from the last paid reveal to now.                           *)
(***************************************************************************)
EXTENDS Integers, Sequences

CONSTANTS
    Capacity,        \* BucketConfig.capacity (5 in production)
    RegenSeconds,    \* BucketConfig.regen_seconds (6)
    IdleMultiplier,  \* BucketConfig.fresh_session_idle_multiplier (5)
    StartFull        \* BucketConfig.start_full (TRUE)

ASSUME BucketAssumption ==
    /\ Capacity \in Nat \ {0}
    /\ RegenSeconds \in Nat \ {0}
    /\ IdleMultiplier \in Nat \ {0}
    /\ StartFull \in BOOLEAN

-----------------------------------------------------------------------------

\* An absence longer than this refills the bucket.
IdleSeconds == IdleMultiplier * RegenSeconds

\* Every elapsed time above IdleSeconds takes the same branch of _advance, so
\* one value stands for all of them.
LongAbsence == IdleSeconds + 1

Start == IF StartFull THEN Capacity ELSE 0

\* Mutant: a started regeneration period counts as a whole one.
CreditedRoundingUp(tokens, elapsed) ==
    IF elapsed > IdleSeconds
      THEN Capacity
      ELSE LET credit == tokens + (elapsed + RegenSeconds - 1) \div RegenSeconds
           IN  IF credit > Capacity THEN Capacity ELSE credit

\* _advance: the credit of an elapsed time, which no lower clamp protects
\* from being negative when the wall clock went back.
Credited(tokens, elapsed) ==
    IF elapsed > IdleSeconds
      THEN Capacity
      ELSE LET credit == tokens + elapsed \div RegenSeconds
           IN  IF credit > Capacity THEN Capacity ELSE credit

Spend(tokens) == IF tokens > 0 THEN tokens - 1 ELSE 0

\* The loop of tokens_now: what is left just after each paid reveal.
LeftAfter(paid) ==
    LET left[i \in 0 .. Len(paid)] ==
          IF i = 0 THEN Start
          ELSE IF i = 1 THEN Spend(left[0])
          ELSE Spend(Credited(left[i - 1], paid[i]))
    IN  left

TokensNow(paid, since) ==
    IF paid = << >> THEN Start
    ELSE Credited(LeftAfter(paid)[Len(paid)], since)

-----------------------------------------------------------------------------

\* Mutant: the end of the document is tested one chunk late.
TryRevealPastTheEnd(current, highWater, total, tokens) ==
    CASE current + 1 > total      -> "end_of_document"
      [] current + 1 <= total /\ current + 1 <= highWater -> "advanced_free"
      [] current + 1 <= total /\ current + 1 > highWater /\ tokens = 0
                                  -> "bucket_empty"
      [] OTHER                    -> "advanced_paid"

\* The outcomes of try_reveal, in the order the code tests for them.  The
\* bucket is asked whether it is exactly empty.
TryReveal(current, highWater, total, tokens) ==
    CASE current + 1 >= total     -> "end_of_document"
      [] current + 1 < total /\ current + 1 <= highWater -> "advanced_free"
      [] current + 1 < total /\ current + 1 > highWater /\ tokens = 0
                                  -> "bucket_empty"
      [] OTHER                    -> "advanced_paid"

===============================================================================
