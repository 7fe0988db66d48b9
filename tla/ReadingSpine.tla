----------------------------- MODULE ReadingSpine -----------------------------
(***************************************************************************)
(* What the reader promises about a document, as the database tells it:    *)
(* the settled part grows chunk by chunk and never shrinks, and a mark     *)
(* (a pin, a rating, a note) sits on settled text.  Everything else a      *)
(* reader does (moving back, jumping, opening, closing, restarting the     *)
(* server) is invisible here.                                              *)
(***************************************************************************)
EXTENDS Integers

CONSTANTS
    Docs,     \* document ids
    Chunks,   \* [Docs -> Nat], total chunks of each document
    Welcome,  \* the document that is seeded again after it was deleted
    Kinds     \* kinds of marks

VARIABLES
    live,     \* documents of the library
    settled,  \* the last settled chunk of each document
    marked    \* the marks on each document, as pairs <<kind, chunk>>

vars == <<live, settled, marked>>

Init ==
    /\ live = Docs
    /\ settled = [d \in Docs |-> 0]
    /\ marked = [d \in Docs |-> {}]

Settle(d) ==
    /\ d \in live
    /\ settled[d] + 1 < Chunks[d]
    /\ settled' = [settled EXCEPT ![d] = @ + 1]
    /\ UNCHANGED <<live, marked>>

SetMark(d, kind, chunk) ==
    /\ d \in live
    /\ chunk <= settled[d]
    /\ marked' = [marked EXCEPT ![d] = @ \cup {<<kind, chunk>>}]
    /\ UNCHANGED <<live, settled>>

ClearMark(d, kind, chunk) ==
    /\ d \in live
    /\ marked' = [marked EXCEPT ![d] = @ \ {<<kind, chunk>>}]
    /\ UNCHANGED <<live, settled>>

Delete(d) ==
    /\ d \in live
    /\ live' = live \ {d}
    /\ settled' = [settled EXCEPT ![d] = 0]
    /\ marked' = [marked EXCEPT ![d] = {}]

\* The welcome document comes back, unread.
Seed ==
    /\ live' = live \cup {Welcome}
    /\ UNCHANGED <<settled, marked>>

Next ==
    \/ Seed
    \/ \E d \in Docs :
          \/ Settle(d)
          \/ Delete(d)
          \/ \E kind \in Kinds, chunk \in 0 .. Chunks[d] - 1 :
                SetMark(d, kind, chunk) \/ ClearMark(d, kind, chunk)

Spec == Init /\ [][Next]_vars

===============================================================================
