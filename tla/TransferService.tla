-------------------------- MODULE TransferService --------------------------
(***************************************************************************)
(* What a transfer sequence promises its two users, with no network, no    *)
(* retransmission and no acks.  Items are numbered in the order the sender *)
(* accepted them.                                                          *)
(*                                                                         *)
(*   - The receiving user gets items in that order.  It may miss an item   *)
(*     only if it got it before (from an earlier receive sequence), the    *)
(*     sending user was told that it failed, or the receiver's encryption  *)
(*     policy discarded it, in its turn.                                   *)
(*   - After the receive sequence is replaced, items may arrive again.     *)
(*   - Every item's callback is called at most once, with nil only for an  *)
(*     item the receiving user got or the policy discarded.                *)
(***************************************************************************)
EXTENDS Integers

CONSTANTS
    Items,       \* 0 .. n - 1, for some n
    Discardable  \* the items that the receiver's policy may discard

VARIABLES
    accepted,   \* how many items the sender accepted
    reported,   \* item -> "none", "acked" or "failed": its callback
    received,   \* the items the receiving user ever got
    discarded,  \* the items the policy ever discarded
    last        \* the last one that this receive sequence took, or -1

svcVars == <<accepted, reported, received, discarded, last>>

Init ==
    /\ accepted = 0
    /\ reported = [i \in Items |-> "none"]
    /\ received = {}
    /\ discarded = {}
    /\ last = -1

Accept ==
    /\ accepted \in Items
    /\ accepted' = accepted + 1
    /\ UNCHANGED <<reported, received, discarded, last>>

\* Item i is next: what this receive sequence passes over was taken before or
\* failed.
Takes(i) ==
    /\ last < i
    /\ i < accepted
    /\ \A j \in Items : last < j /\ j < i =>
           j \in received \cup discarded \/ reported[j] = "failed"
    /\ last' = i
    /\ UNCHANGED <<accepted, reported>>

Receive(i) ==
    /\ Takes(i)
    /\ received' = received \cup {i}
    /\ UNCHANGED discarded

Discard(i) ==
    /\ i \in Discardable
    /\ Takes(i)
    /\ discarded' = discarded \cup {i}
    /\ UNCHANGED received

\* The receive sequence is replaced by a fresh one.
Replace ==
    /\ last' = -1
    /\ UNCHANGED <<accepted, reported, received, discarded>>

\* The callbacks of the items in S are called.
Report(S, result) ==
    /\ \A i \in S : reported[i] = "none"
    /\ result = "acked" => S \subseteq received \cup discarded
    /\ reported' = [i \in Items |-> IF i \in S THEN result ELSE reported[i]]
    /\ UNCHANGED <<accepted, received, discarded, last>>

Next ==
    \/ Accept
    \/ \E i \in Items : Receive(i) \/ Discard(i)
    \/ Replace
    \/ \E S \in SUBSET Items, result \in {"acked", "failed"} : Report(S, result)

Spec == Init /\ [][Next]_svcVars
=============================================================================
