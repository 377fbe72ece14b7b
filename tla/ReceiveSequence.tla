-------------------------- MODULE ReceiveSequence --------------------------
(***************************************************************************)
(* The receiving half of one transfer sequence: ReceiveSequence.Run and    *)
(* what it calls (transfer.go).  Run takes packs off the channel, delivers *)
(* the next item in order, holds a later one if the hold policy admits it, *)
(* and posts acks to its ack window.  A second goroutine, the ack writer,  *)
(* drains the window to the network.                                       *)
(*                                                                         *)
(* A receive sequence exits on a gap timeout, when idle, on a contract it  *)
(* cannot accept or when cancelled, and the next pack of the same sequence *)
(* id makes a fresh one (ReceiveBuffer.Pack): ReceiveExit is both.  What   *)
(* the application was given survives that in the history variable         *)
(* received, and what the receiver's encryption policy kept from it in     *)
(* discarded.                                                              *)
(***************************************************************************)
EXTENDS TransferNetwork, AckWindow, FiniteSetsExt

CONSTANTS
    ReceiveQueueMax,  \* ReceiveQueueMaxByteCount
    HoldPolicy,       \* ReceiveHoldPolicy: "committedPrefix", "evict", "refuse"
    Unwrapped,        \* the items that may arrive in plaintext at a receiver that
                      \* requires encryption (EncryptionModeRequired)
    MaxExits          \* how often the receive sequence exits, a bound of the model

ASSUME ReceiveAssumption ==
    /\ ReceiveQueueMax \in Nat
    /\ HoldPolicy \in {"committedPrefix", "evict", "refuse"}
    /\ Unwrapped \subseteq Seqs
    /\ MaxExits \in Nat

VARIABLES
    rNext,       \* nextSequenceNumber
    held,        \* the sequence numbers in receiveQueue
    committed,   \* the held items with item.committed
    maxHeld,     \* maxHeldByteCount
    recvWindow,  \* the ack window between Run and the ack writer
    received,    \* history: the items given to the receive callback, ever
    discarded,   \* history: the items acked and discarded by receiveHead, ever
    promised,    \* history: the items this sequence acked selectively
    exits        \* how many receive sequences exited

recvVars == <<rNext, held, committed, maxHeld, recvWindow, received, discarded, promised,
              exits>>

ReceiveTypeOK ==
    /\ rNext \in 0 .. N
    /\ held \subseteq Seqs
    /\ committed \subseteq held
    /\ maxHeld \in Nat
    /\ recvWindow \in AckWindows(Seqs)
    /\ received \subseteq Seqs
    /\ discarded \subseteq Unwrapped
    /\ promised \subseteq Seqs
    /\ exits \in 0 .. MaxExits

ReceiveInit ==
    /\ rNext = 0
    /\ held = {}
    /\ committed = {}
    /\ maxHeld = 0
    /\ recvWindow = EmptyWindow
    /\ received = {}
    /\ discarded = {}
    /\ promised = {}
    /\ exits = 0

-----------------------------------------------------------------------------
Bytes(S) == SumFunctionOnSet(Size, S)

\* receiveQueue.CanAdd(Size[i], ReceiveQueueMaxByteCount) when it holds S.
CanAdd(S, i) == S = {} \/ Bytes(S) + Size[i] < ReceiveQueueMax

\* The loop that makes room for i among the items of S: the latest item goes
\* first, and the loop stops at an item before i and, under the committed
\* prefix policy, at a committed one (those of C).
Evicted(S, C, i) ==
    LET evictable(h) ==
            /\ HoldPolicy # "refuse"
            /\ i < h
            /\ HoldPolicy = "committedPrefix" => \A g \in C : g < h
    IN  {h \in S : evictable(h) /\ ~CanAdd({g \in S : g <= h}, i)}

\* The bytes the hold takes up to h if every item missing below h arrives with
\* the largest size seen, for the delivery point next.
Reach(S, h, next, frame) ==
    LET upTo == {g \in S : g <= h}
        missing == h - next - (Cardinality(upTo) - 1)
    IN  (IF missing < 0 THEN 0 ELSE missing) * frame + Bytes(upTo)

\* commitHeldPrefix: the items of S below the commit boundary.  When the newest
\* fits they all do (the fast path); otherwise the scan stops at the first that
\* does not.
CommitPrefix(S, next, frame) ==
    LET fits(h) == Reach(S, h, next, frame) <= ReceiveQueueMax
    IN  IF S # {} /\ fits(Max(S)) THEN S
        ELSE {h \in S : \A g \in S : g <= h => fits(g)}

\* Whether Run's drain loop has an item to take from the hold S.
Deliverable(S, next) == \E h \in S : h <= next

\* What follows every change of the hold.  Under the committed prefix policy, once
\* nothing is deliverable, the held items that crossed the commit boundary are
\* committed and acked selectively.  The other policies commit and ack an item on
\* admission: it is the only one of S not in C.
CommitHeld(S, C, next, frame, window) ==
    LET crossed ==
            IF HoldPolicy # "committedPrefix" THEN S \ C
            ELSE IF Deliverable(S, next) THEN {}
            ELSE CommitPrefix(S, next, IF frame = 0 THEN 1 ELSE frame) \ C
    IN  /\ held' = S
        /\ committed' = C \cup crossed
        /\ maxHeld' = frame
        /\ recvWindow' = UpdateSelective(window, crossed)
        /\ promised' = promised \cup crossed

-----------------------------------------------------------------------------
\* Mutant of NextFor: any later pack moves the delivery point.
NextForAny(m) == IF rNext < m.seq THEN m.seq ELSE rNext

\* The delivery point a pack leads to: a head pack ahead of it means that the
\* sender has settled everything before, and moves it.
NextFor(m) == IF m.head /\ rNext < m.seq THEN m.seq ELSE rNext

\* The items that receiveHead took, delivered or discarded.
Arrived == received \cup discarded

\* receiveHead gives the frames to the receive callback.  The fail-closed gate
\* discards application frames that arrived unwrapped when encryption is required.
\* (A held item keeps how it arrived; the choice is made here, where it matters.)
\* The ack is the same in both cases.
ReceiveHead(i) ==
    \/ received' = received \cup {i} /\ UNCHANGED discarded
    \/ i \in Unwrapped /\ discarded' = discarded \cup {i} /\ UNCHANGED received

\* receive for an item before the delivery point: it is acked again.  In this
\* action and the next two, a held copy of the item is dropped first.
ReceivePast(m) ==
    /\ m.seq < rNext
    /\ CommitHeld(held \ {m.seq}, committed \ {m.seq}, rNext, maxHeld,
                  UpdateHead(recvWindow, m.seq))
    /\ UNCHANGED <<rNext, received, discarded>>

\* receive for the item at the delivery point: receiveHead delivers or discards it,
\* and acks it.
ReceiveInOrder(m) ==
    /\ m.seq = NextFor(m)
    /\ rNext' = m.seq + 1
    /\ ReceiveHead(m.seq)
    /\ CommitHeld(held \ {m.seq}, committed \ {m.seq}, m.seq + 1, maxHeld,
                  UpdateHead(recvWindow, m.seq))

\* Mutant of ReceiveLater: the held copy goes only after the check for room.
ReceiveLaterCopyCounted(m) ==
    /\ NextFor(m) < m.seq
    /\ LET kept == held \ Evicted(held, committed, m.seq)
           admitted == IF CanAdd(kept, m.seq) THEN {m.seq} ELSE {}
           frame == IF admitted # {} /\ maxHeld < Size[m.seq]
                    THEN Size[m.seq] ELSE maxHeld
       IN  CommitHeld((kept \ {m.seq}) \cup admitted,
                      (committed \cap kept) \ {m.seq}, rNext, frame, recvWindow)
    /\ UNCHANGED <<rNext, received, discarded>>

\* receive for a later item: make room, and hold it if it fits then.
ReceiveLater(m) ==
    /\ NextFor(m) < m.seq
    /\ LET S == held \ {m.seq}
           C == committed \ {m.seq}
           kept == S \ Evicted(S, C, m.seq)
           admitted == IF CanAdd(kept, m.seq) THEN {m.seq} ELSE {}
           frame == IF admitted # {} /\ maxHeld < Size[m.seq]
                    THEN Size[m.seq] ELSE maxHeld
       IN  CommitHeld(kept \cup admitted, C \cap kept, rNext, frame, recvWindow)
    /\ UNCHANGED <<rNext, received, discarded>>

\* Run takes one pack off its channel, after its drain loop has ended.
ReceivePack(m) ==
    /\ m \in packs
    /\ ~Deliverable(held, rNext)
    /\ ReceivePast(m) \/ ReceiveInOrder(m) \/ ReceiveLater(m)
    /\ UNCHANGED <<exits, netVars>>

\* Mutant of DrainHeld: no commit pass after the delivery point moved.
DrainHeldNoCommit ==
    \E h \in held :
        /\ \A g \in held : h <= g
        /\ h <= rNext
        /\ IF h = rNext THEN rNext' = rNext + 1 /\ ReceiveHead(h)
                        ELSE UNCHANGED <<rNext, received, discarded>>
        /\ held' = held \ {h}
        /\ committed' = committed \ {h}
        /\ recvWindow' = UpdateHead(recvWindow, h)
        /\ UNCHANGED <<maxHeld, promised, exits, netVars>>

\* One turn of Run's drain loop, for the first held item: receiveHead if it is the
\* next, and an ack again if a head pack moved the delivery point past it.
DrainHeld ==
    \E h \in held :
        /\ \A g \in held : h <= g
        /\ h <= rNext
        /\ IF h = rNext THEN rNext' = rNext + 1 /\ ReceiveHead(h)
                        ELSE UNCHANGED <<rNext, received, discarded>>
        /\ CommitHeld(held \ {h}, committed \ {h}, rNext', maxHeld,
                      UpdateHead(recvWindow, h))
        /\ UNCHANGED <<exits, netVars>>

\* Mutant of SnapshotAcks: the selective flag is not written.
SnapshotAcksUnflagged(w) ==
    {[seq |-> s, selective |-> FALSE] : s \in IF w.updated THEN {w.head} ELSE {}}
    \cup {[seq |-> s, selective |-> FALSE] : s \in SnapshotSelective(w)}

\* The acks of a snapshot of the window: the head ack if it was updated, and the
\* selective acks above it.
SnapshotAcks(w) ==
    {[seq |-> s, selective |-> FALSE] : s \in IF w.updated THEN {w.head} ELSE {}}
    \cup {[seq |-> s, selective |-> TRUE] : s \in SnapshotSelective(w)}

\* The ack writer writes a snapshot and resets the window.  The writes in lost
\* fail, which is only logged.
WriteAcks(lost) ==
    /\ HasAcks(recvWindow)
    /\ WriteAckSet(SnapshotAcks(recvWindow), lost)
    /\ recvWindow' = ResetWindow(recvWindow)
    /\ UNCHANGED <<rNext, held, committed, maxHeld, received, discarded, promised, exits,
                   packs>>

\* Run returns, dropping its hold and its unwritten acks, and the next pack finds a
\* fresh sequence.
ReceiveExit ==
    /\ exits < MaxExits
    /\ exits' = exits + 1
    /\ rNext' = 0
    /\ held' = {}
    /\ committed' = {}
    /\ maxHeld' = 0
    /\ recvWindow' = EmptyWindow
    /\ promised' = {}
    /\ UNCHANGED <<received, discarded, netVars>>

ReceiveNext ==
    \/ \E m \in packs : ReceivePack(m)
    \/ DrainHeld
    \/ \E lost \in SUBSET SnapshotAcks(recvWindow) : WriteAcks(lost)
    \/ ReceiveExit

-----------------------------------------------------------------------------
\* A held item that was acked selectively is delivered by this receive sequence or
\* still held: "an acknowledged item is never discarded" (receive).
PromisesKept ==
    \A i \in promised : i \in held \/ i < rNext

\* While Run waits for a pack, the committed items are exactly those that survive
\* every item missing below them arriving: "the boundary only rises as the head
\* drains, and an item's acknowledgement is sent as it crosses" (commitHeldPrefix).
BoundaryExact ==
    ~Deliverable(held, rNext) =>
        \A h \in held :
            h \in committed <=> Reach(held, h, rNext, maxHeld) <= ReceiveQueueMax

\* "the boundary only rises": once an item is committed, no resend of it, no arrival
\* and no eviction takes that back before it is delivered, whatever the copy that
\* replaced it carried (receive, commitHeldPrefix).
CommittedStays ==
    [][exits' = exits => \A i \in committed : i \in committed' \/ i < rNext']_recvVars
=============================================================================
