---------------------------- MODULE SendSequence ----------------------------
(***************************************************************************)
(* The sending half of one transfer sequence: SendSequence.Run and what it *)
(* calls (transfer.go).  Two goroutines run it.  Run takes packs off the   *)
(* channel, writes them, keeps them in sendItems (in order) and            *)
(* resendQueue (by resend time) until they are acked, dropped or the       *)
(* sequence closes.  The ack reader matches each incoming ack against      *)
(* resendQueue and posts it to the ack window that Run applies at the top  *)
(* of its loop.                                                            *)
(*                                                                         *)
(* Run takes an item out of resendQueue for as long as it writes it, and   *)
(* adds a new item only after writing it.  inHand is that item: while it   *)
(* is in hand the ack reader does not find it.                             *)
(*                                                                         *)
(* Clocks are abstracted: an item's resend time, ack timeout and backstop  *)
(* may come at any moment that their order allows.  Every item here asks   *)
(* for an ack; the pack that opens a contract is one of them.              *)
(***************************************************************************)
EXTENDS TransferNetwork, AckWindow, FiniteSetsExt

CONSTANTS
    ContractSize,    \* bytes a contract frame adds to the head's frame
    ResendQueueMax,  \* ResendQueueMaxByteCount
    RetainRequests   \* the values of RetainAfterAckTimeout that callers pass

ASSUME SendAssumption ==
    /\ ContractSize \in Nat
    /\ ResendQueueMax \in Nat
    /\ RetainRequests \subseteq BOOLEAN

VARIABLES
    running,            \* Run has not returned
    nextSeq,            \* nextSequenceNumber
    sendItems,          \* sendItems, as the set of its sequence numbers
    resendQueue,        \* the sequence numbers in resendQueue
    resendByteCount,    \* resendQueue.byteCount
    inHand,             \* the item Run is writing, outside resendQueue
    headItems,          \* the items with item.head
    selectiveAcked,     \* the items with item.selectiveAcked
    retainedCharge,     \* item.retainedCharge; 0 for an item not retained
    retainedByteCount,  \* retainedByteCount
    sendWindow,         \* the ack window between the ack reader and Run
    outcome             \* what each item's ack callback was called with

itemVars == <<sendItems, resendQueue, resendByteCount, inHand, headItems,
              selectiveAcked, retainedCharge, retainedByteCount, outcome>>
sendVars == <<running, nextSeq, itemVars, sendWindow>>

\* No item is in hand.
None == -1

\* The ack callback was not called, was called with nil, or with an error.
Outcomes == {"none", "acked", "failed"}

\* The two byte counters have no bound of their own: ByteCountsExact in Transfer
\* says what they are.
SendTypeOK ==
    /\ running \in BOOLEAN
    /\ nextSeq \in 0 .. N
    /\ sendItems \subseteq Seqs
    /\ resendQueue \subseteq Seqs
    /\ inHand \in Seqs \cup {None}
    /\ headItems \subseteq Seqs
    /\ selectiveAcked \subseteq Seqs
    /\ retainedCharge \in [Seqs -> Nat]
    /\ sendWindow \in AckWindows(Seqs)
    /\ outcome \in [Seqs -> Outcomes]

SendInit ==
    /\ running = TRUE
    /\ nextSeq = 0
    /\ sendItems = {}
    /\ resendQueue = {}
    /\ resendByteCount = 0
    /\ inHand = None
    /\ headItems = {}
    /\ selectiveAcked = {}
    /\ retainedCharge = [i \in Seqs |-> 0]
    /\ retainedByteCount = 0
    /\ sendWindow = EmptyWindow
    /\ outcome = [i \in Seqs |-> "none"]

-----------------------------------------------------------------------------
\* item.MessageByteCount() given the items with head set: the wire frame, which
\* setHead makes longer by the contract frame.
WireSize(i, heads) == Size[i] + (IF i \in heads THEN ContractSize ELSE 0)

WireSizes(S, heads) == SumFunctionOnSet([i \in Seqs |-> WireSize(i, heads)], S)

Retained(i) == retainedCharge[i] > 0

Charges(S) == SumFunctionOnSet(retainedCharge, S)

\* The R-5 cap: a quarter of the queue ceiling, rounded down.
RetainCap == ResendQueueMax \div 4

\* i is sendItems[0].
IsFirst(i) == i \in sendItems /\ \A j \in sendItems : i <= j

\* Run is at the top of its loop, or at its select.
Idle == running /\ inHand = None

\* canQueue: resendQueue.CanAdd(0, ResendQueueMaxByteCount).
CanQueue == resendQueue = {} \/ resendByteCount < ResendQueueMax

\* Call the ack callbacks of the items in S.
Settle(S, result) ==
    outcome' = [i \in Seqs |-> IF i \in S THEN result ELSE outcome[i]]

\* Mutant of Discard: release the item's current size, not what it was charged.
DiscardCurrentSize(S) ==
    /\ resendQueue' = resendQueue \ S
    /\ resendByteCount' = resendByteCount - WireSizes(S, headItems)
    /\ retainedByteCount' =
           retainedByteCount - WireSizes({i \in S : Retained(i)}, headItems)
    /\ retainedCharge' = [i \in Seqs |-> IF i \in S THEN 0 ELSE retainedCharge[i]]
    /\ headItems' = headItems \ S

\* The items in S leave the queue for good, and releaseRetained gives back what
\* they were charged.  Nothing else is known of an item that left.
Discard(S) ==
    /\ resendQueue' = resendQueue \ S
    /\ resendByteCount' = resendByteCount - WireSizes(S, headItems)
    /\ retainedByteCount' = retainedByteCount - Charges(S)
    /\ retainedCharge' = [i \in Seqs |-> IF i \in S THEN 0 ELSE retainedCharge[i]]
    /\ headItems' = headItems \ S

\* Mutant of Teardown: fail every item of the sequence, not those still queued.
TeardownAll(alsoFailed) ==
    /\ running' = FALSE
    /\ Settle((0 .. nextSeq - 1) \cup alsoFailed, "failed")
    /\ sendItems' = {}
    /\ resendQueue' = {}
    /\ resendByteCount' = 0
    /\ headItems' = {}
    /\ selectiveAcked' = {}
    /\ retainedCharge' = [i \in Seqs |-> 0]
    /\ retainedByteCount' = 0
    /\ sendWindow' = EmptyWindow
    /\ UNCHANGED <<nextSeq, inHand, netVars>>

\* The teardown that Run defers: what is in resendQueue fails.  The sequence is
\* gone afterwards, with its items and its ack window.
Teardown(alsoFailed) ==
    /\ running' = FALSE
    /\ Settle(resendQueue \cup alsoFailed, "failed")
    /\ sendItems' = {}
    /\ resendQueue' = {}
    /\ resendByteCount' = 0
    /\ headItems' = {}
    /\ selectiveAcked' = {}
    /\ retainedCharge' = [i \in Seqs |-> 0]
    /\ retainedByteCount' = 0
    /\ sendWindow' = EmptyWindow
    /\ UNCHANGED <<nextSeq, inHand, netVars>>

-----------------------------------------------------------------------------
\* sendWithSetContract up to its write: a pack leaves the channel, gets the next
\* sequence number, is marked head when nothing else is outstanding, and is
\* written.
SendWrite ==
    /\ Idle
    /\ CanQueue
    /\ nextSeq < N
    /\ nextSeq' = nextSeq + 1
    /\ inHand' = nextSeq
    /\ headItems' = IF sendItems = {} THEN headItems \cup {nextSeq} ELSE headItems
    /\ WritePack(nextSeq, sendItems = {})
    /\ UNCHANGED <<running, sendItems, resendQueue, resendByteCount,
                   selectiveAcked, retainedCharge, retainedByteCount,
                   sendWindow, outcome, acks>>

\* The rest of sendWithSetContract: charge the retention if the R-5 cap admits
\* it, and add the item to sendItems and to resendQueue.
SendAdd(retain) ==
    /\ inHand # None
    /\ inHand \notin sendItems
    /\ LET size == WireSize(inHand, headItems)
           charge == IF retain /\ retainedByteCount + size <= RetainCap
                     THEN size ELSE 0
       IN  /\ retainedCharge' = [retainedCharge EXCEPT ![inHand] = charge]
           /\ retainedByteCount' = retainedByteCount + charge
           /\ resendByteCount' = resendByteCount + size
    /\ sendItems' = sendItems \cup {inHand}
    /\ resendQueue' = resendQueue \cup {inHand}
    /\ inHand' = None
    /\ UNCHANGED <<running, nextSeq, headItems, selectiveAcked, sendWindow,
                   outcome, netVars>>

\* A pack leaves the channel and updateContract finds no contract for it: its
\* callback fails and Run returns.
SendNoContract ==
    /\ Idle
    /\ CanQueue
    /\ nextSeq < N
    /\ Teardown({nextSeq})

\* Mutant of ResendWrite: never promote an item to head.
ResendWriteNoPromotion(i) ==
    /\ Idle
    /\ i \in resendQueue
    /\ resendQueue' = resendQueue \ {i}
    /\ resendByteCount' = resendByteCount - WireSize(i, headItems)
    /\ inHand' = i
    /\ WritePack(i, i \in headItems)
    /\ UNCHANGED <<running, nextSeq, sendItems, headItems, selectiveAcked,
                   retainedCharge, retainedByteCount, sendWindow, outcome, acks>>

\* Mutant of ResendWrite: promote the first item that was not acked selectively.
ResendWritePromoteUnacked(i) ==
    /\ Idle
    /\ i \in resendQueue
    /\ resendQueue' = resendQueue \ {i}
    /\ resendByteCount' = resendByteCount - WireSize(i, headItems)
    /\ headItems' = IF \A j \in sendItems : j < i => j \in selectiveAcked
                    THEN headItems \cup {i} ELSE headItems
    /\ inHand' = i
    /\ WritePack(i, i \in headItems')
    /\ UNCHANGED <<running, nextSeq, sendItems, selectiveAcked, retainedCharge,
                   retainedByteCount, sendWindow, outcome, acks>>

\* The resend loop up to the write of a due item (one that the retry budget
\* refuses is only rescheduled, which leaves no trace here): the first
\* outstanding item is rewritten as the head (setHead) if it was not sent as
\* one, and the item leaves resendQueue at the size it had when it entered.
ResendWrite(i) ==
    /\ Idle
    /\ i \in resendQueue
    /\ resendQueue' = resendQueue \ {i}
    /\ resendByteCount' = resendByteCount - WireSize(i, headItems)
    /\ headItems' = IF IsFirst(i) THEN headItems \cup {i} ELSE headItems
    /\ inHand' = i
    /\ WritePack(i, i \in headItems')
    /\ UNCHANGED <<running, nextSeq, sendItems, selectiveAcked, retainedCharge,
                   retainedByteCount, sendWindow, outcome, acks>>

\* The rest of the resend loop: the item, with its next resend time, goes back.
ResendAdd ==
    /\ inHand # None
    /\ inHand \in sendItems
    /\ resendQueue' = resendQueue \cup {inHand}
    /\ resendByteCount' = resendByteCount + WireSize(inHand, headItems)
    /\ inHand' = None
    /\ UNCHANGED <<running, nextSeq, sendItems, headItems, selectiveAcked,
                   retainedCharge, retainedByteCount, sendWindow, outcome, netVars>>

\* The ack reader: an ack of an item that is in resendQueue is posted to the
\* ack window.  An ack of any other item is discarded, which LoseAck covers.
ReceiveAckMessage(a) ==
    /\ running
    /\ a \in acks
    /\ a.seq \in resendQueue
    /\ sendWindow' = IF a.selective THEN UpdateSelective(sendWindow, {a.seq})
                                    ELSE UpdateHead(sendWindow, a.seq)
    /\ UNCHANGED <<running, nextSeq, itemVars, netVars>>

\* Mutant of ApplyAcks: a selective ack settles its item as well.
ApplyAcksSelectiveSettles ==
    /\ Idle
    /\ HasAcks(sendWindow)
    /\ LET hit == sendWindow.updated /\ sendWindow.head \in resendQueue
           walked == {j \in sendItems : \/ hit /\ j <= sendWindow.head
                                        \/ j \in SnapshotSelective(sendWindow)}
           acked == walked \cap resendQueue
       IN  /\ sendItems' = sendItems \ walked
           /\ Discard(acked)
           /\ Settle(acked, "acked")
           /\ selectiveAcked' = selectiveAcked \ acked
    /\ sendWindow' = ResetWindow(sendWindow)
    /\ UNCHANGED <<running, nextSeq, inHand, netVars>>

\* The top of Run's loop: receiveAck for the head ack, which acks every earlier
\* item too, then for each selective ack.  A head ack whose own item has left
\* resendQueue is a miss and acks nothing.
ApplyAcks ==
    /\ Idle
    /\ HasAcks(sendWindow)
    /\ LET hit == sendWindow.updated /\ sendWindow.head \in resendQueue
           walked == {j \in sendItems : hit /\ j <= sendWindow.head}
           acked == walked \cap resendQueue
       IN  /\ sendItems' = sendItems \ walked
           /\ Discard(acked)
           /\ Settle(acked, "acked")
           /\ selectiveAcked' = (resendQueue \ acked) \cap
                  (selectiveAcked \cup SnapshotSelective(sendWindow))
    /\ sendWindow' = ResetWindow(sendWindow)
    /\ UNCHANGED <<running, nextSeq, inHand, netVars>>

\* Every item before i still waits legally although i waited ten ack timeouts:
\* an item that is not retained gets one ack timeout, restarted only by a
\* selective ack.
Outwaited(i) ==
    \A j \in sendItems : j < i /\ ~Retained(j) => j \in selectiveAcked

\* Mutant of BackstopDrop: the dropped items stay in sendItems.
BackstopDropKeepsSlot(i) ==
    /\ Idle
    /\ i \in resendQueue
    /\ Retained(i)
    /\ Outwaited(i)
    /\ LET dropped == {j \in resendQueue : Retained(j) /\ j <= i}
       IN  /\ Discard(dropped)
           /\ Settle(dropped, "failed")
           /\ selectiveAcked' = selectiveAcked \ dropped
    /\ UNCHANGED <<running, nextSeq, sendItems, inHand, sendWindow, netVars>>

\* Mutant of BackstopDrop: the dropped items count as acked.
BackstopDropAcks(i) ==
    /\ Idle
    /\ i \in resendQueue
    /\ Retained(i)
    /\ Outwaited(i)
    /\ LET dropped == {j \in resendQueue : Retained(j) /\ j <= i}
       IN  /\ sendItems' = sendItems \ dropped
           /\ Discard(dropped)
           /\ Settle(dropped, "acked")
           /\ selectiveAcked' = selectiveAcked \ dropped
    /\ UNCHANGED <<running, nextSeq, inHand, sendWindow, netVars>>

\* dropItem for the retained items whose backstop deadline passed.  Deadlines
\* are in send order, and both the resend loop and the scan after it run to the
\* end, so a pass drops the retained items up to some i together.
BackstopDrop(i) ==
    /\ Idle
    /\ i \in resendQueue
    /\ Retained(i)
    /\ Outwaited(i)
    /\ LET dropped == {j \in resendQueue : Retained(j) /\ j <= i}
       IN  /\ sendItems' = sendItems \ dropped
           /\ Discard(dropped)
           /\ Settle(dropped, "failed")
           /\ selectiveAcked' = selectiveAcked \ dropped
    /\ UNCHANGED <<running, nextSeq, inHand, sendWindow, netVars>>

\* Run returns: cancelled, an item past its ack timeout, retained bytes unanswered
\* for too long, setHead failed, or idle.
SendExit ==
    /\ Idle
    /\ Teardown({})

SendNext ==
    \/ SendWrite
    \/ \E retain \in RetainRequests : SendAdd(retain)
    \/ SendNoContract
    \/ \E i \in Seqs : ResendWrite(i)
    \/ ResendAdd
    \/ \E a \in acks : ReceiveAckMessage(a)
    \/ ApplyAcks
    \/ \E i \in Seqs : BackstopDrop(i)
    \/ SendExit
=============================================================================
