------------------------------ MODULE Transfer ------------------------------
(***************************************************************************)
(* One transfer sequence end to end: a SendSequence and the ReceiveSequence*)
(* of the same sequence id, over a network that loses, duplicates and      *)
(* reorders.                                                               *)
(***************************************************************************)
EXTENDS SendSequence, ReceiveSequence

vars == <<sendVars, recvVars, netVars>>

Init ==
    /\ NetworkInit
    /\ SendInit
    /\ ReceiveInit

NetworkNext == LosePack \/ LoseAck

Next ==
    \/ SendNext /\ UNCHANGED recvVars
    \/ ReceiveNext /\ UNCHANGED sendVars
    \/ NetworkNext /\ UNCHANGED <<sendVars, recvVars>>

Spec == Init /\ [][Next]_vars

\* A message is lost in flight, or its write fails.
Loss ==
    \/ NetworkNext
    \/ /\ HasAcks(recvWindow) /\ ~HasAcks(recvWindow')
       /\ exits' = exits
       /\ ~(SnapshotAcks(recvWindow) \subseteq acks')

\* The steps that the code keeps taking.  Run resends an item whenever it is due,
\* finishes what it has in hand and applies acks each time round its loop; the
\* receiver drains its hold and writes its acks.  The network delivers what is in
\* flight, a head ack to an ack reader that finds its item, and loses only finitely
\* many messages.  Timeouts and exits are not fair: no progress may depend on them.
Fairness ==
    /\ WF_vars((\E retain \in RetainRequests : SendAdd(retain)) /\ UNCHANGED recvVars)
    /\ WF_vars(ResendAdd /\ UNCHANGED recvVars)
    /\ \A i \in Seqs : SF_vars(ResendWrite(i) /\ UNCHANGED recvVars)
    /\ SF_vars(ApplyAcks /\ UNCHANGED recvVars)
    /\ \A i \in Seqs : SF_vars(/\ ReceiveAckMessage([seq |-> i, selective |-> FALSE])
                              /\ UNCHANGED recvVars)
    /\ WF_vars(DrainHeld /\ UNCHANGED sendVars)
    /\ WF_vars(/\ \E lost \in SUBSET SnapshotAcks(recvWindow) : WriteAcks(lost)
               /\ UNCHANGED sendVars)
    /\ \A m \in Packs : WF_vars(ReceivePack(m) /\ UNCHANGED sendVars)
    /\ <>[][~Loss]_vars

FairSpec == Spec /\ Fairness

-----------------------------------------------------------------------------
\* Every variable keeps its type.
TypeOK ==
    /\ NetworkTypeOK
    /\ SendTypeOK
    /\ ReceiveTypeOK

\* transfer.go promises that the "sender is notified when frames are received":
\* an ack callback called with nil means that the receive callback got the item,
\* with one exception, the "ack-and-discard" of receiveHead for an item that came
\* in plaintext where encryption is required.  Acks are cumulative, receive
\* sequences come and go and head packs move the delivery point over items never
\* seen, so no single step shows it.
AckedImpliesArrived ==
    \A i \in Seqs : outcome[i] = "acked" =>
        i \in received \/ (i \in Unwrapped /\ i \in discarded)

\* "frames are received in order of send": whatever lies below the delivery point
\* reached receiveHead, of this receive sequence or an earlier one, or the sender
\* was told that it failed.  A head pack that moves the delivery point (receive) never hides
\* an item that the sender still owes.
NothingSkipped ==
    \A i \in 0 .. rNext - 1 : i \in Arrived \/ outcome[i] = "failed"

\* sendItems and resendQueue hold the same items except the one being written, so
\* the walk of a cumulative ack (receiveAck) never meets the "genuine
\* resendQueue/sendItems desync", and an item's callback is owed exactly as long
\* as the item is in one of them: none is lost and none is called twice.
OwedIsOutstanding ==
    /\ sendItems \ {inHand} = resendQueue
    /\ \A i \in Seqs : i < nextSeq =>
           (outcome[i] = "none" <=> i \in sendItems \cup {inHand})

\* The counters that admission reads are the sums they stand for: retainedByteCount
\* is what the outstanding retained items were charged ("charge <=> in queue"),
\* within the R-5 cap, and the queue's byte count is the size of the frames in it,
\* although setHead makes a frame longer while the item is outstanding.
ByteCountsExact ==
    /\ retainedByteCount = Charges(sendItems)
    /\ retainedByteCount <= RetainCap
    /\ resendByteCount = WireSizes(resendQueue, headItems)

\* A pack marked head in flight, however old, tells the truth: the sender settled
\* every item before it ("Future head items depend on previous ack", receive).
HeadMeansSettled ==
    \A m \in packs : m.head => \A j \in 0 .. m.seq - 1 : outcome[j] # "none"

\* The item reached receiveHead, or the sender was told that it failed.
Accounted(i) == i \in Arrived \/ outcome[i] = "failed"

\* A cumulative ack tells the truth wherever it is: in the receiver's window, in
\* flight, duplicated or late, or in the sender's window, it covers only items that
\* reached receiveHead or that the sender gave up (sendAck, receiveAck).
CumulativeAcksTrue ==
    /\ \A a \in acks : ~a.selective => \A j \in 0 .. a.seq : Accounted(j)
    /\ \A j \in 0 .. recvWindow.head : Accounted(j)
    /\ \A j \in 0 .. sendWindow.head : Accounted(j)

\* What is in the two halves and in flight was accepted by the sender, what it has
\* not accepted yet is not settled unless it closed, and an item of sendItems that
\* is sent as the head has no unsettled item before it.
Causal ==
    /\ sendItems \cup resendQueue \cup headItems \cup held \subseteq 0 .. nextSeq - 1
    /\ inHand < nextSeq
    /\ \A m \in packs : m.seq < nextSeq
    /\ running => \A i \in nextSeq .. N - 1 : outcome[i] = "none"
    /\ \A i \in headItems : \A j \in 0 .. i - 1 : outcome[j] # "none"
    /\ ~running => inHand = None

\* The inductive invariant behind the safety properties: each end's beliefs about
\* the other (head packs, cumulative acks) are true, and the sender's bookkeeping
\* knows which callbacks it owes.
Inv ==
    /\ TypeOK
    /\ OwedIsOutstanding
    /\ Causal
    /\ HeadMeansSettled
    /\ CumulativeAcksTrue
    /\ NothingSkipped
    /\ AckedImpliesArrived

\* A sequence implements the service its users see.
Service == INSTANCE TransferService
               WITH Items <- Seqs, Discardable <- Unwrapped, accepted <- nextSeq,
                    reported <- outcome, received <- received,
                    discarded <- discarded, last <- rNext - 1

ImplementsService == Service!Spec

\* "frames are eventually delivered up to timeout": an item that is written is
\* settled by retransmission, head promotion and cumulative acks alone, whatever
\* is lost and although the receive sequence may be replaced on the way.
EventuallySettled ==
    \A i \in Seqs : i \in sendItems ~> i \notin sendItems
=============================================================================
