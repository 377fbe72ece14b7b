--------------------------- MODULE TransferProofs ---------------------------
(***************************************************************************)
(* Safety of one transfer sequence for every number and size of items,     *)
(* every bound on the network and every number of receiver exits, and that *)
(* the sequence implements TransferService.                                *)
(***************************************************************************)
EXTENDS Transfer, TLAPS

USE DEF NoAck, None

-----------------------------------------------------------------------------
(* The ack window.                                                         *)

\* The sequence numbers are integers, below the bound.
LEMMA SeqsRange == N \in Nat /\ Seqs \subseteq Int /\ \A i \in Seqs : 0 <= i /\ i < N
  BY NetworkAssumption DEF Seqs

\* The operations of sequenceAckWindow give back a window, and move its head only
\* to the ack they were given.
LEMMA WindowTypes ==
    /\ EmptyWindow \in AckWindows(Seqs) /\ EmptyWindow.head = -1
    /\ \A w \in AckWindows(Seqs) :
           /\ ResetWindow(w) \in AckWindows(Seqs) /\ ResetWindow(w).head = w.head
           /\ \A s \in Seqs : /\ UpdateHead(w, s) \in AckWindows(Seqs)
                              /\ UpdateHead(w, s).head \in {w.head, s}
           /\ \A S \in SUBSET Seqs : /\ UpdateSelective(w, S) \in AckWindows(Seqs)
                                     /\ UpdateSelective(w, S).head = w.head
           /\ SnapshotSelective(w) \subseteq Seqs
  <1> USE SeqsRange
  <1>1. EmptyWindow \in AckWindows(Seqs) /\ EmptyWindow.head = -1
    BY DEF AckWindows, EmptyWindow
  <1>2. ASSUME NEW w \in AckWindows(Seqs)
        PROVE  ResetWindow(w) \in AckWindows(Seqs) /\ ResetWindow(w).head = w.head
    BY DEF AckWindows, ResetWindow
  <1>3. ASSUME NEW w \in AckWindows(Seqs), NEW s \in Seqs
        PROVE  /\ UpdateHead(w, s) \in AckWindows(Seqs)
               /\ UpdateHead(w, s).head \in {w.head, s}
    BY DEF AckWindows, UpdateHead
  <1>4. ASSUME NEW w \in AckWindows(Seqs), NEW S \in SUBSET Seqs
        PROVE  /\ UpdateSelective(w, S) \in AckWindows(Seqs)
               /\ UpdateSelective(w, S).head = w.head
    <2>1. (w.updated \/ \E s \in S : s <= w.head) \in BOOLEAN
      OBVIOUS
    <2>2. (\E s \in S : s <= w.head) => w.head # -1
      OBVIOUS
    <2>3. QED
      BY <2>1, <2>2, Zenon DEF AckWindows, UpdateSelective
  <1>5. ASSUME NEW w \in AckWindows(Seqs)
        PROVE  SnapshotSelective(w) \subseteq Seqs
    BY DEF AckWindows, SnapshotSelective
  <1>6. QED
    BY <1>1, <1>2, <1>3, <1>4, <1>5

\* A snapshot's acks are acks, and the cumulative one is the window's head.
LEMMA SnapshotAcksAreAcks ==
    ASSUME NEW w \in AckWindows(Seqs)
    PROVE  \A a \in SnapshotAcks(w) : a \in Acks /\ (~a.selective => a.seq = w.head)
  <1>1. (w.updated => w.head \in Seqs) /\ SnapshotSelective(w) \subseteq Seqs
    BY WindowTypes DEF AckWindows
  <1>2. ASSUME NEW a \in SnapshotAcks(w)
        PROVE  \/ w.updated /\ a = [seq |-> w.head, selective |-> FALSE]
               \/ \E s \in SnapshotSelective(w) : a = [seq |-> s, selective |-> TRUE]
    BY <1>2, Zenon DEF SnapshotAcks
  <1>3. ASSUME NEW a \in SnapshotAcks(w)
        PROVE  a \in Acks /\ (~a.selective => a.seq = w.head)
    <2>1. CASE w.updated /\ a = [seq |-> w.head, selective |-> FALSE]
      BY <1>1, <2>1 DEF Acks
    <2>2. CASE \E s \in SnapshotSelective(w) : a = [seq |-> s, selective |-> TRUE]
      BY <1>1, <2>2 DEF Acks
    <2>3. QED
      BY <1>2, <2>1, <2>2
  <1>4. QED
    BY <1>3

\* A frame has a size, with or without its contract.
LEMMA WireSizeType ==
    ASSUME NEW i \in Seqs, NEW heads
    PROVE  WireSize(i, heads) \in Nat
  BY NetworkAssumption, SendAssumption DEF WireSize

\* commitHeldPrefix commits held items only.
LEMMA CommitPrefixSubset ==
    ASSUME NEW S, NEW next, NEW frame
    PROVE  CommitPrefix(S, next, frame) \subseteq S
  BY Zenon DEF CommitPrefix

-----------------------------------------------------------------------------
(* Type correctness, one lemma for each half.                              *)

\* What CommitHeld leaves behind is well typed.
LEMMA CommitHeldTypes ==
    ASSUME ReceiveTypeOK,
           NEW S \in SUBSET Seqs, NEW C \in SUBSET S, NEW next,
           NEW frame \in Nat, NEW window \in AckWindows(Seqs),
           CommitHeld(S, C, next, frame, window)
    PROVE  /\ held' = S
           /\ committed' \subseteq held'
           /\ maxHeld' \in Nat
           /\ recvWindow' \in AckWindows(Seqs)
           /\ recvWindow'.head = window.head
           /\ promised' \subseteq Seqs
  <1> DEFINE frame1 == IF frame = 0 THEN 1 ELSE frame
             crossed == IF HoldPolicy # "committedPrefix" THEN S \ C
                        ELSE IF Deliverable(S, next) THEN {}
                        ELSE CommitPrefix(S, next, frame1) \ C
  <1>1. crossed \subseteq S
    BY CommitPrefixSubset
  <1>2. /\ held' = S
        /\ committed' = C \cup crossed
        /\ maxHeld' = frame
        /\ recvWindow' = UpdateSelective(window, crossed)
        /\ promised' = promised \cup crossed
    BY DEF CommitHeld
  <1> HIDE DEF crossed
  <1>3. QED
    BY <1>1, <1>2, WindowTypes DEF ReceiveTypeOK

\* receiveHead takes the item in one of its two ways.
LEMMA ReceiveHeadFacts ==
    ASSUME ReceiveTypeOK, NEW i \in Seqs, ReceiveHead(i)
    PROVE  /\ received' \subseteq Seqs
           /\ discarded' \subseteq Unwrapped
           /\ Arrived' = Arrived \cup {i}
  BY DEF ReceiveTypeOK, ReceiveHead, Arrived

\* The receive half's steps keep its state and the network well typed.
LEMMA ReceiveTypes ==
    ASSUME NetworkTypeOK, ReceiveTypeOK, ReceiveNext
    PROVE  NetworkTypeOK' /\ ReceiveTypeOK'
  <1> USE SeqsRange
  <1>1. ASSUME NEW m \in packs, ReceivePack(m)
        PROVE  NetworkTypeOK' /\ ReceiveTypeOK'
    <2>0. m.seq \in Seqs
      BY DEF NetworkTypeOK, Packs
    <2>1. UNCHANGED <<exits, packs, acks>>
      BY <1>1 DEF ReceivePack, netVars
    <2>2. CASE ReceivePast(m)
      <3>1. /\ CommitHeld(held \ {m.seq}, committed \ {m.seq}, rNext, maxHeld,
                          UpdateHead(recvWindow, m.seq))
            /\ UNCHANGED <<rNext, received, discarded>>
        BY <2>2 DEF ReceivePast
      <3>2. /\ held \ {m.seq} \in SUBSET Seqs
            /\ committed \ {m.seq} \in SUBSET (held \ {m.seq})
            /\ maxHeld \in Nat
            /\ UpdateHead(recvWindow, m.seq) \in AckWindows(Seqs)
        BY <2>0, WindowTypes, Zenon DEF ReceiveTypeOK
      <3>3. QED
        BY <2>1, <3>1, <3>2, CommitHeldTypes DEF ReceiveTypeOK, NetworkTypeOK
    <2>3. CASE ReceiveInOrder(m)
      <3>1. /\ CommitHeld(held \ {m.seq}, committed \ {m.seq}, m.seq + 1, maxHeld,
                          UpdateHead(recvWindow, m.seq))
            /\ rNext' = m.seq + 1
            /\ ReceiveHead(m.seq)
        BY <2>3 DEF ReceiveInOrder
      <3>2. /\ held \ {m.seq} \in SUBSET Seqs
            /\ committed \ {m.seq} \in SUBSET (held \ {m.seq})
            /\ maxHeld \in Nat
            /\ UpdateHead(recvWindow, m.seq) \in AckWindows(Seqs)
        BY <2>0, WindowTypes, Zenon DEF ReceiveTypeOK
      <3>3. rNext' \in 0 .. N /\ received' \subseteq Seqs /\ discarded' \subseteq Unwrapped
        <4>1. m.seq \in Int /\ 0 <= m.seq /\ m.seq < N
          BY <2>0, Zenon
        <4>2. rNext' \in 0 .. N
          BY <3>1, <4>1
        <4>3. QED
          BY <2>0, <3>1, <4>2, ReceiveHeadFacts, Zenon
      <3>4. QED
        BY <2>1, <3>1, <3>2, <3>3, CommitHeldTypes, Zenon DEF ReceiveTypeOK, NetworkTypeOK
    <2>4. CASE ReceiveLater(m)
      <3> DEFINE S == held \ {m.seq}
                 C == committed \ {m.seq}
                 kept == S \ Evicted(S, C, m.seq)
                 admitted == IF CanAdd(kept, m.seq) THEN {m.seq} ELSE {}
                 frame == IF admitted # {} /\ maxHeld < Size[m.seq]
                          THEN Size[m.seq] ELSE maxHeld
      <3>1. /\ CommitHeld(kept \cup admitted, C \cap kept, rNext, frame, recvWindow)
            /\ UNCHANGED <<rNext, received, discarded>>
        BY <2>4, SMTT(30) DEF ReceiveLater
      <3>2. /\ kept \cup admitted \in SUBSET Seqs
            /\ C \cap kept \in SUBSET (kept \cup admitted)
        BY <2>0, Zenon DEF ReceiveTypeOK
      <3>3. frame \in Nat
        BY <2>0, NetworkAssumption, Zenon DEF ReceiveTypeOK
      <3>4. recvWindow \in AckWindows(Seqs)
        BY DEF ReceiveTypeOK
      <3> HIDE DEF S, C, kept, admitted, frame
      <3>5. QED
        BY <2>1, <3>1, <3>2, <3>3, <3>4, CommitHeldTypes
        DEF ReceiveTypeOK, NetworkTypeOK
    <2>5. QED
      BY <1>1, <2>2, <2>3, <2>4 DEF ReceivePack
  <1>2. CASE DrainHeld
    <2>1. PICK h \in held :
              /\ h <= rNext
              /\ IF h = rNext THEN rNext' = rNext + 1 /\ ReceiveHead(h)
                              ELSE UNCHANGED <<rNext, received, discarded>>
              /\ CommitHeld(held \ {h}, committed \ {h}, rNext', maxHeld,
                            UpdateHead(recvWindow, h))
              /\ UNCHANGED <<exits, packs, acks>>
      BY <1>2, Zenon DEF DrainHeld, netVars
    <2>2. /\ h \in Seqs
          /\ held \ {h} \in SUBSET Seqs
          /\ committed \ {h} \in SUBSET (held \ {h})
          /\ maxHeld \in Nat
          /\ UpdateHead(recvWindow, h) \in AckWindows(Seqs)
      BY WindowTypes, Zenon DEF ReceiveTypeOK
    <2>3. rNext' \in 0 .. N /\ received' \subseteq Seqs /\ discarded' \subseteq Unwrapped
      <3>1. CASE h = rNext
        <4>1. rNext' = rNext + 1 /\ received' \subseteq Seqs /\ discarded' \subseteq Unwrapped
          BY <2>1, <2>2, <3>1, ReceiveHeadFacts, Zenon
        <4>2. QED
          BY <2>2, <3>1, <4>1
      <3>2. CASE h # rNext
        BY <2>1, <3>2, Zenon DEF ReceiveTypeOK
      <3>3. QED
        BY <3>1, <3>2
    <2>4. QED
      BY <2>1, <2>2, <2>3, CommitHeldTypes, Zenon DEF ReceiveTypeOK, NetworkTypeOK
  <1>3. ASSUME NEW lost \in SUBSET SnapshotAcks(recvWindow), WriteAcks(lost)
        PROVE  NetworkTypeOK' /\ ReceiveTypeOK'
    <2>1. SnapshotAcks(recvWindow) \subseteq Acks
      BY SnapshotAcksAreAcks DEF ReceiveTypeOK
    <2>2. QED
      BY <1>3, <2>1, WindowTypes
      DEF WriteAcks, WriteAckSet, ReceiveTypeOK, NetworkTypeOK
  <1>4. CASE ReceiveExit
    BY <1>4, ReceiveAssumption, WindowTypes
    DEF ReceiveExit, ReceiveTypeOK, NetworkTypeOK, netVars
  <1>5. QED
    BY <1>1, <1>2, <1>3, <1>4 DEF ReceiveNext

\* Calling callbacks (safeAck) keeps the outcomes well typed.
LEMMA SettleTypes ==
    ASSUME SendTypeOK, NEW S, NEW result \in Outcomes, Settle(S, result)
    PROVE  outcome' \in [Seqs -> Outcomes]
  BY DEF SendTypeOK, Settle

\* Discarding items from resendQueue (dropItem, receiveAck) keeps the types.
LEMMA DiscardTypes ==
    ASSUME SendTypeOK, NEW S, Discard(S)
    PROVE  /\ resendQueue' \subseteq Seqs
           /\ headItems' \subseteq Seqs
           /\ retainedCharge' \in [Seqs -> Nat]
  BY DEF SendTypeOK, Discard

\* The teardown that Run defers keeps the types.
LEMMA TeardownTypes ==
    ASSUME NetworkTypeOK, SendTypeOK, NEW S, Teardown(S)
    PROVE  NetworkTypeOK' /\ SendTypeOK'
  <1>1. outcome' \in [Seqs -> Outcomes]
    BY SettleTypes DEF Teardown, Outcomes
  <1>2. retainedCharge' \in [Seqs -> Nat]
    BY DEF Teardown
  <1>3. QED
    BY <1>1, <1>2, WindowTypes, Zenon DEF Teardown, NetworkTypeOK, SendTypeOK, netVars

\* A pack that is written is a pack.
LEMMA WritePackTypes ==
    ASSUME NetworkTypeOK, NEW i \in Seqs, NEW b \in BOOLEAN, WritePack(i, b)
    PROVE  packs' \subseteq Packs
  BY DEF WritePack, NetworkTypeOK, Packs

\* The send half's steps keep its state and the network well typed.
LEMMA SendTypes ==
    ASSUME NetworkTypeOK, SendTypeOK, SendNext
    PROVE  NetworkTypeOK' /\ SendTypeOK'
  <1> USE SeqsRange
  <1>1. CASE SendWrite
    <2>1. nextSeq \in Seqs /\ nextSeq + 1 \in 0 .. N
      BY <1>1 DEF SendWrite, SendTypeOK, Seqs
    <2>2. packs' \subseteq Packs /\ acks' = acks
      <3>1. (sendItems = {}) \in BOOLEAN
        OBVIOUS
      <3>2. WritePack(nextSeq, sendItems = {}) /\ acks' = acks
        BY <1>1 DEF SendWrite
      <3>3. QED
        BY <2>1, <3>1, <3>2, WritePackTypes, Zenon
    <2>3. QED
      BY <1>1, <2>1, <2>2 DEF SendWrite, SendTypeOK, NetworkTypeOK
  <1>2. ASSUME NEW retain \in RetainRequests, SendAdd(retain)
        PROVE  NetworkTypeOK' /\ SendTypeOK'
    <2>1. inHand \in Seqs
      BY <1>2 DEF SendAdd, SendTypeOK
    <2>2. retainedCharge' \in [Seqs -> Nat]
      <3> DEFINE size == WireSize(inHand, headItems)
                 charge == IF retain /\ retainedByteCount + size <= RetainCap
                           THEN size ELSE 0
      <3>1. charge \in Nat
        BY <2>1, WireSizeType
      <3>2. retainedCharge' = [retainedCharge EXCEPT ![inHand] = charge]
        BY <1>2 DEF SendAdd
      <3> HIDE DEF charge
      <3>3. QED
        BY <2>1, <3>1, <3>2 DEF SendTypeOK
    <2>3. QED
      BY <1>2, <2>1, <2>2 DEF SendAdd, SendTypeOK, NetworkTypeOK, netVars
  <1>3. CASE SendNoContract
    BY <1>3, TeardownTypes DEF SendNoContract
  <1>4. ASSUME NEW i \in Seqs, ResendWrite(i)
        PROVE  NetworkTypeOK' /\ SendTypeOK'
    <2>1. packs' \subseteq Packs /\ acks' = acks
      <3>1. (i \in headItems') \in BOOLEAN
        OBVIOUS
      <3>2. WritePack(i, i \in headItems') /\ acks' = acks
        BY <1>4 DEF ResendWrite
      <3>3. QED
        BY <3>1, <3>2, WritePackTypes, Zenon
    <2>2. QED
      BY <1>4, <2>1 DEF ResendWrite, SendTypeOK, NetworkTypeOK
  <1>5. CASE ResendAdd
    BY <1>5 DEF ResendAdd, SendTypeOK, NetworkTypeOK, netVars
  <1>6. ASSUME NEW a \in acks, ReceiveAckMessage(a)
        PROVE  NetworkTypeOK' /\ SendTypeOK'
    <2>1. a.seq \in Seqs
      BY DEF NetworkTypeOK, Acks
    <2>2. sendWindow' \in AckWindows(Seqs)
      BY <1>6, <2>1, WindowTypes, Zenon DEF ReceiveAckMessage, SendTypeOK
    <2>3. QED
      BY <1>6, <2>2
      DEF ReceiveAckMessage, SendTypeOK, NetworkTypeOK, itemVars, netVars
  <1>7. CASE ApplyAcks
    <2> DEFINE hit == sendWindow.updated /\ sendWindow.head \in resendQueue
               walked == {j \in sendItems : hit /\ j <= sendWindow.head}
               acked == walked \cap resendQueue
    <2>1. /\ sendItems' = sendItems \ walked
          /\ Discard(acked)
          /\ Settle(acked, "acked")
          /\ selectiveAcked' = (resendQueue \ acked) \cap
                 (selectiveAcked \cup SnapshotSelective(sendWindow))
          /\ sendWindow' = ResetWindow(sendWindow)
          /\ UNCHANGED <<running, nextSeq, inHand, packs, acks>>
      BY <1>7 DEF ApplyAcks, netVars
    <2> HIDE DEF acked, walked
    <2>2. outcome' \in [Seqs -> Outcomes]
      BY <2>1, SettleTypes DEF Outcomes
    <2>3. QED
      BY <2>1, <2>2, DiscardTypes, WindowTypes, Zenon DEF SendTypeOK, NetworkTypeOK
  <1>8. ASSUME NEW i \in Seqs, BackstopDrop(i)
        PROVE  NetworkTypeOK' /\ SendTypeOK'
    <2> DEFINE dropped == {j \in resendQueue : Retained(j) /\ j <= i}
    <2>1. /\ sendItems' = sendItems \ dropped
          /\ Discard(dropped)
          /\ Settle(dropped, "failed")
          /\ selectiveAcked' = selectiveAcked \ dropped
          /\ UNCHANGED <<running, nextSeq, inHand, sendWindow, packs, acks>>
      BY <1>8 DEF BackstopDrop, netVars
    <2> HIDE DEF dropped
    <2>2. outcome' \in [Seqs -> Outcomes]
      BY <2>1, SettleTypes DEF Outcomes
    <2>3. QED
      BY <2>1, <2>2, DiscardTypes, Zenon DEF SendTypeOK, NetworkTypeOK
  <1>9. CASE SendExit
    BY <1>9, TeardownTypes DEF SendExit
  <1>10. QED
    BY <1>1, <1>2, <1>3, <1>4, <1>5, <1>6, <1>7, <1>8, <1>9 DEF SendNext

\* Every step keeps the types.
LEMMA TypeStep == TypeOK /\ [Next]_vars => TypeOK'
  <1> SUFFICES ASSUME TypeOK, [Next]_vars PROVE TypeOK'
    OBVIOUS
  <1>1. CASE SendNext /\ UNCHANGED recvVars
    BY <1>1, SendTypes DEF TypeOK, ReceiveTypeOK, recvVars
  <1>2. CASE ReceiveNext /\ UNCHANGED sendVars
    BY <1>2, ReceiveTypes DEF TypeOK, SendTypeOK, sendVars, itemVars
  <1>3. CASE NetworkNext /\ UNCHANGED <<sendVars, recvVars>>
    BY <1>3 DEF NetworkNext, LosePack, LoseAck, TypeOK, NetworkTypeOK, SendTypeOK,
                ReceiveTypeOK, sendVars, itemVars, recvVars
  <1>4. CASE UNCHANGED vars
    BY <1>4 DEF vars, sendVars, itemVars, recvVars, netVars, TypeOK, NetworkTypeOK,
                SendTypeOK, ReceiveTypeOK
  <1>5. QED
    BY <1>1, <1>2, <1>3, <1>4 DEF Next

\* Type correctness of the whole sequence.
THEOREM TypeCorrect == Spec => []TypeOK
  <1>1. Init => TypeOK
    BY SeqsRange, WindowTypes, ReceiveAssumption
    DEF Init, NetworkInit, SendInit, ReceiveInit, TypeOK, NetworkTypeOK, SendTypeOK,
        ReceiveTypeOK, Outcomes
  <1>2. QED
    BY <1>1, TypeStep, PTL DEF Spec

-----------------------------------------------------------------------------
(* The receive half keeps the invariant.                                   *)

\* What a step of the receive half must show: the items up to a cumulative ack it
\* posts, and those below the delivery point it reaches, are accounted for.
LEMMA ReceiveKeepsInv ==
    ASSUME Inv, TypeOK', UNCHANGED <<sendVars, packs>>,
           Arrived \subseteq Arrived',
           held' \subseteq 0 .. nextSeq - 1,
           \A j \in 0 .. rNext' - 1 : Accounted(j)',
           \A j \in 0 .. recvWindow'.head : Accounted(j)',
           \A a \in acks' : ~a.selective => \A j \in 0 .. a.seq : Accounted(j)'
    PROVE  Inv'
  <1> USE SeqsRange DEF Inv
  <1>1. OwedIsOutstanding' /\ HeadMeansSettled'
    BY DEF OwedIsOutstanding, HeadMeansSettled, sendVars, itemVars
  <1>2. Causal'
    BY Zenon DEF Causal, sendVars, itemVars
  <1>3. \A j \in 0 .. sendWindow'.head : Accounted(j)'
    BY DEF CumulativeAcksTrue, Accounted, sendVars, itemVars
  <1>4. CumulativeAcksTrue'
    BY <1>3 DEF CumulativeAcksTrue
  <1>5. NothingSkipped'
    BY DEF NothingSkipped, Accounted
  <1>6. AckedImpliesArrived'
    BY DEF AckedImpliesArrived, Arrived, TypeOK, ReceiveTypeOK, sendVars, itemVars
  <1>7. QED
    BY <1>1, <1>2, <1>4, <1>5, <1>6

\* An item the receiver moves past on the word of a head pack is accounted for.
LEMMA NextForAccounted ==
    ASSUME Inv, NEW m \in packs
    PROVE  \A j \in 0 .. NextFor(m) - 1 : Accounted(j)
  <1> USE SeqsRange DEF Inv
  <1>1. m.seq \in Seqs /\ rNext \in 0 .. N
    BY DEF TypeOK, NetworkTypeOK, Packs, ReceiveTypeOK
  <1>2. CASE m.head /\ rNext < m.seq
    <2>1. ASSUME NEW j \in 0 .. m.seq - 1
          PROVE  Accounted(j)
      <3>1. j \in Seqs
        BY <1>1 DEF Seqs
      <3>2. outcome[j] # "none"
        BY <1>2 DEF HeadMeansSettled
      <3>3. outcome[j] \in {"acked", "failed"}
        BY <3>1, <3>2 DEF TypeOK, SendTypeOK, Outcomes
      <3>4. QED
        BY <3>1, <3>3 DEF AckedImpliesArrived, Accounted, Arrived
    <2>2. QED
      BY <1>2, <2>1 DEF NextFor
  <1>3. CASE ~(m.head /\ rNext < m.seq)
    BY <1>3 DEF NextFor, NothingSkipped, Accounted
  <1>4. QED
    BY <1>2, <1>3

\* Each step of the receive half keeps the invariant.
LEMMA ReceiveStep ==
    ASSUME Inv, TypeOK', ReceiveNext, UNCHANGED sendVars
    PROVE  Inv'
  <1> USE SeqsRange
  <1>0. /\ recvWindow \in AckWindows(Seqs)
        /\ recvWindow.head \in Seqs \cup {-1}
        /\ rNext \in 0 .. N
        /\ nextSeq \in 0 .. N
        /\ held \subseteq 0 .. nextSeq - 1
        /\ ReceiveTypeOK
    BY DEF Inv, TypeOK, ReceiveTypeOK, SendTypeOK, AckWindows, Causal
  <1>1. ASSUME NEW m \in packs, ReceivePack(m)
        PROVE  Inv'
    <2>0. m.seq \in Seqs /\ m.seq \in 0 .. nextSeq - 1
      BY DEF Inv, TypeOK, NetworkTypeOK, Packs, Causal, Seqs, SendTypeOK
    <2>1. UNCHANGED <<packs, acks>>
      BY <1>1 DEF ReceivePack, netVars
    <2>2. \A j \in 0 .. NextFor(m) - 1 : Accounted(j)
      BY NextForAccounted
    <2>3. CASE ReceivePast(m)
      <3>1. /\ m.seq < rNext
            /\ CommitHeld(held \ {m.seq}, committed \ {m.seq}, rNext, maxHeld,
                          UpdateHead(recvWindow, m.seq))
            /\ UNCHANGED <<rNext, received, discarded>>
        BY <2>3 DEF ReceivePast
      <3>2. /\ held' = held \ {m.seq}
            /\ recvWindow'.head = UpdateHead(recvWindow, m.seq).head
        <4>1. /\ held \ {m.seq} \in SUBSET Seqs
              /\ committed \ {m.seq} \in SUBSET (held \ {m.seq})
              /\ maxHeld \in Nat
              /\ UpdateHead(recvWindow, m.seq) \in AckWindows(Seqs)
          BY <1>0, <2>0, WindowTypes, Zenon DEF ReceiveTypeOK
        <4>2. QED
          BY <1>0, <3>1, <4>1, CommitHeldTypes, Zenon
      <3>3. recvWindow'.head \in {recvWindow.head, m.seq}
        BY <1>0, <2>0, <3>2, WindowTypes, Zenon
      <3>4. Arrived' = Arrived /\ \A j : Accounted(j)' <=> Accounted(j)
        BY <3>1 DEF Accounted, Arrived, sendVars, itemVars
      <3>5. \A j \in 0 .. rNext - 1 : Accounted(j)
        BY DEF Inv, NothingSkipped, Accounted
      <3>6. \A j \in 0 .. recvWindow'.head : Accounted(j)
        BY <1>0, <2>0, <3>1, <3>3, <3>5 DEF Inv, CumulativeAcksTrue
      <3>7. \A a \in acks : ~a.selective => \A j \in 0 .. a.seq : Accounted(j)
        BY DEF Inv, CumulativeAcksTrue
      <3>8. QED
        BY <1>0, <2>1, <3>1, <3>2, <3>4, <3>5, <3>6, <3>7, ReceiveKeepsInv, Zenon
    <2>4. CASE ReceiveInOrder(m)
      <3>1. /\ m.seq = NextFor(m)
            /\ rNext' = m.seq + 1
            /\ ReceiveHead(m.seq)
            /\ CommitHeld(held \ {m.seq}, committed \ {m.seq}, m.seq + 1, maxHeld,
                          UpdateHead(recvWindow, m.seq))
        BY <2>4 DEF ReceiveInOrder
      <3>2. /\ held' = held \ {m.seq}
            /\ recvWindow'.head = UpdateHead(recvWindow, m.seq).head
        <4>1. /\ held \ {m.seq} \in SUBSET Seqs
              /\ committed \ {m.seq} \in SUBSET (held \ {m.seq})
              /\ maxHeld \in Nat
              /\ UpdateHead(recvWindow, m.seq) \in AckWindows(Seqs)
          BY <1>0, <2>0, WindowTypes, Zenon DEF ReceiveTypeOK
        <4>2. QED
          BY <1>0, <3>1, <4>1, CommitHeldTypes, Zenon
      <3>3. recvWindow'.head \in {recvWindow.head, m.seq}
        BY <1>0, <2>0, <3>2, WindowTypes, Zenon
      <3>a. Arrived' = Arrived \cup {m.seq}
        BY <1>0, <2>0, <3>1, ReceiveHeadFacts
      <3>4. (\A j : Accounted(j) => Accounted(j)') /\ Accounted(m.seq)'
        BY <3>a DEF Accounted, sendVars, itemVars
      <3>5. \A j \in 0 .. rNext' - 1 : Accounted(j)'
        BY <2>0, <2>2, <3>1, <3>4
      <3>6. \A j \in 0 .. recvWindow'.head : Accounted(j)'
        BY <1>0, <2>0, <3>1, <3>3, <3>4, <3>5 DEF Inv, CumulativeAcksTrue
      <3>7. \A a \in acks : ~a.selective => \A j \in 0 .. a.seq : Accounted(j)
        BY DEF Inv, CumulativeAcksTrue
      <3>8. QED
        BY <1>0, <2>1, <3>1, <3>2, <3>a, <3>4, <3>5, <3>6, <3>7, ReceiveKeepsInv, Zenon
    <2>5. CASE ReceiveLater(m)
      <3> DEFINE S == held \ {m.seq}
                 C == committed \ {m.seq}
                 kept == S \ Evicted(S, C, m.seq)
                 admitted == IF CanAdd(kept, m.seq) THEN {m.seq} ELSE {}
                 frame == IF admitted # {} /\ maxHeld < Size[m.seq]
                          THEN Size[m.seq] ELSE maxHeld
      <3>1. /\ CommitHeld(kept \cup admitted, C \cap kept, rNext, frame, recvWindow)
            /\ UNCHANGED <<rNext, received, discarded>>
        BY <2>5, Zenon DEF ReceiveLater
      <3>2. /\ kept \cup admitted \in SUBSET Seqs
            /\ kept \cup admitted \subseteq 0 .. nextSeq - 1
            /\ C \cap kept \in SUBSET (kept \cup admitted)
        BY <1>0, <2>0, Zenon DEF ReceiveTypeOK
      <3>3. frame \in Nat
        BY <1>0, <2>0, NetworkAssumption DEF ReceiveTypeOK
      <3> HIDE DEF S, C, kept, admitted, frame
      <3>4. held' \subseteq 0 .. nextSeq - 1 /\ recvWindow'.head = recvWindow.head
        BY <1>0, <3>1, <3>2, <3>3, CommitHeldTypes, Zenon
      <3>5. Arrived' = Arrived /\ \A j : Accounted(j)' <=> Accounted(j)
        BY <3>1 DEF Accounted, Arrived, sendVars, itemVars
      <3>6. /\ \A j \in 0 .. rNext - 1 : Accounted(j)
            /\ \A j \in 0 .. recvWindow.head : Accounted(j)
            /\ \A a \in acks : ~a.selective => \A j \in 0 .. a.seq : Accounted(j)
        BY DEF Inv, NothingSkipped, CumulativeAcksTrue, Accounted
      <3>7. QED
        BY <2>1, <3>1, <3>4, <3>5, <3>6, ReceiveKeepsInv, Zenon
    <2>6. QED
      BY <1>1, <2>3, <2>4, <2>5 DEF ReceivePack
  <1>2. CASE DrainHeld
    <2>1. PICK h \in held :
              /\ h <= rNext
              /\ IF h = rNext THEN rNext' = rNext + 1 /\ ReceiveHead(h)
                              ELSE UNCHANGED <<rNext, received, discarded>>
              /\ CommitHeld(held \ {h}, committed \ {h}, rNext', maxHeld,
                            UpdateHead(recvWindow, h))
              /\ UNCHANGED <<exits, packs, acks>>
      BY <1>2, Zenon DEF DrainHeld, netVars
    <2>2. /\ h \in Seqs
          /\ held \ {h} \in SUBSET Seqs
          /\ committed \ {h} \in SUBSET (held \ {h})
          /\ maxHeld \in Nat
          /\ UpdateHead(recvWindow, h) \in AckWindows(Seqs)
      BY <1>0, WindowTypes, Zenon DEF ReceiveTypeOK
    <2>3. held' = held \ {h} /\ recvWindow'.head = UpdateHead(recvWindow, h).head
      BY <1>0, <2>1, <2>2, CommitHeldTypes, Zenon
    <2>4. recvWindow'.head \in {recvWindow.head, h}
      BY <1>0, <2>2, <2>3, WindowTypes, Zenon
    <2>a. Arrived' = (IF h = rNext THEN Arrived \cup {h} ELSE Arrived)
      <3>1. CASE h = rNext
        BY <1>0, <2>1, <2>2, <3>1, ReceiveHeadFacts
      <3>2. CASE h # rNext
        BY <2>1, <3>2 DEF Arrived
      <3>3. QED
        BY <3>1, <3>2
    <2>b. rNext' = (IF h = rNext THEN rNext + 1 ELSE rNext) /\ Arrived \subseteq Arrived'
      BY <2>1, <2>a
    <2>5. /\ \A j : Accounted(j) => Accounted(j)'
          /\ h = rNext => Accounted(h)'
      BY <2>a DEF Accounted, sendVars, itemVars
    <2>6. /\ \A j \in 0 .. rNext - 1 : Accounted(j)
          /\ \A j \in 0 .. recvWindow.head : Accounted(j)
          /\ \A a \in acks : ~a.selective => \A j \in 0 .. a.seq : Accounted(j)
      BY DEF Inv, NothingSkipped, CumulativeAcksTrue, Accounted
    <2>7. \A j \in 0 .. rNext' - 1 : Accounted(j)'
      BY <1>0, <2>b, <2>2, <2>5, <2>6
    <2>8. \A j \in 0 .. recvWindow'.head : Accounted(j)'
      <3>1. h < rNext'
        BY <1>0, <2>1, <2>b, <2>2
      <3>2. QED
        BY <1>0, <2>b, <2>2, <2>4, <2>5, <2>6, <2>7, <3>1
    <2>9. QED
      BY <1>0, <2>1, <2>b, <2>3, <2>5, <2>6, <2>7, <2>8, ReceiveKeepsInv, Zenon
  <1>3. ASSUME NEW lost \in SUBSET SnapshotAcks(recvWindow), WriteAcks(lost)
        PROVE  Inv'
    <2>1. /\ acks' = acks \cup (SnapshotAcks(recvWindow) \ lost)
          /\ recvWindow' = ResetWindow(recvWindow)
          /\ UNCHANGED <<rNext, held, received, discarded, packs>>
      BY <1>3 DEF WriteAcks, WriteAckSet
    <2>2. recvWindow'.head = recvWindow.head
      BY <1>0, <2>1, WindowTypes, Zenon
    <2>3. Arrived' = Arrived /\ \A j : Accounted(j)' <=> Accounted(j)
      BY <2>1 DEF Accounted, Arrived, sendVars, itemVars
    <2>4. /\ \A j \in 0 .. rNext - 1 : Accounted(j)
          /\ \A j \in 0 .. recvWindow.head : Accounted(j)
          /\ \A a \in acks : ~a.selective => \A j \in 0 .. a.seq : Accounted(j)
      BY DEF Inv, NothingSkipped, CumulativeAcksTrue, Accounted
    <2>5. \A a \in acks' : ~a.selective => \A j \in 0 .. a.seq : Accounted(j)
      BY <1>0, <2>1, <2>4, SnapshotAcksAreAcks, Zenon
    <2>6. QED
      BY <1>0, <2>1, <2>2, <2>3, <2>4, <2>5, ReceiveKeepsInv, Zenon
  <1>4. CASE ReceiveExit
    <2>1. /\ rNext' = 0 /\ held' = {} /\ recvWindow' = EmptyWindow
          /\ UNCHANGED <<received, discarded, packs, acks>>
      BY <1>4 DEF ReceiveExit, netVars
    <2>2. recvWindow'.head = -1
      BY <2>1, WindowTypes
    <2>3. Arrived' = Arrived /\ \A j : Accounted(j)' <=> Accounted(j)
      BY <2>1 DEF Accounted, Arrived, sendVars, itemVars
    <2>4. \A a \in acks : ~a.selective => \A j \in 0 .. a.seq : Accounted(j)
      BY DEF Inv, CumulativeAcksTrue
    <2>5. QED
      BY <2>1, <2>2, <2>3, <2>4, ReceiveKeepsInv
  <1>5. QED
    BY <1>1, <1>2, <1>3, <1>4 DEF ReceiveNext

-----------------------------------------------------------------------------
(* The send half keeps the invariant.                                      *)

\* What a step of the send half must show: it calls no callback twice, and none with
\* nil for an item that did not arrive; the head flags and the ack window are
\* truthful; and its bookkeeping agrees.
LEMMA SendKeepsInv ==
    ASSUME Inv, TypeOK', UNCHANGED <<recvVars, acks>>,
           \A j \in Seqs : outcome[j] # "none" => outcome'[j] = outcome[j],
           \A j \in Seqs : outcome'[j] = "acked" => j \in Arrived,
           \A j \in 0 .. sendWindow'.head : Accounted(j),
           HeadMeansSettled', OwedIsOutstanding', Causal'
    PROVE  Inv'
  <1> USE SeqsRange DEF Inv
  <1>1. \A j \in Seqs : Accounted(j) => Accounted(j)'
    BY DEF Accounted, Arrived, recvVars
  <1>2. /\ rNext \in 0 .. N
        /\ recvWindow.head \in Seqs \cup {-1}
        /\ sendWindow'.head \in Seqs \cup {-1}
        /\ \A a \in acks : a.seq \in Seqs
    BY DEF TypeOK, ReceiveTypeOK, SendTypeOK, NetworkTypeOK, Acks, AckWindows
  <1>3. \A k \in Seqs \cup {-1} : 0 .. k \subseteq Seqs
    BY DEF Seqs
  <1>4. CumulativeAcksTrue'
    <2>1. \A j \in 0 .. sendWindow'.head : Accounted(j)'
      BY <1>1, <1>2, <1>3, ZenonT(30)
    <2>2. \A j \in 0 .. recvWindow.head : Accounted(j)'
      BY <1>1, <1>2, <1>3, ZenonT(30) DEF CumulativeAcksTrue
    <2>3. \A a \in acks : ~a.selective => \A j \in 0 .. a.seq : Accounted(j)'
      BY <1>1, <1>2, <1>3, ZenonT(30) DEF CumulativeAcksTrue
    <2>4. QED
      BY <2>1, <2>2, <2>3 DEF CumulativeAcksTrue, recvVars
  <1>5. NothingSkipped'
    <2>1. 0 .. rNext - 1 \subseteq Seqs
      BY <1>2 DEF Seqs
    <2>2. QED
      BY <1>1, <2>1 DEF NothingSkipped, Accounted, Arrived, recvVars
  <1>6. AckedImpliesArrived'
    BY DEF AckedImpliesArrived, Arrived, TypeOK, ReceiveTypeOK, recvVars
  <1>7. QED
    BY <1>4, <1>5, <1>6

\* While nothing is in hand, resendQueue is exactly what is owed a callback.
LEMMA IdleOwed ==
    ASSUME Inv, Idle
    PROVE  /\ inHand = None
           /\ sendItems = resendQueue
           /\ resendQueue \subseteq Seqs
           /\ \A j \in resendQueue : j < nextSeq /\ outcome[j] = "none"
           /\ \A j \in 0 .. nextSeq - 1 : outcome[j] = "none" => j \in resendQueue
  <1> USE SeqsRange DEF Inv
  <1>1. inHand = None /\ nextSeq \in 0 .. N /\ sendItems \subseteq 0 .. nextSeq - 1
    BY DEF Idle, TypeOK, SendTypeOK, Causal
  <1>2. 0 .. nextSeq - 1 \subseteq Seqs
    BY <1>1 DEF Seqs
  <1>3. sendItems = resendQueue
    BY <1>1, <1>2 DEF OwedIsOutstanding
  <1>4. QED
    BY <1>1, <1>2, <1>3 DEF OwedIsOutstanding

\* The pack in flight that was not there before is the one written.
LEMMA WrittenPack ==
    ASSUME NEW i, NEW b \in BOOLEAN, packs' = packs \cup {[seq |-> i, head |-> b]}
    PROVE  \A m \in packs' : m \in packs \/ (m.seq = i /\ (m.head => b))
  OBVIOUS

\* Items that leave resendQueue, acked or dropped, leave the invariant in place.
LEMMA SettleKeepsInv ==
    ASSUME Inv, TypeOK', Idle, NEW S \in SUBSET resendQueue,
           NEW result \in {"acked", "failed"},
           result = "acked" => S \subseteq Arrived,
           Discard(S), Settle(S, result), sendItems' = sendItems \ S,
           sendWindow'.head = sendWindow.head,
           UNCHANGED <<recvVars, running, nextSeq, inHand, packs, acks>>
    PROVE  Inv'
  <1> USE SeqsRange
  <1>0. /\ nextSeq \in 0 .. N
        /\ outcome \in [Seqs -> Outcomes]
        /\ headItems \subseteq 0 .. nextSeq - 1
        /\ \A m \in packs : m.seq \in Seqs
    BY DEF Inv, TypeOK, SendTypeOK, NetworkTypeOK, Packs, Causal
  <1>1. /\ outcome' = [i \in Seqs |-> IF i \in S THEN result ELSE outcome[i]]
        /\ resendQueue' = resendQueue \ S
        /\ headItems' = headItems \ S
    BY DEF Settle, Discard
  <1>2. /\ \A j \in Seqs : outcome[j] # "none" => outcome'[j] = outcome[j]
        /\ \A j \in Seqs : outcome'[j] = "none" <=> outcome[j] = "none" /\ j \notin S
    BY <1>1, IdleOwed
  <1>3. \A j \in Seqs : outcome'[j] = "acked" => j \in Arrived
    BY <1>1 DEF Inv, AckedImpliesArrived, Arrived
  <1>4. \A j \in 0 .. sendWindow'.head : Accounted(j)
    BY DEF Inv, CumulativeAcksTrue
  <1>5. HeadMeansSettled'
    <2>1. \A m \in packs : 0 .. m.seq - 1 \subseteq Seqs
      BY <1>0 DEF Seqs
    <2>2. QED
      BY <1>2, <2>1 DEF Inv, HeadMeansSettled
  <1>6. OwedIsOutstanding'
    BY <1>0, <1>1, <1>2, IdleOwed DEF Inv, OwedIsOutstanding
  <1>7. Causal'
    <2>1. \A i \in headItems' : \A j \in 0 .. i - 1 : outcome'[j] # "none"
      <3>1. \A i \in headItems' : i \in headItems /\ 0 .. i - 1 \subseteq Seqs
        BY <1>0, <1>1 DEF Seqs
      <3>2. QED
        BY <1>2, <3>1 DEF Inv, Causal
    <2>2. running => \A i \in nextSeq .. N - 1 : outcome'[i] = "none"
      <3>1. \A i \in nextSeq .. N - 1 : i \in Seqs /\ i \notin S
        BY <1>0, IdleOwed DEF Seqs
      <3>2. QED
        BY <1>2, <3>1 DEF Inv, Causal
    <2>3. QED
      BY <1>1, <2>1, <2>2 DEF Inv, Causal, recvVars
  <1>8. QED
    BY <1>2, <1>3, <1>4, <1>5, <1>6, <1>7, SendKeepsInv, ZenonT(30)

\* Closing, with or without a pack that found no contract, keeps the invariant.
LEMMA TeardownKeepsInv ==
    ASSUME Inv, TypeOK', Idle, UNCHANGED recvVars,
           NEW S \in SUBSET (nextSeq .. N - 1), Teardown(S)
    PROVE  Inv'
  <1> USE SeqsRange
  <1>0. /\ nextSeq \in 0 .. N
        /\ outcome \in [Seqs -> Outcomes]
        /\ \A m \in packs : m.seq \in Seqs
    BY DEF Inv, TypeOK, SendTypeOK, NetworkTypeOK, Packs
  <1>1. /\ outcome' = [i \in Seqs |-> IF i \in resendQueue \cup S THEN "failed"
                                      ELSE outcome[i]]
        /\ running' = FALSE /\ sendItems' = {} /\ resendQueue' = {}
        /\ headItems' = {} /\ sendWindow' = EmptyWindow
        /\ UNCHANGED <<nextSeq, inHand, packs, acks>>
    BY DEF Settle, Teardown, netVars
  <1>2. /\ inHand = None
        /\ \A j \in resendQueue \cup S : j \in Seqs /\ outcome[j] = "none"
        /\ \A j \in 0 .. nextSeq - 1 : outcome[j] = "none" => j \in resendQueue
    <2>1. \A j \in S : j \in Seqs /\ outcome[j] = "none"
      BY <1>0 DEF Inv, Causal, Idle, Seqs
    <2>2. QED
      BY <2>1, IdleOwed, ZenonT(30)
  <1>3. \A j \in Seqs : outcome[j] # "none" => outcome'[j] = outcome[j]
    BY <1>1, <1>2
  <1>4. \A j \in Seqs : outcome'[j] = "acked" => j \in Arrived
    BY <1>1 DEF Inv, AckedImpliesArrived, Arrived
  <1>5. \A j \in 0 .. sendWindow'.head : Accounted(j)
    BY <1>1, WindowTypes
  <1>6. HeadMeansSettled'
    <2>1. \A m \in packs : 0 .. m.seq - 1 \subseteq Seqs
      BY <1>0 DEF Seqs
    <2>2. QED
      BY <1>1, <1>3, <2>1 DEF Inv, HeadMeansSettled
  <1>7. OwedIsOutstanding'
    <2>1. \A i \in Seqs : i < nextSeq => outcome'[i] # "none"
      BY <1>0, <1>1, <1>2, <1>3
    <2>2. QED
      BY <1>1, <1>2, <2>1 DEF OwedIsOutstanding
  <1>8. Causal'
    BY <1>0, <1>1, <1>2 DEF Inv, Causal, recvVars
  <1>9. QED
    BY <1>1, <1>3, <1>4, <1>5, <1>6, <1>7, <1>8, SendKeepsInv

\* Each step of the send half keeps the invariant.
LEMMA SendStep ==
    ASSUME Inv, TypeOK', SendNext, UNCHANGED recvVars
    PROVE  Inv'
  <1> USE SeqsRange
  <1>0. /\ nextSeq \in 0 .. N
        /\ outcome \in [Seqs -> Outcomes]
        /\ inHand \in Seqs \cup {-1}
        /\ sendItems \cup resendQueue \cup headItems \cup held \subseteq 0 .. nextSeq - 1
        /\ inHand < nextSeq
        /\ sendWindow \in AckWindows(Seqs)
        /\ \A m \in packs : m.seq \in Seqs /\ m.seq < nextSeq
        /\ 0 .. nextSeq - 1 \subseteq Seqs
    BY SMTT(30) DEF Inv, TypeOK, SendTypeOK, NetworkTypeOK, Packs, Causal, Seqs
  <1>a. \A j \in Seqs : outcome[j] = "acked" => j \in Arrived
    BY DEF Inv, AckedImpliesArrived, Arrived
  <1>b. \A j \in 0 .. sendWindow.head : Accounted(j)
    BY DEF Inv, CumulativeAcksTrue
  <1>1. CASE SendWrite
    <2>1. /\ Idle /\ nextSeq < N
          /\ nextSeq' = nextSeq + 1 /\ inHand' = nextSeq
          /\ headItems' = IF sendItems = {} THEN headItems \cup {nextSeq} ELSE headItems
          /\ packs' = packs \cup {[seq |-> nextSeq, head |-> sendItems = {}]}
          /\ UNCHANGED <<running, sendItems, resendQueue, sendWindow, outcome, acks>>
      BY <1>1 DEF SendWrite, WritePack
    <2>2. sendItems = {} => \A j \in 0 .. nextSeq - 1 : outcome[j] # "none"
      BY <2>1, IdleOwed
    <2>3. HeadMeansSettled'
      <3>1. \A m \in packs' : m \in packs \/ (m.seq = nextSeq /\ (m.head => sendItems = {}))
        <4>1. (sendItems = {}) \in BOOLEAN
          OBVIOUS
        <4>2. QED
          BY <2>1, <4>1, WrittenPack, Zenon
      <3>2. QED
        BY <2>1, <2>2, <3>1 DEF Inv, HeadMeansSettled
    <2>4. OwedIsOutstanding'
      <3>1. nextSeq \in Seqs /\ outcome[nextSeq] = "none"
        BY <1>0, <2>1 DEF Inv, Causal, Idle, Seqs
      <3>2. \A i \in Seqs : i < nextSeq + 1 => i \in 0 .. nextSeq - 1 \/ i = nextSeq
        BY <1>0
      <3>3. QED
        BY <1>0, <2>1, <3>1, <3>2, IdleOwed DEF OwedIsOutstanding
    <2>5. Causal'
      <3>1. \A i \in headItems' : \A j \in 0 .. i - 1 : outcome'[j] # "none"
        BY <2>1, <2>2 DEF Inv, Causal
      <3>2. /\ sendItems' \cup resendQueue' \cup headItems' \cup held' \subseteq 0 .. nextSeq' - 1
            /\ inHand' < nextSeq'
        BY <1>0, <2>1 DEF recvVars
      <3>3. \A m \in packs' : m.seq < nextSeq'
        <4>1. \A m \in packs : m.seq \in Int /\ m.seq < nextSeq
          BY <1>0, ZenonT(30)
        <4>2. \A m \in packs' : m \in packs \/ m.seq = nextSeq
          BY <2>1
        <4>3. QED
          BY <1>0, <2>1, <4>1, <4>2
      <3>4. running' => \A i \in nextSeq' .. N - 1 : outcome'[i] = "none"
        BY <1>0, <2>1, SMTT(30) DEF Inv, Causal
      <3>5. QED
        BY <2>1, <3>1, <3>2, <3>3, <3>4 DEF Causal, Idle
    <2>6. QED
      BY <1>a, <1>b, <2>1, <2>3, <2>4, <2>5, SendKeepsInv
  <1>2. ASSUME NEW retain \in RetainRequests, SendAdd(retain)
        PROVE  Inv'
    <2>1. /\ inHand # -1 /\ inHand \notin sendItems
          /\ sendItems' = sendItems \cup {inHand}
          /\ resendQueue' = resendQueue \cup {inHand}
          /\ inHand' = -1
          /\ UNCHANGED <<running, nextSeq, headItems, sendWindow, outcome, packs, acks>>
      BY <1>2 DEF SendAdd, netVars
    <2>2. HeadMeansSettled'
      BY <2>1 DEF Inv, HeadMeansSettled
    <2>3. OwedIsOutstanding'
      BY <1>0, <2>1 DEF Inv, OwedIsOutstanding
    <2>4. Causal'
      BY <1>0, <2>1 DEF Inv, Causal, recvVars
    <2>5. QED
      BY <1>a, <1>b, <2>1, <2>2, <2>3, <2>4, SendKeepsInv
  <1>3. CASE SendNoContract
    <2>1. Idle /\ nextSeq < N /\ Teardown({nextSeq})
      BY <1>3 DEF SendNoContract
    <2>2. {nextSeq} \in SUBSET (nextSeq .. N - 1)
      BY <1>0, <2>1
    <2>3. QED
      BY <2>1, <2>2, TeardownKeepsInv
  <1>4. ASSUME NEW i \in Seqs, ResendWrite(i)
        PROVE  Inv'
    <2>1. /\ Idle /\ i \in resendQueue
          /\ resendQueue' = resendQueue \ {i}
          /\ headItems' = IF IsFirst(i) THEN headItems \cup {i} ELSE headItems
          /\ inHand' = i
          /\ packs' = packs \cup {[seq |-> i, head |-> i \in headItems']}
          /\ UNCHANGED <<running, nextSeq, sendItems, sendWindow, outcome, acks>>
      BY <1>4 DEF ResendWrite, WritePack
    <2>2. \A k \in headItems' : \A j \in 0 .. k - 1 : outcome[j] # "none"
      <3>1. ASSUME IsFirst(i), NEW j \in 0 .. i - 1
            PROVE  outcome[j] # "none"
        BY <1>0, <2>1, <3>1, IdleOwed DEF IsFirst
      <3>2. QED
        BY <2>1, <3>1 DEF Inv, Causal
    <2>3. HeadMeansSettled'
      <3>1. \A m \in packs' : m \in packs \/ (m.seq = i /\ (m.head => i \in headItems'))
        <4>1. (i \in headItems') \in BOOLEAN
          OBVIOUS
        <4>2. QED
          BY <2>1, <4>1, WrittenPack, Zenon
      <3>2. QED
        BY <2>1, <2>2, <3>1 DEF Inv, HeadMeansSettled
    <2>4. OwedIsOutstanding'
      BY <1>0, <2>1, IdleOwed DEF Inv, OwedIsOutstanding
    <2>5. Causal'
      <3>1. /\ sendItems' \cup resendQueue' \cup headItems' \cup held' \subseteq 0 .. nextSeq' - 1
            /\ inHand' < nextSeq'
        BY <1>0, <2>1 DEF recvVars
      <3>2. \A m \in packs' : m.seq < nextSeq'
        <4>1. \A m \in packs' : m \in packs \/ m.seq = i
          BY <2>1
        <4>2. QED
          BY <1>0, <2>1, <4>1
      <3>3. QED
        BY <2>1, <2>2, <3>1, <3>2 DEF Inv, Causal, Idle
    <2>6. QED
      BY <1>a, <1>b, <2>1, <2>3, <2>4, <2>5, SendKeepsInv
  <1>5. CASE ResendAdd
    <2>1. /\ inHand # -1 /\ inHand \in sendItems
          /\ resendQueue' = resendQueue \cup {inHand}
          /\ inHand' = -1
          /\ UNCHANGED <<running, nextSeq, sendItems, headItems, sendWindow, outcome,
                         packs, acks>>
      BY <1>5 DEF ResendAdd, netVars
    <2>2. HeadMeansSettled'
      BY <2>1 DEF Inv, HeadMeansSettled
    <2>3. OwedIsOutstanding'
      BY <1>0, <2>1 DEF Inv, OwedIsOutstanding
    <2>4. Causal'
      BY <1>0, <2>1 DEF Inv, Causal, recvVars
    <2>5. QED
      BY <1>a, <1>b, <2>1, <2>2, <2>3, <2>4, SendKeepsInv
  <1>6. ASSUME NEW a \in acks, ReceiveAckMessage(a)
        PROVE  Inv'
    <2>0. a.seq \in Seqs
      BY DEF Inv, TypeOK, NetworkTypeOK, Acks
    <2>1. /\ sendWindow' = IF a.selective THEN UpdateSelective(sendWindow, {a.seq})
                                          ELSE UpdateHead(sendWindow, a.seq)
          /\ UNCHANGED <<running, nextSeq, sendItems, resendQueue, inHand, headItems,
                         outcome, packs, acks>>
      BY <1>6 DEF ReceiveAckMessage, itemVars, netVars
    <2>2. /\ a.selective => sendWindow'.head = sendWindow.head
          /\ ~a.selective => sendWindow'.head \in {sendWindow.head, a.seq}
      BY <1>0, <2>0, <2>1, WindowTypes, ZenonT(30)
    <2>3. \A j \in 0 .. sendWindow'.head : Accounted(j)
      BY <1>b, <2>2 DEF Inv, CumulativeAcksTrue
    <2>4. HeadMeansSettled' /\ OwedIsOutstanding'
      BY <2>1 DEF Inv, HeadMeansSettled, OwedIsOutstanding
    <2>5. Causal'
      BY <2>1 DEF Inv, Causal, recvVars
    <2>6. QED
      BY <1>a, <2>1, <2>3, <2>4, <2>5, SendKeepsInv
  <1>7. CASE ApplyAcks
    <2> DEFINE hit == sendWindow.updated /\ sendWindow.head \in resendQueue
               walked == {j \in sendItems : hit /\ j <= sendWindow.head}
               acked == walked \cap resendQueue
    <2>1. /\ Idle
          /\ sendItems' = sendItems \ walked
          /\ Discard(acked)
          /\ Settle(acked, "acked")
          /\ sendWindow' = ResetWindow(sendWindow)
          /\ UNCHANGED <<running, nextSeq, inHand, packs, acks>>
      BY <1>7 DEF ApplyAcks, netVars
    <2>2. walked = acked /\ acked \in SUBSET resendQueue
      BY <2>1, IdleOwed
    <2>3. acked \subseteq Arrived
      <3>1. ASSUME NEW j \in acked
            PROVE  j \in Arrived
        <4>1. j \in resendQueue /\ j \in 0 .. sendWindow.head
          BY <1>0
        <4>2. Accounted(j) /\ outcome[j] = "none"
          BY <1>b, <2>1, <4>1, IdleOwed
        <4>3. QED
          BY <4>2 DEF Accounted
      <3>2. QED
        BY <3>1
    <2>4. sendWindow'.head = sendWindow.head
      BY <1>0, <2>1, WindowTypes
    <2> HIDE DEF acked, walked
    <2>5. QED
      BY <2>1, <2>2, <2>3, <2>4, SettleKeepsInv
  <1>8. ASSUME NEW i \in Seqs, BackstopDrop(i)
        PROVE  Inv'
    <2> DEFINE dropped == {j \in resendQueue : Retained(j) /\ j <= i}
    <2>1. /\ Idle
          /\ sendItems' = sendItems \ dropped
          /\ Discard(dropped)
          /\ Settle(dropped, "failed")
          /\ UNCHANGED <<running, nextSeq, inHand, sendWindow, packs, acks>>
      BY <1>8 DEF BackstopDrop, netVars
    <2>2. dropped \in SUBSET resendQueue
      OBVIOUS
    <2> HIDE DEF dropped
    <2>3. QED
      BY <2>1, <2>2, SettleKeepsInv
  <1>9. CASE SendExit
    BY <1>9, TeardownKeepsInv DEF SendExit
  <1>10. QED
    BY <1>1, <1>2, <1>3, <1>4, <1>5, <1>6, <1>7, <1>8, <1>9 DEF SendNext

-----------------------------------------------------------------------------
(* The theorems.                                                           *)

\* The invariant holds when NewSendSequence and NewReceiveSequence return.
LEMMA InvInit == Init => Inv
  <1> SUFFICES ASSUME Init PROVE Inv
    OBVIOUS
  <1> USE SeqsRange DEF Init, NetworkInit, SendInit, ReceiveInit
  <1>1. TypeOK
    BY WindowTypes, ReceiveAssumption
    DEF TypeOK, NetworkTypeOK, SendTypeOK, ReceiveTypeOK, Outcomes
  <1>2. OwedIsOutstanding /\ HeadMeansSettled /\ NothingSkipped /\ AckedImpliesArrived
    BY DEF OwedIsOutstanding, HeadMeansSettled, NothingSkipped, AckedImpliesArrived
  <1>3. Causal
    BY DEF Causal, Seqs
  <1>4. CumulativeAcksTrue
    BY WindowTypes, SMTT(30) DEF CumulativeAcksTrue
  <1>5. QED
    BY <1>1, <1>2, <1>3, <1>4 DEF Inv

\* Every step of the two halves and of the network keeps the invariant.
LEMMA InvStep == Inv /\ [Next]_vars => Inv'
  <1> SUFFICES ASSUME Inv, [Next]_vars PROVE Inv'
    OBVIOUS
  <1>0. TypeOK'
    BY TypeStep DEF Inv
  <1>1. CASE SendNext /\ UNCHANGED recvVars
    BY <1>0, <1>1, SendStep
  <1>2. CASE ReceiveNext /\ UNCHANGED sendVars
    BY <1>0, <1>2, ReceiveStep
  <1>3. ASSUME UNCHANGED <<sendVars, recvVars>>, packs' \subseteq packs, acks' \subseteq acks
        PROVE  Inv'
    <2>1. OwedIsOutstanding' /\ NothingSkipped' /\ AckedImpliesArrived'
      BY <1>3 DEF Inv, OwedIsOutstanding, NothingSkipped, AckedImpliesArrived,
                  Arrived, sendVars, itemVars, recvVars
    <2>2. Causal' /\ HeadMeansSettled'
      BY <1>3 DEF Inv, Causal, HeadMeansSettled, sendVars, itemVars, recvVars
    <2>3. CumulativeAcksTrue'
      BY <1>3 DEF Inv, CumulativeAcksTrue, Accounted, Arrived, sendVars, itemVars, recvVars
    <2>4. QED
      BY <1>0, <2>1, <2>2, <2>3 DEF Inv
  <1>4. CASE NetworkNext /\ UNCHANGED <<sendVars, recvVars>>
    BY <1>3, <1>4 DEF NetworkNext, LosePack, LoseAck
  <1>5. CASE UNCHANGED vars
    BY <1>3, <1>5 DEF vars, netVars
  <1>6. QED
    BY <1>1, <1>2, <1>4, <1>5 DEF Next

\* The inductive invariant: head packs and cumulative acks are truthful, and the
\* sender knows which callbacks it owes.
THEOREM Invariance == Spec => []Inv
  BY InvInit, InvStep, PTL DEF Spec

\* A callback called with nil means that receiveHead took the item: the receive
\* callback got it, or the encryption policy discarded it, which it may do only to an
\* item that can come unwrapped.
THEOREM AckedHasArrived == Spec => []AckedImpliesArrived
  <1>1. Inv => AckedImpliesArrived
    BY DEF Inv
  <1>2. QED
    BY <1>1, Invariance, PTL

\* The delivery point passes no item that receiveHead did not take and that was not
\* reported failed.
THEOREM NoItemSkipped == Spec => []NothingSkipped
  <1>1. Inv => NothingSkipped
    BY DEF Inv
  <1>2. QED
    BY <1>1, Invariance, PTL

\* A head pack in flight says truly that everything before it is settled.
THEOREM HeadsTruthful == Spec => []HeadMeansSettled
  <1>1. Inv => HeadMeansSettled
    BY DEF Inv
  <1>2. QED
    BY <1>1, Invariance, PTL

\* A cumulative ack, wherever it is, covers only items that are accounted for.
THEOREM AcksTruthful == Spec => []CumulativeAcksTrue
  <1>1. Inv => CumulativeAcksTrue
    BY DEF Inv
  <1>2. QED
    BY <1>1, Invariance, PTL

\* The queues agree, and exactly the outstanding items are owed a callback.
THEOREM OwedCallbacks == Spec => []OwedIsOutstanding
  <1>1. Inv => OwedIsOutstanding
    BY DEF Inv
  <1>2. QED
    BY <1>1, Invariance, PTL

-----------------------------------------------------------------------------
(* The sequence implements the service its users see: under the mapping of *)
(* Transfer!Service, every step is a step of TransferService or changes    *)
(* nothing its users see.                                                  *)

\* The sender's and the receiver's bookkeeping that the service's users do not see.
LEMMA ServiceStutter ==
    ASSUME UNCHANGED <<nextSeq, outcome, received, discarded, rNext>>
    PROVE  UNCHANGED Service!svcVars
  BY DEF Service!svcVars

\* Calling the callbacks of unsettled items is a report of the service, if those
\* reported acked arrived.
LEMMA SettleIsReport ==
    ASSUME NEW S \in SUBSET Seqs, NEW result \in {"acked", "failed"},
           \A j \in S : outcome[j] = "none",
           result = "acked" => S \subseteq Arrived,
           Settle(S, result),
           UNCHANGED <<nextSeq, received, discarded, rNext>>
    PROVE  Service!Next
  <1>1. Service!Report(S, result)
    BY DEF Service!Report, Settle, Arrived
  <1>2. QED
    BY <1>1 DEF Service!Next

\* Taking an item is a receive or a discard of the service, if what lies between it and the
\* delivery point is accounted for.
LEMMA DeliveryIsTake ==
    ASSUME NEW i \in Seqs, rNext \in Int, rNext <= i, i < nextSeq,
           \A j \in 0 .. i - 1 : Accounted(j),
           ReceiveHead(i), rNext' = i + 1,
           UNCHANGED <<nextSeq, outcome>>
    PROVE  Service!Next
  <1> USE SeqsRange
  <1>1. \A j \in Seqs : j < i => j \in received \cup discarded \/ outcome[j] = "failed"
    BY DEF Accounted, Arrived
  <1>2. Service!Takes(i)
    BY <1>1 DEF Service!Takes
  <1>3. Service!Receive(i) \/ Service!Discard(i)
    BY <1>2, Zenon DEF ReceiveHead, Service!Receive, Service!Discard
  <1>4. QED
    BY <1>3 DEF Service!Next

\* A step of the send half is a step of the service, or invisible.
LEMMA SendRefines ==
    ASSUME Inv, SendNext, UNCHANGED recvVars
    PROVE  Service!Next \/ UNCHANGED Service!svcVars
  <1> USE SeqsRange
  <1>0. UNCHANGED <<received, discarded, rNext>> /\ nextSeq \in 0 .. N
    BY DEF recvVars, Inv, TypeOK, SendTypeOK
  <1>1. CASE SendWrite
    <2>1. Service!Accept
      BY <1>0, <1>1 DEF SendWrite, Service!Accept, Seqs
    <2>2. QED
      BY <2>1 DEF Service!Next
  <1>2. ASSUME NEW retain \in RetainRequests, SendAdd(retain)
        PROVE  UNCHANGED Service!svcVars
    BY <1>0, <1>2, ServiceStutter DEF SendAdd
  <1>3. ASSUME Idle, NEW S \in SUBSET (nextSeq .. N - 1), Teardown(S)
        PROVE  Service!Next
    <2>1. \A j \in resendQueue \cup S : j \in Seqs /\ outcome[j] = "none"
      <3>1. \A j \in S : j \in Seqs /\ outcome[j] = "none"
        BY <1>0, <1>3 DEF Inv, Causal, Idle, Seqs
      <3>2. QED
        BY <1>3, <3>1, IdleOwed, Zenon
    <2>2. Settle(resendQueue \cup S, "failed") /\ UNCHANGED nextSeq
      BY <1>3 DEF Teardown
    <2>3. QED
      BY <1>0, <2>1, <2>2, SettleIsReport
  <1>4. CASE SendNoContract
    <2>1. Idle /\ nextSeq < N /\ Teardown({nextSeq})
      BY <1>4 DEF SendNoContract
    <2>2. {nextSeq} \in SUBSET (nextSeq .. N - 1)
      BY <1>0, <2>1
    <2>3. QED
      BY <1>3, <2>1, <2>2
  <1>5. ASSUME NEW i \in Seqs, ResendWrite(i)
        PROVE  UNCHANGED Service!svcVars
    BY <1>0, <1>5, ServiceStutter DEF ResendWrite
  <1>6. CASE ResendAdd
    BY <1>0, <1>6, ServiceStutter DEF ResendAdd
  <1>7. ASSUME NEW a \in acks, ReceiveAckMessage(a)
        PROVE  UNCHANGED Service!svcVars
    BY <1>0, <1>7, ServiceStutter DEF ReceiveAckMessage, itemVars
  <1>8. CASE ApplyAcks
    <2> DEFINE hit == sendWindow.updated /\ sendWindow.head \in resendQueue
               walked == {j \in sendItems : hit /\ j <= sendWindow.head}
               acked == walked \cap resendQueue
    <2>1. Idle /\ Settle(acked, "acked") /\ UNCHANGED nextSeq
      BY <1>8 DEF ApplyAcks
    <2>2. acked \in SUBSET Seqs /\ \A j \in acked : outcome[j] = "none"
      BY <2>1, IdleOwed
    <2>3. acked \subseteq Arrived
      <3>1. ASSUME NEW j \in acked
            PROVE  j \in Arrived
        <4>1. j \in 0 .. sendWindow.head
          BY <2>2 DEF Inv, TypeOK, SendTypeOK, AckWindows
        <4>2. Accounted(j) /\ outcome[j] = "none"
          BY <2>2, <4>1 DEF Inv, CumulativeAcksTrue
        <4>3. QED
          BY <4>2 DEF Accounted
      <3>2. QED
        BY <3>1
    <2> HIDE DEF acked
    <2>4. QED
      BY <1>0, <2>1, <2>2, <2>3, SettleIsReport, Zenon
  <1>9. ASSUME NEW i \in Seqs, BackstopDrop(i)
        PROVE  Service!Next
    <2> DEFINE dropped == {j \in resendQueue : Retained(j) /\ j <= i}
    <2>1. Idle /\ Settle(dropped, "failed") /\ UNCHANGED nextSeq
      BY <1>9 DEF BackstopDrop
    <2>2. dropped \in SUBSET Seqs /\ \A j \in dropped : outcome[j] = "none"
      BY <2>1, IdleOwed
    <2> HIDE DEF dropped
    <2>3. QED
      BY <1>0, <2>1, <2>2, SettleIsReport
  <1>10. CASE SendExit
    <2>1. {} \in SUBSET (nextSeq .. N - 1)
      OBVIOUS
    <2>2. QED
      BY <1>3, <1>10, <2>1 DEF SendExit
  <1>11. QED
    BY <1>1, <1>2, <1>4, <1>5, <1>6, <1>7, <1>8, <1>9, <1>10 DEF SendNext

\* A step of the receive half is a step of the service, or invisible.
LEMMA ReceiveRefines ==
    ASSUME Inv, ReceiveNext, UNCHANGED sendVars
    PROVE  Service!Next \/ UNCHANGED Service!svcVars
  <1> USE SeqsRange
  <1>0. /\ UNCHANGED <<nextSeq, outcome>>
        /\ rNext \in 0 .. N
        /\ held \subseteq Seqs /\ held \subseteq 0 .. nextSeq - 1
        /\ \A j \in 0 .. rNext - 1 : Accounted(j)
    BY DEF sendVars, itemVars, Inv, TypeOK, ReceiveTypeOK, Causal, NothingSkipped,
           Accounted
  <1>1. ASSUME NEW m \in packs, ReceivePack(m)
        PROVE  Service!Next \/ UNCHANGED Service!svcVars
    <2>1. CASE ReceiveInOrder(m)
      <3>1. m.seq \in Seqs /\ m.seq < nextSeq
        BY DEF Inv, TypeOK, NetworkTypeOK, Packs, Causal
      <3>2. /\ m.seq = NextFor(m) /\ rNext <= m.seq
            /\ ReceiveHead(m.seq) /\ rNext' = m.seq + 1
        <4>1. /\ m.seq = NextFor(m)
              /\ ReceiveHead(m.seq) /\ rNext' = m.seq + 1
          BY <2>1 DEF ReceiveInOrder
        <4>2. rNext \in Int /\ m.seq \in Int
          <5>1. rNext \in Int
            BY <1>0
          <5>2. m.seq \in Int
            BY <3>1, Zenon
          <5>3. QED
            BY <5>1, <5>2
        <4>3. CASE m.head /\ rNext < m.seq
          BY <4>1, <4>2, <4>3
        <4>4. CASE ~(m.head /\ rNext < m.seq)
          <5>1. NextFor(m) = rNext
            BY <4>4 DEF NextFor
          <5>2. QED
            BY <4>1, <4>2, <5>1
        <4>5. QED
          BY <4>3, <4>4
      <3>3. \A j \in 0 .. m.seq - 1 : Accounted(j)
        BY <3>2, NextForAccounted, SMTT(30)
      <3>4. rNext \in Int
        BY <1>0
      <3>5. QED
        BY <1>0, <3>1, <3>2, <3>3, <3>4, DeliveryIsTake, Zenon
    <2>2. CASE ReceivePast(m) \/ ReceiveLater(m)
      BY <1>0, <2>2, ServiceStutter DEF ReceivePast, ReceiveLater
    <2>3. QED
      BY <1>1, <2>1, <2>2 DEF ReceivePack
  <1>2. CASE DrainHeld
    <2>1. PICK h \in held :
              /\ h <= rNext
              /\ IF h = rNext THEN rNext' = rNext + 1 /\ ReceiveHead(h)
                              ELSE UNCHANGED <<rNext, received, discarded>>
      BY <1>2, Zenon DEF DrainHeld
    <2>2. CASE h = rNext
      <3>1. h \in Seqs /\ h < nextSeq
        BY <1>0, SeqsRange DEF Inv, TypeOK, SendTypeOK
      <3>2. QED
        BY <1>0, <2>1, <2>2, <3>1, DeliveryIsTake
    <2>3. CASE h # rNext
      BY <1>0, <2>1, <2>3, ServiceStutter
    <2>4. QED
      BY <2>2, <2>3
  <1>3. ASSUME NEW lost \in SUBSET SnapshotAcks(recvWindow), WriteAcks(lost)
        PROVE  UNCHANGED Service!svcVars
    BY <1>0, <1>3, ServiceStutter DEF WriteAcks
  <1>4. CASE ReceiveExit
    <2>1. Service!Replace
      BY <1>0, <1>4 DEF ReceiveExit, Service!Replace
    <2>2. QED
      BY <2>1 DEF Service!Next
  <1>5. QED
    BY <1>1, <1>2, <1>3, <1>4 DEF ReceiveNext

\* Every step of the sequence is a step of the service, or invisible to its users.
LEMMA RefinementStep ==
    Inv /\ [Next]_vars => [Service!Next]_(Service!svcVars)
  <1> SUFFICES ASSUME Inv, [Next]_vars
               PROVE  Service!Next \/ UNCHANGED Service!svcVars
    OBVIOUS
  <1>1. CASE SendNext /\ UNCHANGED recvVars
    BY <1>1, SendRefines
  <1>2. CASE ReceiveNext /\ UNCHANGED sendVars
    BY <1>2, ReceiveRefines
  <1>3. CASE UNCHANGED <<sendVars, recvVars>>
    BY <1>3, ServiceStutter DEF sendVars, itemVars, recvVars
  <1>4. QED
    BY <1>1, <1>2, <1>3 DEF Next, vars

\* The sequence implements its service: items are taken in order, none is missed but
\* those reported failed, every callback is called at most once, and with nil only
\* for an item that was received or that the encryption policy discarded.
THEOREM Refinement == Spec => ImplementsService
  <1>1. Init => Service!Init
    BY DEF Init, SendInit, ReceiveInit, Service!Init
  <1>2. QED
    BY <1>1, RefinementStep, Invariance, PTL DEF Spec, ImplementsService, Service!Spec
=============================================================================
