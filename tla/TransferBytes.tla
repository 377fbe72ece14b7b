--------------------------- MODULE TransferBytes ---------------------------
(***************************************************************************)
(* The byte counts of one transfer sequence.  The sender's two counters    *)
(* are the sums they stand for.  What the receiver's hold has acked it     *)
(* keeps: under the refuse policy always, under the committed-prefix       *)
(* policy for frames of one size, whose commit boundary is exact.          *)
(***************************************************************************)
EXTENDS TransferProofs, DataTheorems

USE DEF NoAck, None

-----------------------------------------------------------------------------
(* The sender's counters.                                                  *)

\* Sets of sequence numbers are finite.
LEMMA SeqsFinite ==
    /\ IsFiniteSet(Seqs)
    /\ \A S \in SUBSET Seqs : IsFiniteSet(S)
  <1>1. IsFiniteSet(Seqs)
    <2>1. 0 \in Int /\ N - 1 \in Int
      BY NetworkAssumption
    <2>2. QED
      BY <2>1, FS_Interval DEF Seqs
  <1>2. QED
    BY <1>1, FS_Subset

\* What a sum over sequence numbers becomes with one item more, with some items
\* fewer, and for a function that differs elsewhere only.
LEMMA SeqSums ==
    ASSUME NEW f, \A i \in Seqs : f[i] \in Nat, NEW S \in SUBSET Seqs
    PROVE  /\ SumFunctionOnSet(f, {}) = 0
           /\ SumFunctionOnSet(f, S) \in Nat
           /\ \A i \in Seqs \ S :
                  SumFunctionOnSet(f, S \cup {i}) = SumFunctionOnSet(f, S) + f[i]
           /\ \A i \in S : SumFunctionOnSet(f, S \ {i}) = SumFunctionOnSet(f, S) - f[i]
           /\ \A R \in SUBSET S :
                  /\ SumFunctionOnSet(f, R) \in Nat
                  /\ SumFunctionOnSet(f, S \ R)
                       = SumFunctionOnSet(f, S) - SumFunctionOnSet(f, R)
           /\ \A g : (\A i \in S : f[i] = g[i]) =>
                         SumFunctionOnSet(f, S) = SumFunctionOnSet(g, S)
  <1>1. \A T \in SUBSET Seqs : IsFiniteSet(T) /\ SumFunctionOnSet(f, T) \in Nat
    <2>1. ASSUME NEW T \in SUBSET Seqs
          PROVE  IsFiniteSet(T) /\ \A i \in T : f[i] \in Nat
      BY SeqsFinite
    <2>2. QED
      BY <2>1, SumType
  <1>2. ASSUME NEW i \in Seqs \ S
        PROVE  SumFunctionOnSet(f, S \cup {i}) = SumFunctionOnSet(f, S) + f[i]
    <2>1. IsFiniteSet(S) /\ i \notin S /\ \A j \in S \cup {i} : f[j] \in Nat
      BY <1>1
    <2>2. SumFunctionOnSet(f, S \cup {i}) = f[i] + SumFunctionOnSet(f, S)
      BY <2>1, SumAdd
    <2>3. SumFunctionOnSet(f, S) \in Nat /\ f[i] \in Nat
      BY <1>1
    <2>4. QED
      BY <2>2, <2>3
  <1>3. IsFiniteSet(S) /\ \A j \in S : f[j] \in Nat
    BY <1>1
  <1>4. ASSUME NEW R \in SUBSET S
        PROVE  SumFunctionOnSet(f, S \ R)
                 = SumFunctionOnSet(f, S) - SumFunctionOnSet(f, R)
    <2>1. SumFunctionOnSet(f, S) = SumFunctionOnSet(f, R) + SumFunctionOnSet(f, S \ R)
      BY <1>3, SumSplit
    <2>2. R \in SUBSET Seqs /\ S \ R \in SUBSET Seqs
      OBVIOUS
    <2>3. SumFunctionOnSet(f, R) \in Nat /\ SumFunctionOnSet(f, S \ R) \in Nat
      BY <1>1, <2>2
    <2>4. QED
      BY <2>1, <2>3
  <1>5. ASSUME NEW i \in S
        PROVE  SumFunctionOnSet(f, S \ {i}) = SumFunctionOnSet(f, S) - f[i]
    <2>1. SumFunctionOnSet(f, S) = f[i] + SumFunctionOnSet(f, S \ {i})
      BY <1>3, SumRemove
    <2>2. SumFunctionOnSet(f, S \ {i}) \in Nat /\ f[i] \in Nat
      BY <1>1
    <2>3. QED
      BY <2>1, <2>2
  <1>6. ASSUME NEW g, \A i \in S : f[i] = g[i]
        PROVE  SumFunctionOnSet(f, S) = SumFunctionOnSet(g, S)
    BY <1>3, <1>6, SumSame
  <1>7. QED
    BY <1>1, <1>2, <1>4, <1>5, <1>6, SumEmpty

\* The queue's bytes, over a set of items and over the heads among them: one item
\* more, some items fewer, and other items promoted to head.
LEMMA WireSizesFacts ==
    ASSUME NEW S \in SUBSET Seqs, NEW heads
    PROVE  /\ WireSizes({}, heads) = 0
           /\ WireSizes(S, heads) \in Nat
           /\ \A i \in Seqs \ S :
                  WireSizes(S \cup {i}, heads) = WireSizes(S, heads) + WireSize(i, heads)
           /\ \A i \in S :
                  WireSizes(S \ {i}, heads) = WireSizes(S, heads) - WireSize(i, heads)
           /\ \A R \in SUBSET S :
                  WireSizes(S \ R, heads) = WireSizes(S, heads) - WireSizes(R, heads)
           /\ \A more : (\A i \in S : i \in heads <=> i \in more) =>
                            WireSizes(S, heads) = WireSizes(S, more)
  <1> DEFINE f == [i \in Seqs |-> WireSize(i, heads)]
  <1>1. \A i \in Seqs : f[i] = WireSize(i, heads) /\ f[i] \in Nat
    BY WireSizeType
  <1>2. \A T : WireSizes(T, heads) = SumFunctionOnSet(f, T)
    BY DEF WireSizes
  <1> HIDE DEF f
  <1>3. ASSUME NEW more, \A i \in S : i \in heads <=> i \in more
        PROVE  WireSizes(S, heads) = WireSizes(S, more)
    <2> DEFINE g == [i \in Seqs |-> WireSize(i, more)]
    <2>1. \A i \in S : f[i] = g[i]
      BY <1>1, <1>3 DEF WireSize
    <2>2. WireSizes(S, more) = SumFunctionOnSet(g, S)
      BY DEF WireSizes
    <2> HIDE DEF g
    <2>3. SumFunctionOnSet(f, S) = SumFunctionOnSet(g, S)
      BY <1>1, <2>1, SeqSums
    <2>4. QED
      BY <1>2, <2>2, <2>3
  <1>4. QED
    BY <1>1, <1>2, <1>3, SeqSums

\* Items that leave resendQueue, acked or dropped, take their bytes and their
\* charges with them.
LEMMA DiscardKeepsCounts ==
    ASSUME Inv, ByteCountsExact, Idle, NEW S \in SUBSET resendQueue,
           Discard(S), sendItems' = sendItems \ S
    PROVE  ByteCountsExact'
  <1>1. sendItems = resendQueue /\ resendQueue \in SUBSET Seqs /\ retainedCharge \in [Seqs -> Nat]
    BY IdleOwed DEF Inv, TypeOK, SendTypeOK
  <1>2. /\ resendQueue' = resendQueue \ S
        /\ resendByteCount' = resendByteCount - WireSizes(S, headItems)
        /\ retainedByteCount' = retainedByteCount - Charges(S)
        /\ retainedCharge' = [i \in Seqs |-> IF i \in S THEN 0 ELSE retainedCharge[i]]
        /\ headItems' = headItems \ S
    BY DEF Discard
  <1>3. resendByteCount' = WireSizes(resendQueue', headItems')
    <2>1. WireSizes(resendQueue \ S, headItems) = WireSizes(resendQueue, headItems) - WireSizes(S, headItems)
      BY <1>1, WireSizesFacts, ZenonT(30)
    <2>2. WireSizes(resendQueue \ S, headItems) = WireSizes(resendQueue \ S, headItems \ S)
      <3>1. resendQueue \ S \in SUBSET Seqs
        BY <1>1
      <3>2. \A i \in resendQueue \ S : i \in headItems <=> i \in headItems \ S
        OBVIOUS
      <3>3. \A more : (\A i \in resendQueue \ S : i \in headItems <=> i \in more) =>
                         WireSizes(resendQueue \ S, headItems)
                           = WireSizes(resendQueue \ S, more)
        BY <3>1, WireSizesFacts, ZenonT(30)
      <3>4. QED
        BY <3>2, <3>3, Zenon
    <2>3. QED
      BY <1>2, <2>1, <2>2 DEF ByteCountsExact
  <1>4. /\ SumFunctionOnSet(retainedCharge, S) \in Nat
        /\ SumFunctionOnSet(retainedCharge, sendItems) \in Nat
        /\ SumFunctionOnSet(retainedCharge, sendItems \ S)
             = SumFunctionOnSet(retainedCharge, sendItems)
                 - SumFunctionOnSet(retainedCharge, S)
        /\ SumFunctionOnSet(retainedCharge, sendItems \ S)
             = SumFunctionOnSet(retainedCharge', sendItems \ S)
    <2>1. \A i \in Seqs : retainedCharge[i] \in Nat
      BY <1>1
    <2>2. sendItems \in SUBSET Seqs /\ sendItems \ S \in SUBSET Seqs /\ S \in SUBSET sendItems
      BY <1>1
    <2>3. \A i \in sendItems \ S : retainedCharge[i] = retainedCharge'[i]
      BY <1>2, <2>2
    <2>4. QED
      BY <2>1, <2>2, <2>3, SeqSums
  <1>5. retainedByteCount' = Charges(sendItems)' /\ retainedByteCount' <= RetainCap
    <2>1. RetainCap \in Nat
      BY SendAssumption DEF RetainCap
    <2>2. /\ Charges(S) = SumFunctionOnSet(retainedCharge, S)
          /\ Charges(sendItems) = SumFunctionOnSet(retainedCharge, sendItems)
          /\ Charges(sendItems)' = SumFunctionOnSet(retainedCharge', sendItems \ S)
      BY DEF Charges
    <2>3. QED
      BY <1>2, <1>4, <2>1, <2>2 DEF ByteCountsExact
  <1>6. RetainCap' = RetainCap /\ WireSizes(resendQueue, headItems)' = WireSizes(resendQueue', headItems')
    BY DEF RetainCap, WireSizes, WireSize
  <1>7. QED
    BY <1>3, <1>5, <1>6 DEF ByteCountsExact

\* A step of the send half leaves the counters exact.
LEMMA SendKeepsCounts ==
    ASSUME Inv, ByteCountsExact, SendNext
    PROVE  ByteCountsExact'
  <1> USE SeqsRange
  <1>0. /\ sendItems \in SUBSET Seqs /\ resendQueue \in SUBSET Seqs
        /\ retainedCharge \in [Seqs -> Nat]
        /\ inHand \in Seqs \cup {-1}
        /\ sendItems \ {inHand} = resendQueue
        /\ resendQueue \subseteq 0 .. nextSeq - 1 /\ nextSeq \in 0 .. N
        /\ RetainCap \in Nat
        /\ retainedByteCount = SumFunctionOnSet(retainedCharge, sendItems)
        /\ retainedByteCount \in Nat /\ retainedByteCount <= RetainCap
        /\ resendByteCount = WireSizes(resendQueue, headItems)
        /\ resendByteCount \in Nat
    <2>1. /\ sendItems \in SUBSET Seqs /\ resendQueue \in SUBSET Seqs
          /\ retainedCharge \in [Seqs -> Nat]
          /\ inHand \in Seqs \cup {-1}
          /\ sendItems \ {inHand} = resendQueue
          /\ nextSeq \in 0 .. N
      BY DEF Inv, TypeOK, SendTypeOK, OwedIsOutstanding
    <2>2. resendQueue \subseteq 0 .. nextSeq - 1
      BY DEF Inv, Causal
    <2>3. RetainCap \in Nat
      BY SendAssumption DEF RetainCap
    <2>4. /\ retainedByteCount = SumFunctionOnSet(retainedCharge, sendItems)
          /\ retainedByteCount <= RetainCap
          /\ resendByteCount = WireSizes(resendQueue, headItems)
      BY DEF ByteCountsExact, Charges
    <2>5. \A i \in Seqs : retainedCharge[i] \in Nat
      BY <2>1
    <2>6. retainedByteCount \in Nat
      BY <2>1, <2>4, <2>5, SeqSums
    <2>7. resendByteCount \in Nat
      BY <2>1, <2>4, WireSizesFacts
    <2>8. QED
      BY <2>1, <2>2, <2>3, <2>4, <2>6, <2>7, Zenon
  <1>1. ASSUME retainedByteCount' = SumFunctionOnSet(retainedCharge', sendItems'),
               retainedByteCount' <= RetainCap,
               resendByteCount' = WireSizes(resendQueue', headItems')
        PROVE  ByteCountsExact'
    <2>1. /\ RetainCap' = RetainCap
          /\ WireSizes(resendQueue, headItems)' = WireSizes(resendQueue', headItems')
          /\ Charges(sendItems)' = SumFunctionOnSet(retainedCharge', sendItems')
      BY DEF RetainCap, WireSizes, WireSize, Charges
    <2>2. QED
      BY <1>1, <2>1 DEF ByteCountsExact
  <1>2. CASE SendWrite
    <2>1. /\ nextSeq \notin resendQueue
          /\ headItems' \in {headItems, headItems \cup {nextSeq}}
          /\ UNCHANGED <<sendItems, resendQueue, resendByteCount, retainedCharge,
                         retainedByteCount>>
      BY <1>0, <1>2 DEF SendWrite
    <2>2. \A i \in resendQueue : i \in headItems <=> i \in headItems'
      BY <2>1
    <2>3. WireSizes(resendQueue, headItems) = WireSizes(resendQueue, headItems')
      <3>1. \A more : (\A i \in resendQueue : i \in headItems <=> i \in more) =>
                          WireSizes(resendQueue, headItems) = WireSizes(resendQueue, more)
        BY <1>0, WireSizesFacts
      <3>2. QED
        BY <2>2, <3>1, Zenon
    <2>4. QED
      BY <1>0, <1>1, <2>1, <2>3
  <1>3. ASSUME NEW retain \in RetainRequests, SendAdd(retain)
        PROVE  ByteCountsExact'
    <2> DEFINE size == WireSize(inHand, headItems)
               charge == IF retain /\ retainedByteCount + size <= RetainCap
                         THEN size ELSE 0
    <2>0. inHand \in Seqs \ resendQueue /\ inHand \notin sendItems
      <3>1. inHand # None /\ inHand \notin sendItems
        BY <1>3, Zenon DEF SendAdd
      <3>2. QED
        BY <1>0, <3>1
    <2>1. /\ inHand \in Seqs /\ inHand \notin sendItems /\ inHand \notin resendQueue
          /\ retainedCharge' = [retainedCharge EXCEPT ![inHand] = charge]
          /\ retainedByteCount' = retainedByteCount + charge
          /\ resendByteCount' = resendByteCount + size
          /\ sendItems' = sendItems \cup {inHand}
          /\ resendQueue' = resendQueue \cup {inHand}
          /\ headItems' = headItems
      BY <1>3, <2>0, Zenon DEF SendAdd
    <2>2. size \in Nat /\ charge \in Nat
          /\ retainedByteCount + charge <= RetainCap
      BY <1>0, <2>1, WireSizeType
    <2>3. \A i \in Seqs : retainedCharge'[i] \in Nat
      BY <1>0, <2>1, <2>2
    <2>4. retainedCharge'[inHand] = charge
          /\ \A i \in sendItems : retainedCharge[i] = retainedCharge'[i]
      BY <1>0, <2>1
    <2> HIDE DEF size, charge
    <2>5. SumFunctionOnSet(retainedCharge, sendItems)
            = SumFunctionOnSet(retainedCharge', sendItems)
      <3>1. \A i \in Seqs : retainedCharge[i] \in Nat
        BY <1>0
      <3>2. QED
        BY <1>0, <2>4, <3>1, SeqSums
    <2>6. SumFunctionOnSet(retainedCharge', sendItems \cup {inHand})
            = SumFunctionOnSet(retainedCharge', sendItems) + charge
      BY <1>0, <2>1, <2>3, <2>4, SeqSums, ZenonT(30)
    <2>7. WireSizes(resendQueue \cup {inHand}, headItems)
            = WireSizes(resendQueue, headItems) + size
      BY <1>0, <2>0, WireSizesFacts, Zenon DEF size
    <2>8. QED
      BY <1>0, <1>1, <2>1, <2>2, <2>5, <2>6, <2>7
  <1>4. ASSUME NEW S, Teardown(S)
        PROVE  ByteCountsExact'
    <2>1. /\ sendItems' = {} /\ resendQueue' = {}
          /\ resendByteCount' = 0 /\ retainedByteCount' = 0
      BY <1>4 DEF Teardown
    <2>2. SumFunctionOnSet(retainedCharge', {}) = 0
      BY SumEmpty
    <2>3. WireSizes({}, headItems') = 0
      BY WireSizesFacts
    <2>4. QED
      BY <1>0, <1>1, <2>1, <2>2, <2>3
  <1>5. ASSUME NEW i \in Seqs, ResendWrite(i)
        PROVE  ByteCountsExact'
    <2>1. /\ i \in resendQueue
          /\ resendQueue' = resendQueue \ {i}
          /\ resendByteCount' = resendByteCount - WireSize(i, headItems)
          /\ headItems' \in {headItems, headItems \cup {i}}
          /\ UNCHANGED <<sendItems, retainedCharge, retainedByteCount>>
      BY <1>5 DEF ResendWrite
    <2>2. WireSizes(resendQueue \ {i}, headItems)
            = WireSizes(resendQueue, headItems) - WireSize(i, headItems)
      BY <1>0, <2>1, WireSizesFacts, ZenonT(30)
    <2>3. WireSizes(resendQueue \ {i}, headItems) = WireSizes(resendQueue \ {i}, headItems')
      <3>1. resendQueue \ {i} \in SUBSET Seqs
        BY <1>0
      <3>2. \A more : (\A j \in resendQueue \ {i} : j \in headItems <=> j \in more) =>
                          WireSizes(resendQueue \ {i}, headItems)
                            = WireSizes(resendQueue \ {i}, more)
        BY <3>1, WireSizesFacts, ZenonT(30)
      <3>3. \A j \in resendQueue \ {i} : j \in headItems <=> j \in headItems'
        BY <2>1
      <3>4. QED
        BY <3>2, <3>3, Zenon
    <2>4. QED
      BY <1>0, <1>1, <2>1, <2>2, <2>3
  <1>6. CASE ResendAdd
    <2>1. /\ inHand \in Seqs /\ inHand \notin resendQueue
          /\ resendQueue' = resendQueue \cup {inHand}
          /\ resendByteCount' = resendByteCount + WireSize(inHand, headItems)
          /\ UNCHANGED <<sendItems, headItems, retainedCharge, retainedByteCount>>
      BY <1>0, <1>6 DEF ResendAdd
    <2>2. WireSizes(resendQueue \cup {inHand}, headItems)
            = WireSizes(resendQueue, headItems) + WireSize(inHand, headItems)
      <3>1. inHand \in Seqs \ resendQueue
        BY <2>1
      <3>2. QED
        BY <1>0, <3>1, WireSizesFacts, Zenon
    <2>3. QED
      BY <1>0, <1>1, <2>1, <2>2
  <1>7. ASSUME NEW a \in acks, ReceiveAckMessage(a)
        PROVE  ByteCountsExact'
    BY <1>0, <1>1, <1>7 DEF ReceiveAckMessage, itemVars
  <1>8. CASE ApplyAcks
    <2> DEFINE hit == sendWindow.updated /\ sendWindow.head \in resendQueue
               walked == {j \in sendItems : hit /\ j <= sendWindow.head}
               acked == walked \cap resendQueue
    <2>1. Idle /\ sendItems' = sendItems \ walked /\ Discard(acked)
      BY <1>8 DEF ApplyAcks
    <2>2. acked = walked /\ acked \in SUBSET resendQueue
      BY <2>1, IdleOwed
    <2> HIDE DEF acked, walked
    <2>3. QED
      BY <2>1, <2>2, DiscardKeepsCounts
  <1>9. ASSUME NEW i \in Seqs, BackstopDrop(i)
        PROVE  ByteCountsExact'
    <2> DEFINE dropped == {j \in resendQueue : Retained(j) /\ j <= i}
    <2>1. Idle /\ sendItems' = sendItems \ dropped /\ Discard(dropped)
      BY <1>9 DEF BackstopDrop
    <2>2. dropped \in SUBSET resendQueue
      OBVIOUS
    <2> HIDE DEF dropped
    <2>3. QED
      BY <2>1, <2>2, DiscardKeepsCounts
  <1>10. CASE SendNoContract \/ SendExit
    BY <1>4, <1>10 DEF SendNoContract, SendExit
  <1>11. QED
    BY <1>2, <1>3, <1>5, <1>6, <1>7, <1>8, <1>9, <1>10 DEF SendNext

\* The counters that admission and the retention cap read are the sums they stand
\* for in every reachable state, whatever the sizes: what setHead, acks, drops and
\* resends add and take back is the same.
THEOREM CountersExact == Spec => []ByteCountsExact
  <1>1. Init => ByteCountsExact
    <2> SUFFICES ASSUME Init PROVE ByteCountsExact
      OBVIOUS
    <2>1. /\ sendItems = {} /\ resendQueue = {}
          /\ resendByteCount = 0 /\ retainedByteCount = 0
      BY DEF Init, SendInit
    <2>2. Charges({}) = 0 /\ WireSizes({}, headItems) = 0
      BY SumEmpty, WireSizesFacts, ZenonT(30) DEF Charges
    <2>3. 0 <= RetainCap
      BY SendAssumption DEF RetainCap
    <2>4. QED
      BY <2>1, <2>2, <2>3 DEF ByteCountsExact
  <1>2. Inv /\ ByteCountsExact /\ [Next]_vars => ByteCountsExact'
    <2> SUFFICES ASSUME Inv, ByteCountsExact, [Next]_vars PROVE ByteCountsExact'
      OBVIOUS
    <2>1. CASE SendNext
      BY <2>1, SendKeepsCounts
    <2>2. CASE UNCHANGED sendVars
      BY <2>2 DEF sendVars, itemVars, ByteCountsExact, Charges, WireSizes, WireSize, RetainCap
    <2>3. QED
      BY <2>1, <2>2 DEF Next, vars
  <1>3. QED
    BY <1>1, <1>2, Invariance, PTL DEF Spec

-----------------------------------------------------------------------------
(* The receiver's hold, when the items have one size k.                    *)

\* Every item has the size k.
Uniform(k) == k \in Nat \ {0} /\ \A i \in Seqs : Size[i] = k

\* With items of size k, what the hold takes when everything from the delivery
\* point up to h is there.
Fits(k, h, next) == k * (h - next + 1) <= ReceiveQueueMax

\* Multiples of k add up, and keep the order of their factors.
LEMMA Multiples ==
    ASSUME NEW k \in Nat, NEW a \in Int, NEW b \in Int
    PROVE  /\ k * a \in Int
           /\ k * (a + b) = k * a + k * b
           /\ a * k = k * a
           /\ a <= b => k * a <= k * b
  <1>1. k * a \in Int /\ k * (a + b) = k * a + k * b /\ a * k = k * a
    OBVIOUS
  <1>2. a <= b => k * a <= k * b
    <2>1. b - a \in Int /\ k * (b - a) = k * b - k * a
      OBVIOUS
    <2>2. a <= b => 0 <= k * (b - a)
      OBVIOUS
    <2>3. k * a \in Int /\ k * b \in Int
      OBVIOUS
    <2>4. QED
      BY <2>1, <2>2, <2>3
  <1>3. QED
    BY <1>1, <1>2

\* The delivery point only rises, and with it the boundary.
LEMMA FitsRises ==
    ASSUME NEW k \in Nat, NEW h \in Int, NEW g \in Int, NEW next \in Int,
           NEW later \in Int, g <= h, next <= later, Fits(k, h, next)
    PROVE  Fits(k, g, later)
  <1> DEFINE a == g - later + 1
             b == h - next + 1
  <1>1. a \in Int /\ b \in Int /\ a <= b
    OBVIOUS
  <1>2. k * b <= ReceiveQueueMax
    BY DEF Fits
  <1> HIDE DEF a, b
  <1>3. k * a <= k * b /\ k * a \in Int /\ k * b \in Int
    BY <1>1, Multiples
  <1>4. k * a <= ReceiveQueueMax
    BY <1>2, <1>3, ReceiveAssumption
  <1>5. QED
    BY <1>4 DEF Fits, a

\* The bytes of items of one size.
LEMMA BytesUniform ==
    ASSUME NEW k, Uniform(k), NEW S \in SUBSET Seqs
    PROVE  /\ IsFiniteSet(S)
           /\ Cardinality(S) \in Nat
           /\ Bytes(S) = k * Cardinality(S)
  <1>1. IsFiniteSet(S) /\ k \in Nat /\ \A i \in S : Size[i] = k
    BY SeqsFinite DEF Uniform
  <1>2. Cardinality(S) \in Nat
    BY <1>1, FS_CardinalityType
  <1>3. Bytes(S) = k * Cardinality(S)
    BY <1>1, SumUniform DEF Bytes
  <1>4. QED
    BY <1>1, <1>2, <1>3

\* How many items lie between the delivery point, which is missing, and b.
LEMMA RoomBelow ==
    ASSUME NEW S \in SUBSET Seqs, NEW next \in Int, NEW b \in Int, next <= b,
           \A g \in S : next < g /\ g <= b
    PROVE  Cardinality(S) <= b - next
  <1>1. next + 1 \in Int /\ S \in SUBSET (next + 1 .. b)
    BY SeqsRange
  <1>2. IsFiniteSet(next + 1 .. b) /\ Cardinality(next + 1 .. b) = b - next
    <2>1. /\ IsFiniteSet(next + 1 .. b)
          /\ Cardinality(next + 1 .. b)
               = IF next + 1 > b THEN 0 ELSE b - (next + 1) + 1
      BY <1>1, FS_Interval
    <2>2. QED
      BY <2>1
  <1>3. Cardinality(S) <= Cardinality(next + 1 .. b)
    BY <1>1, <1>2, FS_Subset, ZenonT(30)
  <1>4. QED
    BY <1>2, <1>3

\* What commitHeldPrefix computes for a held item, when nothing is deliverable: the
\* missing items at the largest size seen and the held ones at their own make up
\* the whole range.
LEMMA ReachUniform ==
    ASSUME NEW k, Uniform(k), NEW S \in SUBSET Seqs, NEW next \in Int,
           \A g \in S : next < g, NEW h \in S
    PROVE  Reach(S, h, next, k) = k * (h - next + 1)
  <1> DEFINE upTo == {g \in S : g <= h}
             n == Cardinality(upTo)
             missing == h - next - (n - 1)
  <1>1. h \in Int /\ upTo \in SUBSET Seqs /\ \A g \in upTo : next < g /\ g <= h
    BY SeqsRange, ZenonT(30)
  <1>2. n \in Nat /\ Bytes(upTo) = k * n
    BY <1>1, BytesUniform
  <1>3. n <= h - next
    <2>1. next <= h
      BY <1>1
    <2> HIDE DEF upTo
    <2>2. QED
      BY <1>1, <2>1, RoomBelow
  <1>4. missing \in Int /\ 0 < missing /\ missing + n = h - next + 1
    <2> HIDE DEF n
    <2>1. QED
      BY <1>1, <1>2, <1>3
  <1>5. Reach(S, h, next, k) = missing * k + Bytes(upTo)
    <2>1. Reach(S, h, next, k) = (IF missing < 0 THEN 0 ELSE missing) * k + Bytes(upTo)
      BY DEF Reach
    <2> HIDE DEF missing, upTo
    <2>2. (IF missing < 0 THEN 0 ELSE missing) = missing
      BY <1>4
    <2>3. QED
      BY <2>1, <2>2
  <1>6. k * (missing + n) = k * missing + k * n /\ missing * k = k * missing
    <2> HIDE DEF missing, n
    <2>1. k \in Nat
      BY DEF Uniform
    <2>2. QED
      BY <1>2, <1>4, <2>1, Multiples
  <1> HIDE DEF missing, n, upTo
  <1>7. QED
    BY <1>2, <1>4, <1>5, <1>6

\* A hold that is not empty has a latest item.
LEMMA MaxMember ==
    ASSUME NEW S \in SUBSET Seqs, S # {}
    PROVE  Max(S) \in S /\ \A g \in S : g <= Max(S)
  <1> DEFINE Above(x) == {y \in S : x < y}
             B == {Above(x) : x \in S}
  <1>1. IsFiniteSet(S) /\ B \subseteq SUBSET S /\ B # {}
    BY SeqsFinite, ZenonT(30)
  <1>2. PICK T \in B : \A U \in B : U \subseteq T => U = T
    <2> HIDE DEF B
    <2>1. QED
      BY <1>1, LeastSet
  <1>3. PICK x \in S : T = Above(x)
    OBVIOUS
  <1>4. \A y \in S : x >= y
    <2> SUFFICES ASSUME NEW y \in S, x < y
                 PROVE  FALSE
      BY SeqsRange
    <2>1. Above(y) \subseteq Above(x) /\ y \in Above(x) /\ y \notin Above(y)
      <3>1. \A z \in S : z \in Int
        BY SeqsRange
      <3>2. \A z \in S : (y < z => x < z) /\ ~(y < y)
        BY <3>1
      <3>3. QED
        BY <3>2
    <2>2. Above(y) \in B
      OBVIOUS
    <2>3. QED
      BY <1>2, <1>3, <2>1, <2>2, ZenonT(30)
  <1>5. Max(S) \in S /\ \A y \in S : Max(S) >= y
    BY <1>4 DEF Max
  <1>6. QED
    BY <1>5, SeqsRange

\* commitHeldPrefix, by its fast path or by its scan, finds the held items up to
\* the boundary.
LEMMA CommitPrefixUniform ==
    ASSUME NEW k, Uniform(k), NEW S \in SUBSET Seqs, NEW next \in Int,
           \A g \in S : next < g
    PROVE  CommitPrefix(S, next, k) = {h \in S : Fits(k, h, next)}
  <1>1. \A h \in S : Reach(S, h, next, k) <= ReceiveQueueMax <=> Fits(k, h, next)
    BY ReachUniform DEF Fits
  <1>2. \A g, h \in S : g <= h /\ Fits(k, h, next) => Fits(k, g, next)
    <2> SUFFICES ASSUME NEW g \in S, NEW h \in S, g <= h, Fits(k, h, next)
                 PROVE  Fits(k, g, next)
      OBVIOUS
    <2>1. k \in Nat /\ g \in Int /\ h \in Int /\ next <= next
      BY SeqsRange DEF Uniform
    <2>2. QED
      BY <2>1, FitsRises
  <1>3. CASE S # {} /\ Reach(S, Max(S), next, k) <= ReceiveQueueMax
    <2>1. CommitPrefix(S, next, k) = S
      BY <1>3 DEF CommitPrefix
    <2>2. \A g \in S : Fits(k, g, next)
      BY <1>1, <1>2, <1>3, MaxMember
    <2>3. QED
      BY <2>1, <2>2
  <1>4. CASE ~(S # {} /\ Reach(S, Max(S), next, k) <= ReceiveQueueMax)
    <2>1. CommitPrefix(S, next, k)
            = {h \in S : \A g \in S : g <= h => Reach(S, g, next, k) <= ReceiveQueueMax}
      BY <1>4 DEF CommitPrefix
    <2>2. \A h \in S : h <= h
      BY SeqsRange
    <2>3. \A h \in S : (\A g \in S : g <= h => Reach(S, g, next, k) <= ReceiveQueueMax)
                         <=> Fits(k, h, next)
      BY <1>1, <1>2, <2>2, Zenon
    <2>4. QED
      BY <2>1, <2>3, Zenon
  <1>5. QED
    BY <1>3, <1>4

\* What the invariant of the hold says: the largest size seen is k once anything
\* was held, the committed items lie below the boundary and, while Run waits for a
\* pack, they are the held items that do, and an item that was acked selectively is
\* a committed one until it is delivered.
HoldInv(k) ==
    /\ maxHeld \in {0, k}
    /\ held # {} => maxHeld = k
    /\ \A h \in committed : Fits(k, h, rNext)
    /\ ~Deliverable(held, rNext) => \A h \in held : Fits(k, h, rNext) => h \in committed
    /\ \A i \in promised : i \in committed \/ i < rNext

\* The commit pass establishes the invariant, from committed items that are below
\* the boundary.
LEMMA CommitHeldUniform ==
    ASSUME NEW k, Uniform(k), HoldPolicy = "committedPrefix",
           NEW S \in SUBSET Seqs, NEW C \in SUBSET S, NEW next \in Int,
           NEW frame \in {0, k}, S # {} => frame = k, NEW window,
           \A h \in C : Fits(k, h, next),
           \A i \in promised : i \in C \/ i < next
                 \/ (i \in S /\ Fits(k, i, next) /\ ~Deliverable(S, next)),
           rNext' = next,
           CommitHeld(S, C, next, frame, window)
    PROVE  HoldInv(k)'
  <1> DEFINE frame1 == IF frame = 0 THEN 1 ELSE frame
             crossed == IF Deliverable(S, next) THEN {}
                        ELSE CommitPrefix(S, next, frame1) \ C
  <1>1. /\ held' = S /\ committed' = C \cup crossed /\ maxHeld' = frame
        /\ promised' = promised \cup crossed
    BY DEF CommitHeld
  <1>2. ~Deliverable(S, next) => CommitPrefix(S, next, frame1) = {h \in S : Fits(k, h, next)}
    <2> SUFFICES ASSUME ~Deliverable(S, next)
                 PROVE  CommitPrefix(S, next, frame1) = {h \in S : Fits(k, h, next)}
      OBVIOUS
    <2>1. \A g \in S : next < g
      BY SeqsRange DEF Deliverable
    <2>2. CASE S = {}
      <3>1. CommitPrefix(S, next, frame1) \subseteq S
        BY CommitPrefixSubset
      <3>2. QED
        BY <2>2, <3>1
    <2>3. CASE S # {}
      <3>1. frame1 = k
        BY <2>3 DEF Uniform
      <3>2. QED
        BY <2>1, <3>1, CommitPrefixUniform
    <2>4. QED
      BY <2>2, <2>3
  <1>3. /\ \A h \in crossed : h \in S /\ Fits(k, h, next)
        /\ ~Deliverable(S, next) => \A h \in S : Fits(k, h, next) => h \in C \cup crossed
    BY <1>2
  <1> HIDE DEF crossed
  <1>4. maxHeld' \in {0, k} /\ (held' # {} => maxHeld' = k)
    BY <1>1
  <1>5. \A h \in committed' : Fits(k, h, next)
    BY <1>1, <1>3
  <1>6. ~Deliverable(held', next) => \A h \in held' : Fits(k, h, next) => h \in committed'
    BY <1>1, <1>3, Zenon
  <1>7. \A i \in promised' : i \in committed' \/ i < next
    BY <1>1, <1>3, Zenon
  <1>8. /\ \A h : Fits(k, h, rNext)' = Fits(k, h, next)
        /\ Deliverable(held, rNext)' = Deliverable(held', next)
    BY DEF Fits, Deliverable
  <1>9. QED
    BY <1>4, <1>5, <1>6, <1>7, <1>8, Zenon DEF HoldInv

\* A copy of an item below the boundary always finds room: what is held below the
\* boundary leaves at least the delivery point itself free.
LEMMA RoomUniform ==
    ASSUME NEW k, Uniform(k), HoldPolicy = "committedPrefix",
           NEW S \in SUBSET Seqs, NEW C \in SUBSET S, NEW next \in Int,
           \A g \in S : next < g, \A g \in C : Fits(k, g, next),
           NEW i \in Seqs, i \notin S, next < i, Fits(k, i, next)
    PROVE  CanAdd(S \ Evicted(S, C, i), i)
  <1> DEFINE kept == S \ Evicted(S, C, i)
  <1>0. kept \in SUBSET S /\ kept \in SUBSET Seqs /\ i \notin kept
    BY DEF Evicted
  <1>1. SUFFICES ASSUME kept # {}, ~CanAdd(kept, i)
                 PROVE  FALSE
    BY DEF CanAdd
  <1> DEFINE h == Max(kept)
             upTo == {g \in S : g <= h}
  <1>2. h \in kept /\ \A g \in kept : g <= h
    BY <1>0, <1>1, MaxMember
  <1>3. upTo \in SUBSET Seqs /\ kept \in SUBSET upTo
    BY <1>0, <1>2
  <1>4. ~CanAdd(upTo, i)
    <2>1. Bytes(kept) <= Bytes(upTo) /\ Bytes(kept) \in Nat /\ Bytes(upTo) \in Nat
      <3>1. /\ IsFiniteSet(upTo) /\ k \in Nat
            /\ Cardinality(kept) \in Nat /\ Cardinality(upTo) \in Nat
            /\ Bytes(kept) = k * Cardinality(kept) /\ Bytes(upTo) = k * Cardinality(upTo)
        BY <1>0, <1>3, BytesUniform, ZenonT(30) DEF Uniform
      <3>2. Cardinality(kept) <= Cardinality(upTo)
        BY <1>3, <3>1, FS_Subset, ZenonT(30)
      <3> HIDE DEF kept, upTo
      <3>3. k * Cardinality(kept) <= k * Cardinality(upTo)
        BY <3>1, <3>2, Multiples
      <3>4. QED
        BY <3>1, <3>3
    <2>2. ~(Bytes(kept) + Size[i] < ReceiveQueueMax) /\ kept # {}
      BY <1>1 DEF CanAdd
    <2>3. Size[i] \in Nat /\ ReceiveQueueMax \in Nat
      BY NetworkAssumption, ReceiveAssumption
    <2>4. upTo # {}
      BY <1>3, <2>2
    <2> HIDE DEF kept, upTo
    <2>5. ~(Bytes(upTo) + Size[i] < ReceiveQueueMax)
      BY <2>1, <2>2, <2>3
    <2>6. QED
      BY <2>4, <2>5 DEF CanAdd
  <1>5. h \in S /\ h \notin Evicted(S, C, i)
    BY <1>0, <1>2
  <1>6. ~(i < h /\ \A g \in C : g < h)
    BY <1>4, <1>5 DEF Evicted
  <1>7. PICK b \in S \cup {i} : Fits(k, b, next) /\ i <= b /\ h <= b
    <2>1. h \in Int /\ i \in Int /\ \A g \in C : g \in Int
      BY <1>5, SeqsRange, ZenonT(30)
    <2> HIDE DEF h
    <2>2. CASE ~(i < h)
      BY <2>1, <2>2
    <2>3. CASE i < h
      <3>1. PICK g \in C : ~(g < h)
        BY <1>6, <2>3
      <3>2. Fits(k, g, next) /\ i <= g /\ h <= g /\ g \in S
        BY <2>1, <2>3, <3>1
      <3>3. QED
        BY <3>2
    <2>4. QED
      BY <2>2, <2>3
  <1> DEFINE all == kept \cup {i}
  <1>8. b \in Int /\ next <= b /\ \A g \in all : next < g /\ g <= b
    <2>1. b \in Int /\ h \in Int /\ i \in Int /\ \A g \in kept : g \in Int /\ g <= h /\ next < g
      BY <1>0, <1>2, SeqsRange, ZenonT(30)
    <2> HIDE DEF h, kept
    <2>2. QED
      BY <1>7, <2>1
  <1>9. all \in SUBSET Seqs /\ Cardinality(all) = Cardinality(kept) + 1
        /\ Cardinality(kept) \in Nat /\ Bytes(kept) = k * Cardinality(kept)
    <2>1. IsFiniteSet(kept) /\ Cardinality(kept) \in Nat /\ Bytes(kept) = k * Cardinality(kept)
      BY <1>0, BytesUniform
    <2> HIDE DEF kept
    <2>2. Cardinality(kept \cup {i}) = Cardinality(kept) + 1
      BY <1>0, <2>1, FS_AddElement, ZenonT(30)
    <2>3. QED
      BY <1>0, <2>1, <2>2
  <1>10. Cardinality(all) <= b - next
    <2> HIDE DEF all
    <2>1. QED
      BY <1>8, <1>9, RoomBelow
  <1> DEFINE n == Cardinality(kept)
  <1>11. k \in Nat \ {0} /\ n \in Nat /\ n + 1 <= b - next /\ b - next \in Int
         /\ k * (b - next + 1) <= ReceiveQueueMax
         /\ ReceiveQueueMax \in Nat
         /\ Bytes(kept) = k * n /\ Size[i] = k
    <2>1. k \in Nat \ {0} /\ Size[i] = k
      BY DEF Uniform
    <2>2. k * (b - next + 1) <= ReceiveQueueMax /\ ReceiveQueueMax \in Nat
      BY <1>7, ReceiveAssumption DEF Fits
    <2> HIDE DEF all, kept
    <2>3. n + 1 <= b - next /\ b - next \in Int
      BY <1>8, <1>9, <1>10
    <2>4. QED
      BY <1>9, <2>1, <2>2, <2>3
  <1>12. ~(k * n + k < ReceiveQueueMax)
    BY <1>1, <1>11 DEF CanAdd
  <1> HIDE DEF n
  <1>13. k * (n + 1) = k * n + k /\ k * (n + 1) <= k * (b - next)
         /\ k * (b - next + 1) = k * (b - next) + k
         /\ k * n \in Int /\ k * (b - next) \in Int
    <2> DEFINE d == b - next
    <2>1. k \in Nat /\ n \in Int /\ n + 1 \in Int /\ d \in Int /\ 1 \in Int /\ n + 1 <= d /\ k * 1 = k
      BY <1>11
    <2> HIDE DEF d
    <2>2. k * (n + 1) = k * n + k * 1 /\ k * n \in Int
      BY <2>1, Multiples
    <2>3. k * (d + 1) = k * d + k * 1 /\ k * d \in Int
      BY <2>1, Multiples
    <2>4. k * (n + 1) <= k * d
      BY <2>1, Multiples
    <2>5. QED
      BY <2>1, <2>2, <2>3, <2>4 DEF d
  <1>14. QED
    BY <1>11, <1>12, <1>13

\* The receive half's steps keep the invariant of the hold.
LEMMA HoldStep ==
    ASSUME NEW k, Uniform(k), HoldPolicy = "committedPrefix",
           TypeOK, HoldInv(k), ReceiveNext
    PROVE  HoldInv(k)'
  <1> USE SeqsRange
  <1>0. /\ rNext \in 0 .. N /\ rNext \in Int
        /\ held \in SUBSET Seqs /\ committed \in SUBSET held /\ k \in Nat
    BY DEF TypeOK, ReceiveTypeOK, Uniform
  <1>1. \A next \in Int : rNext <= next =>
            \A h \in committed : Fits(k, h, next)
    <2> SUFFICES ASSUME NEW next \in Int, rNext <= next, NEW h \in committed
                 PROVE  Fits(k, h, next)
      OBVIOUS
    <2>1. h \in Int /\ h <= h /\ Fits(k, h, rNext)
      BY <1>0 DEF HoldInv
    <2>2. QED
      BY <1>0, <2>1, FitsRises
  <1>2. ASSUME NEW i \in Seqs, i <= rNext \/ ~Deliverable(held, rNext),
               NEW next \in Int, rNext <= next, i < next, rNext' = next, NEW window,
               CommitHeld(held \ {i}, committed \ {i}, next, maxHeld, window)
        PROVE  HoldInv(k)'
    <2> DEFINE S == held \ {i}
               C == committed \ {i}
    <2>1. S \in SUBSET Seqs /\ C \in SUBSET S
      BY <1>0
    <2>2. \A h \in C : Fits(k, h, next)
      BY <1>1, <1>2
    <2>3. maxHeld \in {0, k} /\ (S # {} => maxHeld = k)
      BY DEF HoldInv
    <2>4. \A j \in promised : j \in C \/ j < next
      <3>1. ASSUME NEW j \in promised
            PROVE  j \in C \/ j < next
        <4>1. j \in committed \/ j < rNext
          BY DEF HoldInv
        <4>2. j \in Int
          BY DEF TypeOK, ReceiveTypeOK
        <4>3. QED
          BY <1>0, <1>2, <4>1, <4>2
      <3>2. QED
        BY <3>1
    <2> HIDE DEF S, C
    <2>5. CommitHeld(S, C, next, maxHeld, window)
      BY <1>2 DEF S, C
    <2>6. \A j \in promised : j \in C \/ j < next
              \/ (j \in S /\ Fits(k, j, next) /\ ~Deliverable(S, next))
      BY <2>4
    <2>7. QED
      BY <1>2, <2>1, <2>2, <2>3, <2>5, <2>6, CommitHeldUniform, SMTT(30)
  <1>3. ASSUME NEW m \in packs, ReceivePack(m)
        PROVE  HoldInv(k)'
    <2>0. m.seq \in Seqs /\ m.seq \in Int /\ ~Deliverable(held, rNext)
      BY <1>3, ZenonT(30) DEF TypeOK, NetworkTypeOK, Packs, ReceivePack
    <2>1. CASE ReceivePast(m)
      <3>1. m.seq < rNext /\ rNext <= rNext /\ rNext' = rNext
            /\ CommitHeld(held \ {m.seq}, committed \ {m.seq}, rNext, maxHeld,
                          UpdateHead(recvWindow, m.seq))
        BY <1>0, <2>1 DEF ReceivePast
      <3>2. QED
        BY <1>0, <1>2, <2>0, <3>1
    <2>2. CASE ReceiveInOrder(m)
      <3>1. m.seq = NextFor(m) /\ rNext' = m.seq + 1
            /\ CommitHeld(held \ {m.seq}, committed \ {m.seq}, m.seq + 1, maxHeld,
                          UpdateHead(recvWindow, m.seq))
        BY <2>2 DEF ReceiveInOrder
      <3>2. rNext <= m.seq
        BY <1>0, <2>0, <3>1 DEF NextFor
      <3>3. m.seq + 1 \in Int /\ rNext <= m.seq + 1 /\ m.seq < m.seq + 1
        BY <1>0, <2>0, <3>2
      <3>4. QED
        BY <1>2, <2>0, <3>1, <3>3
    <2>3. CASE ReceiveLater(m)
      <3> DEFINE i == m.seq
                 S == held \ {i}
                 C == committed \ {i}
                 kept == S \ Evicted(S, C, i)
                 admitted == IF CanAdd(kept, i) THEN {i} ELSE {}
                 frame == IF admitted # {} /\ maxHeld < Size[i] THEN Size[i] ELSE maxHeld
      <3>1. /\ NextFor(m) < i /\ rNext' = rNext
            /\ CommitHeld(kept \cup admitted, C \cap kept, rNext, frame, recvWindow)
        BY <2>3, SMTT(30) DEF ReceiveLater
      <3>2. rNext < i
        BY <1>0, <2>0, <3>1 DEF NextFor
      <3>3. \A g \in held : rNext < g
        BY <1>0, <2>0 DEF Deliverable
      <3>4. kept \in SUBSET S /\ \A g \in C : g \in kept
        <4>1. ASSUME NEW g \in C PROVE g \notin Evicted(S, C, i)
          <5>1. ~(g < g)
            BY <1>0
          <5>2. QED
            BY <5>1 DEF Evicted
        <4>2. QED
          BY <1>0, <4>1
      <3>5. Fits(k, i, rNext) => CanAdd(kept, i)
        <4>1. /\ S \in SUBSET Seqs /\ C \in SUBSET S /\ \A g \in S : rNext < g
              /\ i \in Seqs /\ i \notin S
          BY <1>0, <2>0, <3>3, ZenonT(30)
        <4>2. \A g \in C : Fits(k, g, rNext)
          BY DEF HoldInv
        <4> HIDE DEF S, C, i
        <4>3. QED
          BY <1>0, <3>2, <4>1, <4>2, RoomUniform
      <3>6. frame \in {0, k} /\ (kept \cup admitted # {} => frame = k)
        <4>1. Size[i] = k /\ k \in Nat \ {0}
          BY <2>0 DEF Uniform
        <4>2. maxHeld \in {0, k} /\ (held # {} => maxHeld = k)
          BY DEF HoldInv
        <4>3. kept # {} => held # {}
          BY <3>4
        <4> HIDE DEF kept
        <4>4. QED
          BY <4>1, <4>2, <4>3
      <3>7. /\ kept \cup admitted \in SUBSET Seqs
            /\ C \cap kept \in SUBSET (kept \cup admitted)
            /\ \A g \in kept \cup admitted : rNext < g
        BY <1>0, <2>0, <3>2, <3>3, <3>4, ZenonT(30)
      <3>8. ~Deliverable(kept \cup admitted, rNext)
        <4>1. ASSUME NEW g \in kept \cup admitted, g <= rNext
              PROVE  FALSE
          <5>1. g \in Int /\ rNext < g
            BY <3>7, ZenonT(30)
          <5>2. QED
            BY <1>0, <4>1, <5>1
        <4>2. QED
          BY <4>1 DEF Deliverable
      <3>9. \A h \in C \cap kept : Fits(k, h, rNext)
        BY DEF HoldInv
      <3>10. \A j \in promised : j \in C \cap kept \/ j < rNext
                \/ (j \in kept \cup admitted /\ Fits(k, j, rNext))
        <4>1. ASSUME NEW j \in promised, ~(j < rNext)
              PROVE  j \in C \cap kept \/ (j \in kept \cup admitted /\ Fits(k, j, rNext))
          <5>1. j \in committed /\ Fits(k, j, rNext)
            BY <4>1 DEF HoldInv
          <5>2. CASE j = i
            BY <3>5, <5>1, <5>2, SMTT(30)
          <5>3. CASE j # i
            BY <3>4, <5>1, <5>3, SMTT(30)
          <5>4. QED
            BY <5>2, <5>3
        <4>2. QED
          BY <4>1
      <3> DEFINE T == kept \cup admitted
                 D == C \cap kept
      <3>11. /\ T \in SUBSET Seqs /\ D \in SUBSET T
             /\ T # {} => frame = k
             /\ \A h \in D : Fits(k, h, rNext)
             /\ \A j \in promised : j \in D \/ j < rNext
                    \/ (j \in T /\ Fits(k, j, rNext) /\ ~Deliverable(T, rNext))
             /\ CommitHeld(T, D, rNext, frame, recvWindow)
        BY <3>1, <3>6, <3>7, <3>8, <3>9, <3>10, Zenon
      <3>12. frame \in {0, k} /\ rNext' = rNext
        BY <3>1, <3>6, ZenonT(30)
      <3> HIDE DEF T, D, frame
      <3>13. QED
        BY <1>0, <3>11, <3>12, CommitHeldUniform, SMTT(30)
    <2>4. QED
      BY <1>3, <2>1, <2>2, <2>3 DEF ReceivePack
  <1>4. CASE DrainHeld
    <2>1. PICK h \in held :
              /\ h <= rNext
              /\ IF h = rNext THEN rNext' = rNext + 1 ELSE rNext' = rNext
              /\ CommitHeld(held \ {h}, committed \ {h}, rNext', maxHeld,
                            UpdateHead(recvWindow, h))
      BY <1>4, Zenon DEF DrainHeld
    <2>2. h \in Seqs /\ rNext' \in Int /\ rNext <= rNext' /\ h < rNext'
      BY <1>0, <2>1
    <2>3. QED
      BY <1>2, <2>1, <2>2
  <1>5. ASSUME NEW lost \in SUBSET SnapshotAcks(recvWindow), WriteAcks(lost)
        PROVE  HoldInv(k)'
    BY <1>5 DEF WriteAcks, HoldInv, Fits, Deliverable
  <1>6. CASE ReceiveExit
    BY <1>6 DEF ReceiveExit, HoldInv
  <1>7. QED
    BY <1>3, <1>4, <1>5, <1>6 DEF ReceiveNext

\* The invariant of the hold holds of a sequence whose items have one size.
LEMMA HoldInvariance ==
    ASSUME NEW k, Uniform(k), HoldPolicy = "committedPrefix"
    PROVE  Spec => []HoldInv(k)
  <1>1. Init => HoldInv(k)
    BY DEF Init, ReceiveInit, HoldInv
  <1>2. TypeOK /\ HoldInv(k) /\ [Next]_vars => HoldInv(k)'
    <2> SUFFICES ASSUME TypeOK, HoldInv(k), [Next]_vars PROVE HoldInv(k)'
      OBVIOUS
    <2>1. CASE ReceiveNext
      BY <2>1, HoldStep
    <2>2. CASE UNCHANGED recvVars
      BY <2>2 DEF recvVars, HoldInv, Fits, Deliverable
    <2>3. QED
      BY <2>1, <2>2 DEF Next, vars
  <1>3. QED
    BY <1>1, <1>2, TypeCorrect, PTL DEF Spec

\* With items of one size an item that the receiver acked selectively is never
\* discarded, whatever the size, the bound of the hold, and the order of arrival.
THEOREM UniformPromisesKept ==
    ASSUME NEW k, Uniform(k), HoldPolicy = "committedPrefix"
    PROVE  Spec => []PromisesKept
  <1>1. TypeOK /\ HoldInv(k) => PromisesKept
    BY DEF TypeOK, ReceiveTypeOK, HoldInv, PromisesKept
  <1>2. QED
    BY <1>1, HoldInvariance, TypeCorrect, PTL

\* With items of one size the committed items are, whenever Run waits for a pack,
\* exactly the held ones that survive every missing item arriving.
THEOREM UniformBoundaryExact ==
    ASSUME NEW k, Uniform(k), HoldPolicy = "committedPrefix"
    PROVE  Spec => []BoundaryExact
  <1>1. TypeOK /\ HoldInv(k) => BoundaryExact
    <2> SUFFICES ASSUME TypeOK, HoldInv(k), ~Deliverable(held, rNext), NEW h \in held
                 PROVE  h \in committed <=> Reach(held, h, rNext, maxHeld) <= ReceiveQueueMax
      BY DEF BoundaryExact
    <2>1. held \in SUBSET Seqs /\ rNext \in Int /\ \A g \in held : rNext < g
      BY SeqsRange DEF TypeOK, ReceiveTypeOK, Deliverable
    <2>2. maxHeld = k
      BY DEF HoldInv
    <2>3. Reach(held, h, rNext, maxHeld) = k * (h - rNext + 1)
      BY <2>1, <2>2, ReachUniform
    <2>4. h \in committed <=> Fits(k, h, rNext)
      BY DEF HoldInv
    <2>5. QED
      BY <2>3, <2>4 DEF Fits
  <1>2. QED
    BY <1>1, HoldInvariance, TypeCorrect, PTL

\* What is committed was acked selectively, and an ack once sent stays sent until the
\* receive sequence is replaced, under every policy.
CommittedWasPromised == committed \subseteq promised

LEMMA PromisesGrow ==
    ASSUME CommittedWasPromised, [Next]_vars
    PROVE  CommittedWasPromised' /\ (exits' = exits => promised \subseteq promised')
  <1>1. ASSUME NEW S, NEW C, NEW next, NEW frame, NEW window, C \subseteq committed,
               CommitHeld(S, C, next, frame, window)
        PROVE  CommittedWasPromised' /\ promised \subseteq promised'
    BY <1>1, Zenon DEF CommitHeld, CommittedWasPromised
  <1>2. ASSUME NEW m \in packs, ReceivePack(m)
        PROVE  CommittedWasPromised' /\ promised \subseteq promised'
    <2>1. \E S, C, next, frame, window :
              C \subseteq committed /\ CommitHeld(S, C, next, frame, window)
      <3>1. CASE ReceivePast(m)
        BY <3>1, Zenon DEF ReceivePast
      <3>2. CASE ReceiveInOrder(m)
        BY <3>2, Zenon DEF ReceiveInOrder
      <3>3. CASE ReceiveLater(m)
        BY <3>3, Zenon DEF ReceiveLater
      <3>4. QED
        BY <1>2, <3>1, <3>2, <3>3 DEF ReceivePack
    <2>2. QED
      BY <1>1, <2>1
  <1>3. CASE DrainHeld
    <2>1. \E h \in held : CommitHeld(held \ {h}, committed \ {h}, rNext', maxHeld,
                                     UpdateHead(recvWindow, h))
      BY <1>3, Zenon DEF DrainHeld
    <2>2. \A h : committed \ {h} \subseteq committed
      OBVIOUS
    <2>3. QED
      BY <1>1, <2>1, <2>2
  <1>4. ASSUME NEW lost \in SUBSET SnapshotAcks(recvWindow), WriteAcks(lost)
        PROVE  CommittedWasPromised' /\ promised \subseteq promised'
    BY <1>4 DEF WriteAcks, CommittedWasPromised
  <1>5. CASE ReceiveExit
    <2>1. committed' = {} /\ exits' = exits + 1
      BY <1>5 DEF ReceiveExit
    <2>2. QED
      BY <2>1, <1>5 DEF CommittedWasPromised
  <1>6. CASE UNCHANGED recvVars
    BY <1>6 DEF recvVars, CommittedWasPromised
  <1>7. QED
    BY <1>2, <1>3, <1>4, <1>5, <1>6 DEF Next, vars, ReceiveNext

\* With items of one size a commit is never taken back: a resent copy, an arrival or
\* an eviction leaves a committed item committed until it is delivered.
THEOREM UniformCommittedStays ==
    ASSUME NEW k, Uniform(k), HoldPolicy = "committedPrefix"
    PROVE  Spec => CommittedStays
  <1> DEFINE Stays == exits' = exits => \A i \in committed : i \in committed' \/ i < rNext'
  <1>1. Init => CommittedWasPromised
    BY DEF Init, ReceiveInit, CommittedWasPromised
  <1>2. CommittedWasPromised /\ [Next]_vars => CommittedWasPromised'
    BY PromisesGrow
  <1>3. CommittedWasPromised /\ HoldInv(k)' /\ [Next]_vars => [Stays]_recvVars
    <2> SUFFICES ASSUME CommittedWasPromised, HoldInv(k)', [Next]_vars, exits' = exits,
                        NEW i \in committed
                 PROVE  i \in committed' \/ i < rNext'
      OBVIOUS
    <2>1. i \in promised'
      BY PromisesGrow DEF CommittedWasPromised
    <2>2. QED
      BY <2>1 DEF HoldInv
  <1>4. QED
    BY <1>1, <1>2, <1>3, HoldInvariance, PTL DEF Spec, CommittedStays

-----------------------------------------------------------------------------
(* The receiver's hold under the refuse policy, for items of any size.     *)

\* Every held item is committed, and would be admitted again by what else is held.
RefuseInv ==
    /\ committed = held
    /\ \A i \in held : CanAdd(held \ {i}, i)
    /\ \A i \in promised : i \in held \/ i < rNext

\* Fewer items leave more room.
LEMMA CanAddFewer ==
    ASSUME NEW S \in SUBSET Seqs, NEW R \in SUBSET S, NEW i \in Seqs, CanAdd(S, i)
    PROVE  CanAdd(R, i)
  <1>1. \A j \in Seqs : Size[j] \in Nat
    BY NetworkAssumption
  <1>2. R \in SUBSET S /\ S \ R \in SUBSET S /\ S \ (S \ R) = R
    OBVIOUS
  <1>3. /\ Bytes(R) = Bytes(S) - Bytes(S \ R)
        /\ Bytes(S) \in Nat /\ Bytes(S \ R) \in Nat
    <2>1. /\ SumFunctionOnSet(Size, S) \in Nat
          /\ \A T \in SUBSET S :
                 /\ SumFunctionOnSet(Size, T) \in Nat
                 /\ SumFunctionOnSet(Size, S \ T)
                      = SumFunctionOnSet(Size, S) - SumFunctionOnSet(Size, T)
      BY <1>1, SeqSums
    <2>2. QED
      BY <1>2, <2>1 DEF Bytes
  <1>4. Size[i] \in Nat /\ ReceiveQueueMax \in Nat
    BY <1>1, ReceiveAssumption
  <1>5. S = {} \/ Bytes(S) + Size[i] < ReceiveQueueMax
    BY DEF CanAdd
  <1>6. S = {} => R = {}
    OBVIOUS
  <1>7. QED
    BY <1>3, <1>4, <1>5, <1>6 DEF CanAdd

\* One more item, admitted by those that are held, leaves each of them admitted.
LEMMA CanAddOneMore ==
    ASSUME NEW S \in SUBSET Seqs, NEW i \in Seqs \ S, CanAdd(S, i), NEW j \in S
    PROVE  CanAdd((S \cup {i}) \ {j}, j)
  <1> DEFINE T == S \cup {i}
  <1>1. \A x \in Seqs : Size[x] \in Nat
    BY NetworkAssumption
  <1>2. T \in SUBSET Seqs /\ j \in T
    OBVIOUS
  <1>3. Bytes(T) = Bytes(S) + Size[i]
    BY <1>1, SeqSums DEF Bytes
  <1> HIDE DEF T
  <1>4. Bytes(T \ {j}) = Bytes(T) - Size[j] /\ Bytes(T) \in Nat
    BY <1>1, <1>2, SeqSums DEF Bytes
  <1>5. Bytes(S) + Size[i] < ReceiveQueueMax /\ ReceiveQueueMax \in Nat /\ Size[j] \in Nat
    BY <1>1, ReceiveAssumption DEF CanAdd
  <1>6. Bytes(T \ {j}) + Size[j] < ReceiveQueueMax
    BY <1>3, <1>4, <1>5
  <1>7. QED
    BY <1>6 DEF CanAdd, T

\* The receive half's steps keep the invariant of the refuse policy.
LEMMA RefuseStep ==
    ASSUME HoldPolicy = "refuse", TypeOK, RefuseInv, ReceiveNext
    PROVE  RefuseInv'
  <1> USE SeqsRange
  <1>0. rNext \in Int /\ held \in SUBSET Seqs /\ committed = held /\ promised \in SUBSET Seqs
    BY DEF TypeOK, ReceiveTypeOK, RefuseInv
  <1>1. ASSUME NEW S, NEW C \in SUBSET S, NEW next, NEW frame, NEW window,
               CommitHeld(S, C, next, frame, window)
        PROVE  held' = S /\ committed' = S /\ promised' \subseteq promised \cup S
    BY <1>1 DEF CommitHeld
  <1>2. ASSUME NEW i \in Seqs, rNext' \in Int, rNext <= rNext', i < rNext',
               NEW next, NEW window,
               CommitHeld(held \ {i}, committed \ {i}, next, maxHeld, window)
        PROVE  RefuseInv'
    <2>1. /\ held' = held \ {i} /\ committed' = held'
          /\ promised' \subseteq promised \cup held'
      BY <1>0, <1>1, <1>2
    <2>2. ASSUME NEW j \in held'
          PROVE  CanAdd(held' \ {j}, j)
      <3>1. /\ held \ {j} \in SUBSET Seqs /\ held' \ {j} \in SUBSET (held \ {j}) /\ j \in Seqs
            /\ CanAdd(held \ {j}, j)
        BY <1>0, <2>1 DEF RefuseInv
      <3>2. QED
        BY <3>1, CanAddFewer
    <2>3. \A j \in promised' : j \in held' \/ j < rNext'
      BY <1>0, <1>2, <2>1 DEF RefuseInv
    <2>4. QED
      BY <2>1, <2>2, <2>3 DEF RefuseInv, CanAdd, Bytes
  <1>3. ASSUME NEW m \in packs, ReceivePack(m)
        PROVE  RefuseInv'
    <2>0. m.seq \in Seqs /\ m.seq \in Int
      BY ZenonT(30) DEF TypeOK, NetworkTypeOK, Packs
    <2>1. CASE ReceivePast(m)
      <3>1. /\ m.seq < rNext' /\ rNext' \in Int /\ rNext <= rNext'
            /\ CommitHeld(held \ {m.seq}, committed \ {m.seq}, rNext, maxHeld,
                          UpdateHead(recvWindow, m.seq))
        BY <1>0, <2>1 DEF ReceivePast
      <3>2. QED
        BY <1>2, <2>0, <3>1
    <2>2. CASE ReceiveInOrder(m)
      <3>1. m.seq = NextFor(m) /\ rNext' = m.seq + 1
            /\ CommitHeld(held \ {m.seq}, committed \ {m.seq}, m.seq + 1, maxHeld,
                          UpdateHead(recvWindow, m.seq))
        BY <2>2 DEF ReceiveInOrder
      <3>2. rNext <= m.seq
        BY <1>0, <2>0, <3>1 DEF NextFor
      <3>3. m.seq < rNext' /\ rNext' \in Int /\ rNext <= rNext'
        BY <1>0, <2>0, <3>1, <3>2, SMTT(30)
      <3>4. QED
        BY <1>2, <2>0, <3>1, <3>3
    <2>3. CASE ReceiveLater(m)
      <3> DEFINE i == m.seq
                 S == held \ {i}
                 C == committed \ {i}
                 kept == S \ Evicted(S, C, i)
                 admitted == IF CanAdd(kept, i) THEN {i} ELSE {}
                 frame == IF admitted # {} /\ maxHeld < Size[i] THEN Size[i] ELSE maxHeld
      <3>1. /\ rNext' = rNext
            /\ CommitHeld(kept \cup admitted, C \cap kept, rNext, frame, recvWindow)
        BY <2>3 DEF ReceiveLater
      <3>2. kept = S
        BY DEF Evicted
      <3>3. /\ held' = S \cup admitted /\ committed' = held'
            /\ promised' \subseteq promised \cup held'
        <4>1. C \cap kept \in SUBSET (kept \cup admitted)
          OBVIOUS
        <4> HIDE DEF admitted, frame, kept
        <4>2. QED
          BY <1>1, <3>1, <3>2, <4>1
      <3>4. i \in held => CanAdd(S, i)
        BY DEF RefuseInv
      <3>5. held \subseteq held'
        BY <3>2, <3>3, <3>4, ZenonT(30)
      <3>6. ASSUME NEW j \in held'
            PROVE  CanAdd(held' \ {j}, j)
        <4>1. CASE ~CanAdd(S, i)
          <5>1. held' = held
            BY <3>2, <3>3, <3>4, <4>1, SMTT(30)
          <5>2. QED
            BY <5>1 DEF RefuseInv
        <4>2. CASE CanAdd(S, i)
          <5>1. held' = S \cup {i} /\ S \in SUBSET Seqs /\ i \in Seqs \ S
            BY <1>0, <2>0, <3>2, <3>3, <4>2, ZenonT(30)
          <5>2. CASE j = i
            <6>1. held' \ {i} = S
              BY <5>1
            <6>2. QED
              BY <4>2, <5>2, <6>1
          <5>3. CASE j # i
            <6>1. j \in S
              BY <5>1, <5>3, SMTT(30)
            <6> HIDE DEF S, i
            <6>2. QED
              BY <4>2, <5>1, <6>1, CanAddOneMore
          <5>4. QED
            BY <5>2, <5>3
        <4>3. QED
          BY <4>1, <4>2
      <3>7. \A j \in promised' : j \in held' \/ j < rNext'
        BY <3>1, <3>3, <3>5, ZenonT(30) DEF RefuseInv
      <3>8. QED
        BY <3>3, <3>6, <3>7, ZenonT(30) DEF RefuseInv, CanAdd, Bytes
    <2>4. QED
      BY <1>3, <2>1, <2>2, <2>3 DEF ReceivePack
  <1>4. CASE DrainHeld
    <2>1. PICK h \in held :
              /\ h <= rNext
              /\ IF h = rNext THEN rNext' = rNext + 1 ELSE rNext' = rNext
              /\ CommitHeld(held \ {h}, committed \ {h}, rNext', maxHeld,
                            UpdateHead(recvWindow, h))
      BY <1>4, Zenon DEF DrainHeld
    <2>2. h \in Seqs /\ rNext' \in Int /\ rNext <= rNext' /\ h < rNext'
      BY <1>0, <2>1
    <2>3. QED
      BY <1>2, <2>1, <2>2
  <1>5. ASSUME NEW lost \in SUBSET SnapshotAcks(recvWindow), WriteAcks(lost)
        PROVE  RefuseInv'
    BY <1>5 DEF WriteAcks, RefuseInv, CanAdd, Bytes
  <1>6. CASE ReceiveExit
    BY <1>6 DEF ReceiveExit, RefuseInv
  <1>7. QED
    BY <1>3, <1>4, <1>5, <1>6 DEF ReceiveNext

\* Under the refuse policy an item that the receiver acked is never discarded,
\* whatever the sizes: nothing is evicted, and a copy of a held item that comes
\* again finds the room that the item it replaces gives back.
THEOREM RefusePromisesKept ==
    ASSUME HoldPolicy = "refuse"
    PROVE  Spec => []PromisesKept
  <1>1. Init => RefuseInv
    BY DEF Init, ReceiveInit, RefuseInv
  <1>2. TypeOK /\ RefuseInv /\ [Next]_vars => RefuseInv'
    <2> SUFFICES ASSUME TypeOK, RefuseInv, [Next]_vars PROVE RefuseInv'
      OBVIOUS
    <2>1. CASE ReceiveNext
      BY <2>1, RefuseStep
    <2>2. CASE UNCHANGED recvVars
      BY <2>2 DEF recvVars, RefuseInv, CanAdd, Bytes
    <2>3. QED
      BY <2>1, <2>2 DEF Next, vars
  <1>3. RefuseInv => PromisesKept
    BY DEF RefuseInv, PromisesKept
  <1>4. QED
    BY <1>1, <1>2, <1>3, TypeCorrect, PTL DEF Spec
=============================================================================
