------------------------ MODULE SendContractsLedger ------------------------
(***************************************************************************)
(* What a SendSequence owes and what it holds, for any contracts,          *)
(* messages, sizes and number of queues.  Every call that opened the       *)
(* contract queue of the key is counted in it and finds it mapped, until   *)
(* the sequence removes it by force.  The byte counts of every open        *)
(* contract are exactly the debits under it and never exceed what the      *)
(* contract grants, a close reports what was delivered, and a contract     *)
(* that was replaced is open only for something under it.                  *)
(***************************************************************************)
EXTENDS SendContractsProofs, DataTheorems

-----------------------------------------------------------------------------
(* The users of the queue. *)

\* The calls that have queue q open.
Holders(q) == {u \in Users : holds[u] = q}

\* A queue that was not made yet was opened by nobody.
Counting ==
    /\ made \in 0 .. MaxQueues
    /\ mapped <= made
    /\ openCount \in [Queues -> Int]
    /\ \A q \in Queues : q > made => openCount[q] = 0

\* What HeldMapped says of a queue that was not removed by force.
Counted ==
    /\ \A u \in Users : holds[u] \in {0, mapped}
    /\ mapped # 0 => openCount[mapped] = Cardinality(Holders(mapped))

\* A call opens the queue once: it holds nothing before.
Calls ==
    /\ \A c \in Contracts : /\ grant[c] \in {"none", "asked"} => holds[<<"add", c>>] = 0
                            /\ grant[c] # "closed" => holds[<<"sync", c>>] = 0
    /\ pc # "done" =>
           (holds[Sequence] # 0 <=> pc \in {"taking", "set", "flushing", "flushed"})

HoldInv == Counting /\ (pc # "done" => Counted) /\ Calls

\* The users of a queue are finitely many, so they can be counted.
LEMMA HoldersFinite == \A q : IsFiniteSet(Holders(q))
<1>1. IsFiniteSet({"add"} \cup {"sync"}) /\ {"add"} \cup {"sync"} = {"add", "sync"}
    BY FS_Singleton, FS_AddElement, ZenonT(30)
<1>2. IsFiniteSet({"add", "sync"} \X Contracts)
    BY <1>1, FS_Product, ManagerAssumption
<1>3. IsFiniteSet(Users)
    BY <1>2, FS_AddElement DEF Users
<1>. QED
    BY <1>3, FS_Subset DEF Holders

\* Opening the queue adds its user to the count.
LEMMA OpenCounts ==
    ASSUME Types, Counting, NEW u \in Users, OpenQueue(u)
    PROVE  /\ Counting'
           /\ Counted /\ holds[u] = 0 => Counted'
<1>. DEFINE q == OpenedQueue
<1>1. /\ q \in Queues /\ mapped' = q /\ made' = (IF mapped = 0 THEN made + 1 ELSE made)
      /\ openCount' = [openCount EXCEPT ![q] = @ + 1]
      /\ holds' = [holds EXCEPT ![u] = q]
      /\ q = IF mapped = 0 THEN made + 1 ELSE mapped
    BY DEF OpenQueue, OpenedQueue
<1>2. /\ made \in Nat /\ made <= MaxQueues /\ MaxQueues \in Nat /\ mapped <= made
      /\ openCount \in [Queues -> Int] /\ \A r \in Queues : r > made => openCount[r] = 0
      /\ holds \in [Users -> Queues \cup {0}] /\ mapped \in Queues \cup {0}
      /\ q \in Nat /\ q # 0 /\ q <= MaxQueues /\ \A r \in Queues : r \in Nat
    BY <1>1, ManagerAssumption DEF Types, Counting, Queues
<1>3. Counting'
  <2>1. made' \in 0 .. MaxQueues /\ mapped' <= made'
    BY <1>1, <1>2
  <2>2. openCount' \in [Queues -> Int]
    BY <1>1, <1>2
  <2>3. ASSUME NEW r \in Queues, r > made'
        PROVE  openCount'[r] = 0
    <3>1. r # q /\ r > made
      BY <1>1, <1>2, <2>3
    <3>. QED
      BY <1>1, <1>2, <3>1
  <2>. QED
    BY <2>1, <2>2, <2>3 DEF Counting
<1>4. ASSUME Counted, holds[u] = 0
      PROVE  Counted'
  <2>1. /\ holds'[u] = q /\ \A v \in Users : v # u => holds'[v] = holds[v]
        /\ openCount'[q] = openCount[q] + 1
    BY <1>1, <1>2
  <2>2. \A v \in Users : holds[v] \in {0, mapped}
    BY <1>4 DEF Counted
  <2>3. \A v \in Users : holds[v] \in {0, q}
    BY <1>1, <2>2
  <2>4. openCount[q] = Cardinality(Holders(q)) /\ IsFiniteSet(Holders(q)) /\ u \notin Holders(q)
    <3>1. CASE mapped = 0
      <4>1. q = made + 1 /\ openCount[q] = 0
        BY <1>1, <1>2, <3>1
      <4>2. Holders(q) = {}
        BY <1>2, <2>2, <3>1 DEF Holders
      <4>. QED
        BY <4>1, <4>2, FS_EmptySet, HoldersFinite
    <3>2. CASE mapped # 0
      BY <1>1, <1>2, <1>4, <3>2, HoldersFinite, ZenonT(30) DEF Counted, Holders
    <3>. QED
      BY <3>1, <3>2
  <2>5. Cardinality(Holders(q) \cup {u}) = Cardinality(Holders(q)) + 1
    BY <2>4, FS_AddElement
  <2>6. {v \in Users : holds'[v] = q} = Holders(q) \cup {u}
    BY <2>1 DEF Holders
  <2>7. openCount'[mapped'] = Cardinality({v \in Users : holds'[v] = mapped'})
    BY <1>1, <2>1, <2>4, <2>5, <2>6
  <2>8. \A v \in Users : holds'[v] \in {0, mapped'}
    BY <1>1, <2>1, <2>3
  <2>. QED
    BY <2>7, <2>8 DEF Counted, Holders
<1>. QED
    BY <1>3, <1>4

\* Closing it takes the user from the count, and only the last one, leaving the
\* queue empty, removes it.
LEMMA CloseCounts ==
    ASSUME Types, Counting, NEW u \in Users, NEW f \in BOOLEAN, CloseQueue(u, f)
    PROVE  /\ Counting'
           /\ Counted /\ holds[u] # 0 /\ ~f => Counted'
<1>1. /\ holds' = [holds EXCEPT ![u] = 0] /\ made' = made
      /\ openCount' = IF mapped = 0 THEN openCount ELSE [openCount EXCEPT ![mapped] = @ - 1]
      /\ mapped' = IF mapped # 0 /\ (f \/ (openCount[mapped] - 1 <= 0 /\ queued[mapped] = {}))
                   THEN 0 ELSE mapped
    BY DEF CloseQueue, IsDone
<1>2. /\ made \in Nat /\ made <= MaxQueues /\ MaxQueues \in Nat /\ mapped <= made
      /\ openCount \in [Queues -> Int] /\ \A r \in Queues : r > made => openCount[r] = 0
      /\ holds \in [Users -> Queues \cup {0}] /\ mapped \in Queues \cup {0}
      /\ \A r \in Queues : r \in Nat /\ r # 0
    BY ManagerAssumption DEF Types, Counting, Queues
<1>3. Counting'
  <2>1. made' \in 0 .. MaxQueues /\ mapped' <= made'
    BY <1>1, <1>2
  <2>2. openCount' \in [Queues -> Int]
    BY <1>1, <1>2
  <2>3. ASSUME NEW r \in Queues, r > made'
        PROVE  openCount'[r] = 0
    BY <1>1, <1>2, <2>3
  <2>. QED
    BY <2>1, <2>2, <2>3 DEF Counting
<1>4. ASSUME Counted, holds[u] # 0, ~f
      PROVE  Counted'
  <2>1. /\ holds[u] = mapped /\ mapped # 0 /\ mapped \in Queues
        /\ \A v \in Users : holds[v] \in {0, mapped}
        /\ openCount[mapped] = Cardinality(Holders(mapped)) /\ u \in Holders(mapped)
    BY <1>2, <1>4 DEF Counted, Holders
  <2>2. /\ holds'[u] = 0 /\ \A v \in Users : v # u => holds'[v] = holds[v]
        /\ openCount'[mapped] = openCount[mapped] - 1
    BY <1>1, <1>2, <2>1
  <2>3. {v \in Users : holds'[v] = mapped} = Holders(mapped) \ {u}
    BY <2>1, <2>2 DEF Holders
  <2>4. /\ Cardinality(Holders(mapped) \ {u}) = Cardinality(Holders(mapped)) - 1
        /\ IsFiniteSet(Holders(mapped) \ {u})
        /\ Cardinality(Holders(mapped) \ {u}) \in Nat /\ Cardinality(Holders(mapped)) \in Nat
    BY <2>1, HoldersFinite, FS_RemoveElement, FS_CardinalityType
  <2>5. CASE mapped' = mapped
    <3>1. openCount'[mapped'] = Cardinality({v \in Users : holds'[v] = mapped'})
      BY <2>1, <2>2, <2>3, <2>4, <2>5, ZenonT(30)
    <3>2. \A v \in Users : holds'[v] \in {0, mapped'}
      BY <2>1, <2>2, <2>5
    <3>. QED
      BY <3>1, <3>2 DEF Counted, Holders
  <2>6. CASE mapped' # mapped
    <3>1. mapped' = 0 /\ openCount[mapped] - 1 <= 0
      BY <1>1, <1>4, <2>6
    <3>2. Holders(mapped) \ {u} = {}
      <4>1. Cardinality(Holders(mapped) \ {u}) = 0
        BY <2>1, <2>4, <3>1
      <4>. QED
        BY <2>4, <4>1, FS_EmptySet
    <3>3. \A v \in Users : holds'[v] = 0
      BY <2>1, <2>2, <2>3, <3>2
    <3>. QED
      BY <3>1, <3>3 DEF Counted
  <2>. QED
    BY <2>5, <2>6
<1>. QED
    BY <1>3, <1>4

\* Every step keeps the count of the users of the queue.
LEMMA HoldPreserved == ContractInv /\ Watched /\ HoldInv /\ [Next]_vars => HoldInv'
<1>. SUFFICES ASSUME ContractInv, Watched, HoldInv, [Next]_vars
              PROVE  HoldInv'
    OBVIOUS
<1>. USE ItemFacts, UserFacts, QueueFacts
<1>g. \A c \in Contracts : GrantMoves(c)
    BY GrantSteps
<1>h. /\ Types /\ Counting /\ Calls /\ (pc # "done" => Counted)
      /\ \A c \in Contracts : grant'[c] \in {"none", "asked"} => grant[c] \in {"none", "asked"}
      /\ \A c \in Contracts : grant'[c] # "closed" => grant[c] # "closed"
    BY <1>g DEF ContractInv, HoldInv, GrantMoves
<1>. USE <1>h
<1>1. ASSUME UNCHANGED <<mapped, made, openCount, holds>>, pc' # "done" => pc # "done",
             pc' # "done" =>
                 (pc' \in {"taking", "set", "flushing", "flushed"} <=>
                  pc \in {"taking", "set", "flushing", "flushed"})
      PROVE  HoldInv'
  <2>1. Counting' /\ Calls'
    BY <1>1 DEF Counting, Calls
  <2>2. pc' # "done" => Counted'
    BY <1>1 DEF Counted, Holders
  <2>. QED
    BY <2>1, <2>2 DEF HoldInv
<1>2. ASSUME NEW u \in Users, OpenQueue(u), holds[u] = 0,
             pc' # "done" => pc # "done", Calls'
      PROVE  HoldInv'
    BY <1>2, OpenCounts DEF HoldInv
<1>3. ASSUME NEW u \in Users, CloseQueue(u, FALSE), holds[u] # 0,
             pc' # "done" => pc # "done", Calls'
      PROVE  HoldInv'
    BY <1>3, CloseCounts, ZenonT(30) DEF HoldInv
<1>4. ASSUME NEW c \in Contracts, AddOpens(c), UNCHANGED pc
      PROVE  HoldInv'
  <2>1. /\ holds[<<"add", c>>] = 0 /\ OpenQueue(<<"add", c>>)
        /\ grant' = [grant EXCEPT ![c] = "adding"]
    BY <1>4, ZenonT(30) DEF AddOpens, Calls
  <2>2. /\ \A v \in Users : v # <<"add", c>> => holds'[v] = holds[v]
        /\ grant'[c] = "adding"
    BY <2>1 DEF OpenQueue, Types
  <2>3. Calls'
    BY <1>4, <2>2, ZenonT(30) DEF Calls
  <2>. QED
    BY <1>2, <1>4, <2>1, <2>3, ZenonT(30)
<1>5. ASSUME NEW c \in Contracts, SyncOpens(c), UNCHANGED pc
      PROVE  HoldInv'
  <2>1. /\ holds[<<"sync", c>>] = 0 /\ OpenQueue(<<"sync", c>>)
        /\ grant' = [grant EXCEPT ![c] = "closed"]
    BY <1>5, ZenonT(30) DEF SyncOpens, Calls
  <2>2. /\ \A v \in Users : v # <<"sync", c>> => holds'[v] = holds[v]
        /\ grant'[c] = "closed"
    BY <2>1 DEF OpenQueue, Types
  <2>3. \A d \in Contracts : d # c => <<"sync", d>> # <<"sync", c>>
    <3>1. \A d : <<"sync", d>>[2] = d
      OBVIOUS
    <3>. QED
      BY <3>1
  <2>4. Calls'
    BY <1>5, <2>2, <2>3, ZenonT(30) DEF Calls
  <2>. QED
    BY <1>2, <1>5, <2>1, <2>4, ZenonT(30)
<1>6. ASSUME NEW c \in Contracts, AddCloses(c) \/ SyncCloses(c), UNCHANGED pc
      PROVE  HoldInv'
  <2>1. PICK u \in {<<"add", c>>, <<"sync", c>>} : CloseQueue(u, FALSE) /\ holds[u] # 0
    BY <1>6, Zenon DEF AddCloses, SyncCloses
  <2>2. u \in Users /\ u # Sequence
    BY <2>1, ZenonT(30)
  <2>3. \A v \in Users : holds'[v] = IF v = u THEN 0 ELSE holds[v]
    BY <2>1, <2>2 DEF CloseQueue, Types
  <2>4. Calls'
    BY <1>6, <2>2, <2>3 DEF Calls
  <2>. QED
    BY <1>3, <1>6, <2>1, <2>2, <2>4, ZenonT(30)
<1>7. ASSUME NEW m, TakeOpens(m)
      PROVE  HoldInv'
  <2>1. holds[Sequence] = 0 /\ OpenQueue(Sequence) /\ pc' = "taking" /\ pc # "done"
    BY <1>7 DEF TakeOpens, Calls
  <2>2. /\ \A v \in Users : v # Sequence => holds'[v] = holds[v]
        /\ holds'[Sequence] # 0
    BY <2>1 DEF OpenQueue, Types
  <2>3. Calls'
    BY <2>1, <2>2 DEF Calls
  <2>. QED
    BY <1>2, <2>1, <2>3
<1>8. CASE Exit
  <2>1. holds[Sequence] = 0 /\ OpenQueue(Sequence) /\ pc' = "flushing" /\ pc # "done"
    BY <1>8 DEF Exit, Calls
  <2>2. /\ \A v \in Users : v # Sequence => holds'[v] = holds[v]
        /\ holds'[Sequence] # 0
    BY <2>1 DEF OpenQueue, Types
  <2>3. Calls'
    BY <2>1, <2>2 DEF Calls
  <2>. QED
    BY <1>2, <2>1, <2>3
<1>9. CASE TakeTimesOut \/ SetContract \/ RejectContract
  <2>1. /\ holds[Sequence] # 0 /\ CloseQueue(Sequence, FALSE) /\ pc' \in {"ready", "retry"}
        /\ pc # "done"
    BY <1>9, ZenonT(30) DEF TakeTimesOut, SetContract, RejectContract, Calls
  <2>2. /\ \A v \in Users : v # Sequence => holds'[v] = holds[v]
        /\ holds'[Sequence] = 0
    BY <2>1 DEF CloseQueue, Types
  <2>3. Calls'
    BY <2>1, <2>2 DEF Calls
  <2>. QED
    BY <1>3, <2>1, <2>3, ZenonT(30)
<1>10. CASE FlushRemoves
  <2>1. CloseQueue(Sequence, TRUE) /\ pc' = "done"
    BY <1>10, ZenonT(30) DEF FlushRemoves
  <2>2. Counting'
    BY <2>1, CloseCounts, ZenonT(30)
  <2>3. \A v \in Users : v # Sequence => holds'[v] = holds[v]
    BY <2>1 DEF CloseQueue, Types
  <2>4. Calls'
    BY <2>1, <2>3 DEF Calls
  <2>. QED
    BY <2>1, <2>2, <2>4 DEF HoldInv
<1>11. CASE Expire /\ UNCHANGED pc
  <2>1. /\ UNCHANGED <<made, openCount, holds>> /\ mapped # 0
        /\ mapped' = mapped \/ (mapped' = 0 /\ openCount[mapped] <= 0)
    BY <1>11 DEF Expire, IsDone
  <2>2. Counting'
    BY <2>1 DEF Counting
  <2>3. Calls'
    BY <1>11, <2>1 DEF Calls
  <2>4. ASSUME Counted
        PROVE  Counted'
    <3>1. CASE mapped' = mapped
      BY <2>1, <2>4, <3>1 DEF Counted, Holders
    <3>2. CASE mapped' = 0 /\ openCount[mapped] <= 0
      <4>1. /\ openCount[mapped] = Cardinality(Holders(mapped))
            /\ Cardinality(Holders(mapped)) \in Nat /\ IsFiniteSet(Holders(mapped))
        BY <2>1, <2>4, HoldersFinite, FS_CardinalityType DEF Counted
      <4>2. Cardinality(Holders(mapped)) = 0
        BY <3>2, <4>1
      <4>3. Holders(mapped) = {}
        BY <4>1, <4>2, FS_EmptySet
      <4>4. \A u \in Users : holds'[u] = 0
        BY <2>1, <2>4, <4>3 DEF Counted, Holders
      <4>. QED
        BY <3>2, <4>4 DEF Counted
    <3>. QED
      BY <2>1, <3>1, <3>2
  <2>. QED
    BY <1>11, <2>2, <2>3, <2>4 DEF HoldInv
<1>12. CASE ManagerNext /\ UNCHANGED sequenceVars
  <2>1. UNCHANGED pc
    BY <1>12 DEF sequenceVars
  <2>2. ASSUME NEW c \in Contracts, AddAdds(c)
        PROVE  HoldInv'
    BY <1>1, <2>1, <2>2 DEF AddAdds
  <2>. QED
    BY <1>4, <1>5, <1>6, <1>11, <1>12, <2>1, <2>2 DEF ManagerNext
<1>13. CASE \/ \E m \in Messages : Send(m)
            \/ \E c \in Contracts : Lapse(c)
            \/ AckItem \/ UNCHANGED vars
  <2>1. UNCHANGED <<mapped, made, openCount, holds, pc>>
    BY <1>13, ZenonT(30) DEF Send, Lapse, AckItem, vars, managerVars, sequenceVars
  <2>. QED
    BY <1>1, <2>1, ZenonT(30)
<1>14. CASE \E k \in 1 .. Len(out) : DropItem(k)
  <2>1. UNCHANGED <<mapped, made, openCount, holds, pc>>
    BY <1>14 DEF DropItem
  <2>. QED
    BY <1>1, <2>1
<1>15. CASE TakePolls \/ FlushDrains
  <2>1. /\ UNCHANGED <<mapped, made, openCount, holds>>
        /\ \/ pc = "taking" /\ pc' = "set"
           \/ pc = "flushing" /\ pc' = "flushed"
    BY <1>15 DEF TakePolls, FlushDrains
  <2>. QED
    BY <1>1, <2>1
<1>. QED
    BY <1>7, <1>8, <1>9, <1>10, <1>12, <1>13, <1>14, <1>15 DEF Next

\* The users of the queue are counted throughout.
LEMMA HoldInvariant == Spec => []HoldInv
<1>1. Init => HoldInv
  <2>. SUFFICES ASSUME Init
                PROVE  HoldInv
    OBVIOUS
  <2>. USE ItemFacts, UserFacts, QueueFacts
  <2>1. Counting
    BY ManagerAssumption DEF Init, ManagerInit, Counting
  <2>2. Counted /\ Calls
    BY DEF Init, ManagerInit, Counted, Calls
  <2>. QED
    BY <2>1, <2>2 DEF HoldInv
<1>. QED
    BY <1>1, HoldPreserved, ContractInvariant, WatchedInvariant, PTL DEF Spec

\* Until the sequence removes the queue by force, every call that opened it finds
\* it mapped, and openCount is the number of these calls, however opening, adding,
\* polling, expiring and closing interleave.
THEOREM UsersCounted == Spec => []HeldMapped
<1>1. HoldInv => HeldMapped
    BY DEF HoldInv, Counted, Holders, HeldMapped
<1>. QED
    BY <1>1, HoldInvariant, PTL

-----------------------------------------------------------------------------
(* The bytes under a contract. *)

\* The debits of the items of G.
Bytes(G) == SumFunctionOnSet([i \in Items |-> Debit(i)], G)

\* The items under contract c whose fate is one of F.
Group(c, F) == {i \in Items : fate[i] \in F /\ under[i] = c}

\* What was delivered under c, what its unacked count stands for, and the part of
\* that which no ack or drop releases: the writes without ack that failed.
Delivered(c) == Bytes(Group(c, {"acked", "sent"}))

Owed(c) == Bytes(Group(c, {"out", "failed"}))

Lost(c) == Bytes(Group(c, {"failed"}))

Amounts ==
    /\ acked \in [Contracts -> Nat]
    /\ unacked \in [Contracts -> Nat]
    /\ report \in [Contracts -> {<<>>} \cup (Nat \X Nat)]

\* The counts of an open contract, and that one that was replaced owes something.
Booked ==
    \A c \in open : /\ acked[c] = Delivered(c)
                    /\ unacked[c] = Owed(c)
                    /\ acked[c] + unacked[c] <= Capacity[c]
                    /\ c # current => unacked[c] # 0

\* A contract that the sequence does not use yet.
Fresh(c) == grant[c] \in {"none", "asked", "adding", "queued"} \/ c = hand

\* Nothing was debited from such a contract.
Unused ==
    \A c \in Contracts :
        Fresh(c) => acked[c] = 0 /\ unacked[c] = 0 /\ \A i \in Items : under[i] # c

\* What waits for its ack is in sendItems, under a contract that is open.
Awaited == \A i \in Items : fate[i] = "out" => i \in Out /\ under[i] \in open

\* The contract that pays for the next message is open.
Paying == pc \in {"ready", "taking", "set", "retry"} /\ current # None => current \in open

\* Only a contract that was closed has a report.
Reported ==
    \A c \in Contracts :
        report[c] # <<>> => /\ grant[c] \in {"closing", "closed"}
                            /\ report[c] = <<Delivered(c), Lost(c)>>

\* The items that were sent, finitely many at any time.
SentItems == {i \in Items : fate[i] # "unsent"}

LedgerInv ==
    /\ Amounts /\ IsFiniteSet(SentItems)
    /\ Booked /\ Unused /\ Awaited /\ Paying /\ Reported

\* Every item debits something.
LEMMA DebitFacts ==
    \A i \in Items : Debit(i) \in Nat \ {0} /\ [j \in Items |-> Debit(j)][i] = Debit(i)
BY SendContractsAssumption DEF Debit

\* What the debits of a finite set of items come to.
LEMMA BytesFacts ==
    ASSUME NEW G, G \subseteq Items, IsFiniteSet(G)
    PROVE  /\ Bytes(G) \in Nat
           /\ Bytes(G) = 0 <=> G = {}
           /\ \A x \in G : Bytes(G) = Debit(x) + Bytes(G \ {x}) /\ Bytes(G \ {x}) \in Nat
           /\ \A x \in Items \ G : Bytes(G \cup {x}) = Debit(x) + Bytes(G)
           /\ \A H \in SUBSET G : /\ Bytes(G) = Bytes(H) + Bytes(G \ H)
                                  /\ Bytes(H) \in Nat /\ Bytes(G \ H) \in Nat
<1>. DEFINE f == [i \in Items |-> Debit(i)]
<1>1. \A i \in Items : f[i] \in Nat \ {0} /\ f[i] = Debit(i)
    BY DebitFacts
<1>2. \A H : Bytes(H) = SumFunctionOnSet(f, H)
    BY DEF Bytes
<1>. HIDE DEF f
<1>3. \A i \in G : f[i] \in Nat
    BY <1>1
<1>4. \A H \in SUBSET G : IsFiniteSet(H) /\ Bytes(H) \in Nat
  <2>. SUFFICES ASSUME NEW H \in SUBSET G
                PROVE  IsFiniteSet(H) /\ Bytes(H) \in Nat
    OBVIOUS
  <2>1. IsFiniteSet(H)
    BY FS_Subset
  <2>2. \A i \in H : f[i] \in Nat
    BY <1>3
  <2>3. SumFunctionOnSet(f, H) \in Nat
    BY <2>1, <2>2, SumType
  <2>. QED
    BY <1>2, <2>1, <2>3
<1>5. ASSUME NEW x \in G
      PROVE  Bytes(G) = Debit(x) + Bytes(G \ {x}) /\ Bytes(G \ {x}) \in Nat
  <2>1. SumFunctionOnSet(f, G) = f[x] + SumFunctionOnSet(f, G \ {x})
    BY <1>3, SumRemove
  <2>. QED
    BY <1>1, <1>2, <1>4, <2>1
<1>6. ASSUME NEW x \in Items \ G
      PROVE  Bytes(G \cup {x}) = Debit(x) + Bytes(G)
  <2>1. x \notin G /\ \A i \in G \cup {x} : f[i] \in Nat
    BY <1>1
  <2>2. SumFunctionOnSet(f, G \cup {x}) = f[x] + SumFunctionOnSet(f, G)
    BY <2>1, SumAdd
  <2>. QED
    BY <1>1, <1>2, <2>2
<1>7. ASSUME NEW H \in SUBSET G
      PROVE  Bytes(G) = Bytes(H) + Bytes(G \ H) /\ Bytes(H) \in Nat /\ Bytes(G \ H) \in Nat
  <2>1. SumFunctionOnSet(f, G) = SumFunctionOnSet(f, H) + SumFunctionOnSet(f, G \ H)
    BY <1>3, SumSplit
  <2>. QED
    BY <1>2, <1>4, <2>1
<1>8. Bytes({}) = 0
    BY <1>2, SumEmpty
<1>9. ASSUME Bytes(G) = 0
      PROVE  G = {}
  <2>1. ASSUME NEW x \in G
        PROVE  FALSE
    <3>1. Bytes(G) = Debit(x) + Bytes(G \ {x}) /\ Bytes(G \ {x}) \in Nat
      BY <1>5
    <3>2. Debit(x) \in Nat \ {0}
      BY DebitFacts
    <3>. QED
      BY <1>9, <3>1, <3>2
  <2>. QED
    BY <2>1
<1>10. Bytes(G) \in Nat
    BY <1>4
<1>. QED
    BY <1>5, <1>6, <1>7, <1>8, <1>9, <1>10, ZenonT(30)

\* What the debits of no item and of two items come to.
LEMMA BytesOfTwo ==
    ASSUME NEW x \in Items, NEW y \in Items, x # y
    PROVE  Bytes({}) = 0 /\ Bytes({x} \cup {y}) = Debit(y) + Debit(x)
<1>1. Bytes({}) = 0
    BY BytesFacts, FS_EmptySet
<1>2. {x} \subseteq Items /\ IsFiniteSet({x}) /\ {x} \ {x} = {} /\ y \in Items \ {x}
    BY FS_Singleton
<1>3. Bytes({x}) = Debit(x) + Bytes({x} \ {x})
    BY <1>2, BytesFacts
<1>4. Bytes({x} \cup {y}) = Debit(y) + Bytes({x})
    BY <1>2, BytesFacts
<1>5. Debit(x) \in Nat
    BY DebitFacts
<1>6. Bytes({x}) = Debit(x)
    BY <1>1, <1>2, <1>3, <1>5
<1>. QED
    BY <1>1, <1>4, <1>6

\* The items of a contract are finitely many.
LEMMA GroupFinite ==
    ASSUME LedgerInv, NEW c, NEW F, "unsent" \notin F
    PROVE  Group(c, F) \subseteq Items /\ IsFiniteSet(Group(c, F))
<1>1. Group(c, F) \in SUBSET SentItems
    BY DEF Group, SentItems
<1>. QED
    BY <1>1, FS_Subset DEF LedgerInv, Group

\* A contract the sequence does not use yet was not used a step ago, unless
\* another one came to its hand.
LEMMA FreshBefore ==
    ASSUME NEW c \in Contracts, GrantMoves(c), c = hand' => Fresh(c), Fresh(c)'
    PROVE  Fresh(c)
BY DEF Fresh, GrantMoves

\* CloseContract of the contracts C, with the counts they have after the step.
Filed(C) ==
    report' = [c \in Contracts |-> IF c \in C THEN <<acked'[c], unacked'[c]>> ELSE report[c]]

\* A close of the contracts C reports their counts, if these are what it should
\* report, and leaves every other report as good as it was.
LEMMA ReportStep ==
    ASSUME LedgerInv, NEW C,
           Filed(C),
           \A c \in Contracts : GrantMoves(c),
           \A c \in C : /\ grant'[c] \in {"closing", "closed"}
                        /\ acked'[c] \in Nat /\ unacked'[c] \in Nat
                        /\ acked'[c] = Delivered(c)' /\ unacked'[c] = Lost(c)',
           \A c \in Contracts :
               report[c] # <<>> => Delivered(c)' = Delivered(c) /\ Lost(c)' = Lost(c)
    PROVE  Reported' /\ report' \in [Contracts -> {<<>>} \cup (Nat \X Nat)]
<1>1. /\ \A c \in Contracts :
             report'[c] = IF c \in C THEN <<acked'[c], unacked'[c]>> ELSE report[c]
      /\ report' = [c \in Contracts |-> report'[c]]
    BY DEF Filed
<1>2. ASSUME NEW c \in Contracts
      PROVE  /\ report'[c] \in {<<>>} \cup (Nat \X Nat)
             /\ report'[c] # <<>> => /\ grant'[c] \in {"closing", "closed"}
                                     /\ report'[c] = <<Delivered(c)', Lost(c)'>>
  <2>1. CASE c \in C
    BY <1>1, <2>1
  <2>2. CASE c \notin C
    <3>1. report'[c] = report[c] /\ report[c] \in {<<>>} \cup (Nat \X Nat)
      BY <1>1, <2>2 DEF LedgerInv, Amounts
    <3>2. ASSUME report[c] # <<>>
          PROVE  /\ grant'[c] \in {"closing", "closed"}
                 /\ report[c] = <<Delivered(c)', Lost(c)'>>
      <4>1. grant[c] \in {"closing", "closed"} /\ report[c] = <<Delivered(c), Lost(c)>>
        BY <3>2 DEF LedgerInv, Reported
      <4>2. grant'[c] \in {"closing", "closed"}
        BY <4>1 DEF GrantMoves
      <4>. QED
        BY <3>2, <4>1, <4>2, ZenonT(30)
    <3>. QED
      BY <3>1, <3>2
  <2>. QED
    BY <2>1, <2>2
<1>3. Reported'
    BY <1>2 DEF Reported
<1>4. report' \in [Contracts -> {<<>>} \cup (Nat \X Nat)]
    BY <1>1, <1>2
<1>. QED
    BY <1>3, <1>4

\* A step that debits nothing and releases nothing.
LEMMA LedgerFrame ==
    ASSUME LedgerInv, UNCHANGED <<acked, unacked, fate, under, out, open, current>>,
           \A c \in Contracts : GrantMoves(c) /\ (c = hand' => Fresh(c)),
           pc' \in {"ready", "taking", "set", "retry"} => pc \in {"ready", "taking", "set", "retry"},
           Reported', report' \in [Contracts -> {<<>>} \cup (Nat \X Nat)]
    PROVE  LedgerInv'
<1>1. Amounts' /\ IsFiniteSet(SentItems)'
    BY DEF LedgerInv, Amounts, SentItems
<1>2. Booked'
    BY ZenonT(30) DEF LedgerInv, Booked, Delivered, Owed, Group
<1>3. Unused'
    BY FreshBefore DEF LedgerInv, Unused
<1>4. Awaited' /\ Paying'
    BY DEF LedgerInv, Awaited, Paying, Out
<1>. QED
    BY <1>1, <1>2, <1>3, <1>4 DEF LedgerInv

\* An item that waited for its ack is acked or dropped: its debit leaves the
\* unacked count of its contract, which is closed if that was the last one and
\* the contract was replaced.
LEMMA Settled ==
    ASSUME ContractInv, LedgerInv, NEW i \in Items, fate[i] = "out", NEW c, c = under[i],
           NEW y \in {"acked", "dropped"}, fate' = [fate EXCEPT ![i] = y],
           NEW n, n = unacked[c] - Debit(i),
           acked' = (IF y = "acked" THEN [acked EXCEPT ![c] = @ + Debit(i)] ELSE acked),
           unacked' = [unacked EXCEPT ![c] = n],
           NEW C, C = Finished(c, n), open' = open \ C,
           Filed(C),
           \A d \in Contracts : GrantMoves(d), \A d \in C : grant'[d] \in {"closing", "closed"},
           Out' = Out \ {i}, UNCHANGED <<under, pc, hand, current>>
    PROVE  LedgerInv'
<1>. USE ItemFacts
<1>1. /\ c \in open /\ c \in Contracts /\ i \in Out /\ fate \in [Items -> Fates]
      /\ open \subseteq Contracts /\ acked \in [Contracts -> Nat] /\ unacked \in [Contracts -> Nat]
      /\ current \in Contracts \cup {None}
    BY ZenonT(30) DEF LedgerInv, Awaited, Amounts, ContractInv, Types
<1>2. /\ fate'[i] = y /\ \A j \in Items : j # i => fate'[j] = fate[j]
      /\ C = {d \in {c} : d # current /\ n = 0}
    BY <1>1, ZenonT(30) DEF Finished
<1>3. /\ grant[c] = "taken" /\ c # hand
      /\ \A d \in Contracts : report[d] # <<>> => d # c
    BY <1>1, ZenonT(30) DEF ContractInv, PlacedOnce, LedgerInv, Reported
<1>4. ASSUME NEW d \in Contracts, d # c
      PROVE  Delivered(d)' = Delivered(d) /\ Owed(d)' = Owed(d) /\ Lost(d)' = Lost(d)
  <2>1. \A F : {j \in Items : fate'[j] \in F /\ under'[j] = d} = Group(d, F)
    BY <1>2, <1>4, ZenonT(30) DEF Group
  <2>. QED
    BY <2>1, ZenonT(30) DEF Delivered, Owed, Lost, Group
<1>5. /\ Owed(c) = Debit(i) + Owed(c)' /\ Owed(c)' \in Nat
      /\ Owed(c)' = 0 => Group(c, {"out", "failed"})' = {}
  <2>. DEFINE G == Group(c, {"out", "failed"})
  <2>0. "unsent" \notin {"out", "failed"}
    BY ZenonT(30)
  <2>1. G \subseteq Items /\ IsFiniteSet(G) /\ i \in G
    <3>1. i \in G
      BY DEF Group
    <3>. QED
      BY <2>0, <3>1, GroupFinite
  <2>2. Group(c, {"out", "failed"})' = G \ {i}
    BY <1>2, ZenonT(30) DEF Group
  <2>. HIDE DEF G
  <2>3. Bytes(G) = Debit(i) + Bytes(G \ {i}) /\ Bytes(G \ {i}) \in Nat
    BY <2>1, BytesFacts
  <2>4. G \ {i} \subseteq Items /\ IsFiniteSet(G \ {i})
    BY <2>1, FS_RemoveElement
  <2>5. Bytes(G \ {i}) = 0 => G \ {i} = {}
    BY <2>4, BytesFacts, ZenonT(30)
  <2>6. Owed(c) = Bytes(G) /\ Owed(c)' = Bytes(G \ {i})
    BY <2>2, ZenonT(30) DEF Owed, G
  <2>. QED
    BY <2>2, <2>3, <2>5, <2>6
<1>6. acked[c] \in Nat /\ Debit(i) \in Nat /\ acked[c] = Delivered(c) /\ unacked[c] = Owed(c)
    BY <1>1, DebitFacts, ZenonT(30) DEF LedgerInv, Booked
<1>7. /\ Delivered(c)' = IF y = "acked" THEN Debit(i) + Delivered(c) ELSE Delivered(c)
  <2>. DEFINE G == Group(c, {"acked", "sent"})
  <2>0. "unsent" \notin {"acked", "sent"}
    OBVIOUS
  <2>1. G \subseteq Items /\ IsFiniteSet(G) /\ i \notin G
    <3>1. i \notin G
      BY DEF Group
    <3>. QED
      BY <2>0, <3>1, GroupFinite
  <2>2. Group(c, {"acked", "sent"})' = IF y = "acked" THEN G \cup {i} ELSE G
    BY <1>2 DEF Group
  <2>. HIDE DEF G
  <2>3. Bytes(G \cup {i}) = Debit(i) + Bytes(G)
    BY <2>1, BytesFacts, ZenonT(30)
  <2>4. Delivered(c) = Bytes(G) /\ Delivered(c)' = Bytes(IF y = "acked" THEN G \cup {i} ELSE G)
    BY <2>2, ZenonT(30) DEF Delivered, G
  <2>. QED
    BY <2>3, <2>4
<1>8. /\ acked'[c] = Delivered(c)' /\ unacked'[c] = Owed(c)' /\ n = Owed(c)'
      /\ acked'[c] \in Nat /\ unacked'[c] \in Nat
      /\ acked'[c] + unacked'[c] <= acked[c] + unacked[c]
  <2>1. acked'[c] = (IF y = "acked" THEN acked[c] + Debit(i) ELSE acked[c]) /\ unacked'[c] = n
    BY <1>1, ZenonT(30)
  <2>. QED
    BY <1>5, <1>6, <1>7, <2>1
<1>9. \A d \in Contracts : d # c => acked'[d] = acked[d] /\ unacked'[d] = unacked[d]
    BY <1>1, ZenonT(30)
<1>10. acked' \in [Contracts -> Nat] /\ unacked' \in [Contracts -> Nat]
    BY <1>1, <1>6, <1>8, ZenonT(30)
<1>11. IsFiniteSet(SentItems)'
  <2>1. SentItems' = SentItems
    BY <1>2, ZenonT(30) DEF SentItems
  <2>. QED
    BY <2>1, ZenonT(30) DEF LedgerInv
<1>12. Booked'
  <2>1. c \in open' => c = current \/ unacked'[c] # 0
    BY <1>2, <1>5, <1>8, ZenonT(30)
  <2>2. acked'[c] + unacked'[c] <= Capacity[c]
    <3>1. acked[c] + unacked[c] <= Capacity[c]
      BY <1>1, ZenonT(30) DEF LedgerInv, Booked
    <3>2. unacked[c] \in Nat /\ Capacity[c] \in Nat
      BY <1>1, SendContractsAssumption
    <3>. QED
      BY <1>6, <1>8, <3>1, <3>2
  <2>3. ASSUME NEW d \in open', d # c
        PROVE  /\ acked'[d] = Delivered(d)' /\ unacked'[d] = Owed(d)'
               /\ acked'[d] + unacked'[d] <= Capacity[d]
               /\ d # current => unacked'[d] # 0
    BY <1>1, <1>4, <1>9, <2>3, ZenonT(30) DEF LedgerInv, Booked
  <2>. QED
    BY <1>8, <2>1, <2>2, <2>3, ZenonT(30) DEF Booked
<1>13. Unused'
  <2>1. ASSUME NEW d \in Contracts, Fresh(d)'
        PROVE  Fresh(d) /\ d # c
    BY <1>3, <2>1, ZenonT(30) DEF Fresh, GrantMoves
  <2>. QED
    BY <1>9, <2>1 DEF LedgerInv, Unused
<1>14. ASSUME C # {}
       PROVE  C = {c} /\ c # current /\ Group(c, {"out", "failed"})' = {}
    BY <1>2, <1>5, <1>8, <1>14, ZenonT(30)
<1>15. Awaited'
  <2>1. ASSUME NEW j \in Items, fate'[j] = "out"
        PROVE  j \in Out' /\ under'[j] \in open'
    <3>1. j # i /\ fate[j] = "out"
      BY <1>2, <2>1
    <3>2. j \in Out' /\ under[j] \in open
      BY <3>1, ZenonT(30) DEF LedgerInv, Awaited
    <3>3. under[j] \notin C
      BY <1>14, <2>1, ZenonT(30) DEF Group
    <3>. QED
      BY <3>2, <3>3
  <2>. QED
    BY <2>1 DEF Awaited
<1>16. Paying'
    BY <1>2 DEF LedgerInv, Paying
<1>17. Reported' /\ report' \in [Contracts -> {<<>>} \cup (Nat \X Nat)]
  <2>1. ASSUME NEW d \in C
        PROVE  /\ acked'[d] \in Nat /\ unacked'[d] \in Nat
               /\ acked'[d] = Delivered(d)' /\ unacked'[d] = Lost(d)'
    <3>1. d = c /\ n = 0 /\ Group(c, {"out", "failed"})' = {}
      BY <1>2, <1>14, ZenonT(30)
    <3>2. Group(c, {"failed"})' = {}
      BY <3>1, ZenonT(30) DEF Group
    <3>3. Lost(c)' = 0
      BY <3>2, BytesFacts, FS_EmptySet, ZenonT(30) DEF Lost
    <3>. QED
      BY <1>5, <1>8, <3>1, <3>3, ZenonT(30)
  <2>2. \A d \in C : /\ grant'[d] \in {"closing", "closed"}
                     /\ acked'[d] \in Nat /\ unacked'[d] \in Nat
                     /\ acked'[d] = Delivered(d)' /\ unacked'[d] = Lost(d)'
    BY <2>1, Zenon
  <2>3. \A d \in Contracts :
            report[d] # <<>> => Delivered(d)' = Delivered(d) /\ Lost(d)' = Lost(d)
    BY <1>3, <1>4, Zenon
  <2>. QED
    BY <2>2, <2>3, ReportStep, ZenonT(30)
<1>. QED
    BY <1>10, <1>11, <1>12, <1>13, <1>15, <1>16, <1>17, ZenonT(30) DEF LedgerInv, Amounts

\* A contract that a step takes out of openSendContracts is closed by it.
LEMMA ClosedNow ==
    ASSUME ContractInv, ContractInv', NEW c \in open, c \notin open', c # hand',
           \A d \in Contracts : GrantMoves(d)
    PROVE  c \in Contracts /\ grant'[c] \in {"closing", "closed"}
<1>1. c \in Contracts /\ grant[c] = "taken"
    BY ZenonT(30) DEF ContractInv, Types, PlacedOnce
<1>2. grant'[c] # "taken"
    BY <1>1, ZenonT(30) DEF ContractInv, PlacedOnce
<1>. QED
    BY <1>1, <1>2, ZenonT(30) DEF GrantMoves

\* A message that is sent is debited from the contract that pays for it.
LEMMA SendBooks ==
    ASSUME ContractInv, LedgerInv, NEW m \in Messages, Send(m)
    PROVE  LedgerInv'
<1>. USE ItemFacts
<1>1. PICK c : c = current
    BY ZenonT(30)
<1>2. /\ c \in open /\ c \in Contracts /\ m \in Items /\ fate[m] = "unsent"
      /\ under' = [under EXCEPT ![m] = c]
      /\ acked[c] + unacked[c] + Debit(m) <= Capacity[c]
      /\ UNCHANGED <<grant, pc, hand, current, open, report>>
    BY <1>1, ZenonT(30) DEF Send, Fits, managerVars, LedgerInv, Paying, ContractInv, Types
<1>3. PICK y \in {"out", "sent", "failed"} :
          /\ fate' = [fate EXCEPT ![m] = y]
          /\ IF y = "sent" THEN /\ acked' = [acked EXCEPT ![c] = @ + Debit(m)]
                                /\ unacked' = unacked
                           ELSE /\ unacked' = [unacked EXCEPT ![c] = @ + Debit(m)]
                                /\ acked' = acked
          /\ out' = IF y = "out" THEN Append(out, m) ELSE out
    <2>1. CASE /\ unacked' = [unacked EXCEPT ![current] = @ + Debit(m)] /\ UNCHANGED acked
               /\ out' = Append(out, m) /\ fate' = [fate EXCEPT ![m] = "out"]
      BY <1>1, <2>1
    <2>2. CASE /\ acked' = [acked EXCEPT ![current] = @ + Debit(m)]
               /\ fate' = [fate EXCEPT ![m] = "sent"] /\ UNCHANGED <<unacked, out>>
      BY <1>1, <2>2
    <2>3. CASE /\ unacked' = [unacked EXCEPT ![current] = @ + Debit(m)]
               /\ fate' = [fate EXCEPT ![m] = "failed"] /\ UNCHANGED <<acked, out>>
      BY <1>1, <2>3
    <2>. QED
      BY <2>1, <2>2, <2>3 DEF Send
<1>4. /\ fate \in [Items -> Fates] /\ under \in [Items -> Contracts \cup {None}]
      /\ out \in Seq(Items) /\ open \subseteq Contracts
      /\ acked \in [Contracts -> Nat] /\ unacked \in [Contracts -> Nat]
    BY DEF ContractInv, Types, LedgerInv, Amounts
<1>5. /\ fate'[m] = y /\ under'[m] = c
      /\ \A j \in Items : j # m => fate'[j] = fate[j] /\ under'[j] = under[j]
    BY <1>2, <1>3, <1>4, ZenonT(30)
<1>6. grant[c] = "taken" /\ c # hand /\ \A d \in Contracts : report[d] # <<>> => d # c
    BY <1>2, ZenonT(30) DEF ContractInv, PlacedOnce, LedgerInv, Reported
<1>7. ASSUME NEW d, NEW F, "unsent" \notin F
      PROVE  {j \in Items : fate'[j] \in F /\ under'[j] = d}
               = IF d = c /\ y \in F THEN Group(d, F) \cup {m} ELSE Group(d, F)
    BY <1>2, <1>5, <1>7, ZenonT(30) DEF Group
<1>8. ASSUME NEW F, "unsent" \notin F
      PROVE  /\ y \in F => Bytes(Group(c, F) \cup {m}) = Debit(m) + Bytes(Group(c, F))
             /\ Bytes(Group(c, F)) \in Nat
  <2>1. Group(c, F) \subseteq Items /\ IsFiniteSet(Group(c, F))
    BY <1>8, GroupFinite
  <2>2. m \in Items \ Group(c, F)
    BY <1>2, <1>8 DEF Group
  <2>. QED
    BY <2>1, <2>2, BytesFacts
<1>9. /\ "unsent" \notin {"acked", "sent"} /\ "unsent" \notin {"out", "failed"}
      /\ "unsent" \notin {"failed"}
    BY ZenonT(30)
<1>10. ASSUME NEW d \in Contracts, d # c
       PROVE  Delivered(d)' = Delivered(d) /\ Owed(d)' = Owed(d) /\ Lost(d)' = Lost(d)
  <2>1. ASSUME NEW F, "unsent" \notin F
        PROVE  {j \in Items : fate'[j] \in F /\ under'[j] = d} = Group(d, F)
    BY <1>7, <1>10, <2>1, ZenonT(30)
  <2>2. /\ {j \in Items : fate'[j] \in {"acked", "sent"} /\ under'[j] = d} = Group(d, {"acked", "sent"})
        /\ {j \in Items : fate'[j] \in {"out", "failed"} /\ under'[j] = d} = Group(d, {"out", "failed"})
        /\ {j \in Items : fate'[j] \in {"failed"} /\ under'[j] = d} = Group(d, {"failed"})
    BY <1>9, <2>1, ZenonT(30)
  <2>. QED
    BY <2>2, ZenonT(30) DEF Delivered, Owed, Lost, Group
<1>11. /\ Delivered(c)' = IF y = "sent" THEN Debit(m) + Delivered(c) ELSE Delivered(c)
       /\ Owed(c)' = IF y = "sent" THEN Owed(c) ELSE Debit(m) + Owed(c)
  <2>1. {j \in Items : fate'[j] \in {"acked", "sent"} /\ under'[j] = c}
           = IF y = "sent" THEN Group(c, {"acked", "sent"}) \cup {m} ELSE Group(c, {"acked", "sent"})
    BY <1>3, <1>7, <1>9, ZenonT(30)
  <2>2. {j \in Items : fate'[j] \in {"out", "failed"} /\ under'[j] = c}
           = IF y = "sent" THEN Group(c, {"out", "failed"}) ELSE Group(c, {"out", "failed"}) \cup {m}
    BY <1>3, <1>7, <1>9, ZenonT(30)
  <2>3. /\ y = "sent" => Bytes(Group(c, {"acked", "sent"}) \cup {m})
                            = Debit(m) + Bytes(Group(c, {"acked", "sent"}))
        /\ y # "sent" => Bytes(Group(c, {"out", "failed"}) \cup {m})
                            = Debit(m) + Bytes(Group(c, {"out", "failed"}))
    BY <1>3, <1>8, <1>9
  <2>4. /\ Delivered(c)' = Bytes({j \in Items : fate'[j] \in {"acked", "sent"} /\ under'[j] = c})
        /\ Owed(c)' = Bytes({j \in Items : fate'[j] \in {"out", "failed"} /\ under'[j] = c})
    BY DEF Delivered, Owed, Group
  <2>. QED
    BY <2>1, <2>2, <2>3, <2>4, ZenonT(30) DEF Delivered, Owed
<1>12. /\ Debit(m) \in Nat /\ acked[c] \in Nat /\ unacked[c] \in Nat /\ Capacity[c] \in Nat
       /\ acked[c] = Delivered(c) /\ unacked[c] = Owed(c)
    BY <1>2, <1>4, DebitFacts, SendContractsAssumption, ZenonT(30) DEF LedgerInv, Booked
<1>13. /\ acked'[c] = Delivered(c)' /\ unacked'[c] = Owed(c)'
       /\ acked'[c] + unacked'[c] <= Capacity[c]
       /\ \A d \in Contracts : d # c => acked'[d] = acked[d] /\ unacked'[d] = unacked[d]
       /\ acked' \in [Contracts -> Nat] /\ unacked' \in [Contracts -> Nat]
  <2>1. CASE y = "sent"
    <3>1. acked' = [acked EXCEPT ![c] = @ + Debit(m)] /\ unacked' = unacked
      BY <1>3, <2>1
    <3>2. Delivered(c)' = Debit(m) + Delivered(c) /\ Owed(c)' = Owed(c)
      BY <1>11, <2>1, ZenonT(30)
    <3>. QED
      BY <1>2, <1>4, <1>12, <3>1, <3>2
  <2>2. CASE y # "sent"
    <3>1. unacked' = [unacked EXCEPT ![c] = @ + Debit(m)] /\ acked' = acked
      BY <1>3, <2>2
    <3>2. Delivered(c)' = Delivered(c) /\ Owed(c)' = Debit(m) + Owed(c)
      BY <1>11, <2>2
    <3>. QED
      BY <1>2, <1>4, <1>12, <3>1, <3>2
  <2>. QED
    BY <2>1, <2>2, ZenonT(30)
<1>14. IsFiniteSet(SentItems)'
  <2>1. SentItems' = SentItems \cup {m}
    BY <1>2, <1>3, <1>5, ZenonT(30) DEF SentItems
  <2>. QED
    BY <2>1, FS_AddElement DEF LedgerInv
<1>15. Booked'
    BY <1>1, <1>2, <1>4, <1>10, <1>13, ZenonT(30) DEF LedgerInv, Booked
<1>16. Unused'
    BY <1>2, <1>5, <1>6, <1>13 DEF LedgerInv, Unused, Fresh
<1>17. Awaited'
  <2>1. Out \subseteq Out' /\ (y = "out" => m \in Out')
    <3>1. Out = Elements(out) /\ Out' = Elements(out')
      BY ZenonT(30) DEF Out, Elements
    <3>2. Elements(out) \subseteq Elements(Append(out, m)) /\ m \in Elements(Append(out, m))
      BY <1>2, <1>4, Appends
    <3>. QED
      BY <1>3, <3>1, <3>2, ZenonT(30)
  <2>2. ASSUME NEW j \in Items, fate'[j] = "out"
        PROVE  j \in Out' /\ under'[j] \in open'
    <3>0. c \in open /\ open' = open
      BY <1>2, ZenonT(30)
    <3>1. CASE j = m
      <4>1. y = "out" /\ under'[j] = c
        BY <1>5, <2>2, <3>1, ZenonT(30)
      <4>. QED
        BY <2>1, <3>0, <3>1, <4>1, ZenonT(30)
    <3>2. CASE j # m
      <4>1. fate[j] = "out" /\ under'[j] = under[j]
        BY <1>5, <2>2, <3>2, ZenonT(30)
      <4>2. j \in Out /\ under[j] \in open
        BY <4>1, ZenonT(30) DEF LedgerInv, Awaited
      <4>. QED
        BY <2>1, <3>0, <4>1, <4>2, ZenonT(30)
    <3>. QED
      BY <3>1, <3>2, ZenonT(30)
  <2>. QED
    BY <2>2 DEF Awaited
<1>18. Paying'
    BY <1>2, ZenonT(30) DEF LedgerInv, Paying
<1>19. Reported' /\ report' \in [Contracts -> {<<>>} \cup (Nat \X Nat)]
    BY <1>2, <1>6, <1>10, ZenonT(30) DEF LedgerInv, Reported, Amounts
<1>. QED
    BY <1>13, <1>14, <1>15, <1>16, <1>17, <1>18, <1>19 DEF LedgerInv, Amounts

\* The contract in hand is announced and pays for the message it was taken for.
\* The one it replaces is closed if nothing is outstanding under it.
LEMMA SetBooks ==
    ASSUME ContractInv, ContractInv', LedgerInv, SetContract,
           \A d \in Contracts : GrantMoves(d)
    PROVE  LedgerInv'
<1>. USE ItemFacts
<1>1. PICK c, m, R : c = hand /\ m = wanted /\ R = Replaced
    BY ZenonT(30)
<1>2. /\ pc = "set" /\ open' = (open \ R) \cup {c} /\ current' = c
      /\ unacked' = [unacked EXCEPT ![c] = @ + MinBytes + Debit(m)]
      /\ out' = out \o <<c, m>>
      /\ fate' = [fate EXCEPT ![c] = "out", ![m] = "out"]
      /\ under' = [under EXCEPT ![c] = c, ![m] = c]
      /\ hand' = None /\ UNCHANGED acked
      /\ acked[c] + unacked[c] + (MinBytes + Debit(m)) <= Capacity[c]
    BY <1>1, ZenonT(30) DEF SetContract, Fits
<1>3. Filed(R)
  <2>1. report' = [d \in Contracts |-> IF d \in R THEN <<acked[d], unacked[d]>> ELSE report[d]]
    BY <1>1, ZenonT(30) DEF SetContract, Reports
  <2>2. /\ \A d \in R : d \in open /\ d # c /\ d \in Contracts
        /\ unacked \in [Contracts -> Nat]
    BY <1>1, <1>2, ZenonT(30) DEF Replaced, ContractInv, PlacedOnce, Types, Handed, LedgerInv, Amounts
  <2>3. \A d \in R : acked'[d] = acked[d] /\ unacked'[d] = unacked[d]
    BY <1>2, <2>2, ZenonT(30)
  <2>. QED
    BY <2>1, <2>3, ZenonT(30) DEF Filed
<1>4. /\ c \in Contracts /\ m \in Messages /\ c # m /\ c \in Items /\ m \in Items
      /\ fate[c] = "unsent" /\ fate[m] = "unsent" /\ c \notin open
      /\ grant[c] = "taken" /\ Fresh(c)
    BY <1>1, <1>2, ZenonT(30) DEF ContractInv, Handed, Unsent, PlacedOnce, Types, Fresh
<1>5. /\ fate \in [Items -> Fates] /\ under \in [Items -> Contracts \cup {None}]
      /\ out \in Seq(Items) /\ open \subseteq Contracts
      /\ acked \in [Contracts -> Nat] /\ unacked \in [Contracts -> Nat]
    BY ZenonT(30) DEF ContractInv, Types, LedgerInv, Amounts
<1>6. /\ fate'[c] = "out" /\ fate'[m] = "out" /\ under'[c] = c /\ under'[m] = c
      /\ \A j \in Items : j # c /\ j # m => fate'[j] = fate[j] /\ under'[j] = under[j]
    BY <1>2, <1>4, <1>5, ZenonT(30)
<1>7. acked[c] = 0 /\ unacked[c] = 0 /\ \A j \in Items : under[j] # c
    BY <1>4, ZenonT(30) DEF LedgerInv, Unused
<1>8. ASSUME NEW d \in Contracts, d # c
      PROVE  Delivered(d)' = Delivered(d) /\ Owed(d)' = Owed(d) /\ Lost(d)' = Lost(d)
  <2>1. ASSUME NEW F, "unsent" \notin F
        PROVE  {j \in Items : fate'[j] \in F /\ under'[j] = d} = Group(d, F)
    BY <1>4, <1>6, <1>8, <2>1, ZenonT(30) DEF Group
  <2>2. /\ {j \in Items : fate'[j] \in {"acked", "sent"} /\ under'[j] = d} = Group(d, {"acked", "sent"})
        /\ {j \in Items : fate'[j] \in {"out", "failed"} /\ under'[j] = d} = Group(d, {"out", "failed"})
        /\ {j \in Items : fate'[j] \in {"failed"} /\ under'[j] = d} = Group(d, {"failed"})
    BY <2>1
  <2>. QED
    BY <2>2, ZenonT(30) DEF Delivered, Owed, Lost, Group
<1>9. Delivered(c)' = 0 /\ Owed(c)' = MinBytes + Debit(m) /\ Debit(m) \in Nat /\ MinBytes \in Nat
  <2>1. /\ {j \in Items : fate'[j] \in {"acked", "sent"} /\ under'[j] = c} = {}
        /\ {j \in Items : fate'[j] \in {"out", "failed"} /\ under'[j] = c} = {m} \cup {c}
    BY <1>4, <1>6, <1>7, ZenonT(30)
  <2>2. Bytes({}) = 0 /\ Bytes({m} \cup {c}) = Debit(c) + Debit(m)
    BY <1>4, BytesOfTwo
  <2>3. Debit(c) = MinBytes /\ MinBytes \in Nat /\ Debit(m) \in Nat
    BY <1>4, DebitFacts, SendContractsAssumption DEF Debit
  <2>4. Delivered(c)' = Bytes({}) /\ Owed(c)' = Bytes({m} \cup {c})
    BY <2>1, ZenonT(30) DEF Delivered, Owed, Group
  <2>. QED
    BY <2>2, <2>3, <2>4, ZenonT(30)
<1>10. /\ acked'[c] = Delivered(c)' /\ unacked'[c] = Owed(c)'
       /\ acked'[c] + unacked'[c] <= Capacity[c]
       /\ \A d \in Contracts : d # c => acked'[d] = acked[d] /\ unacked'[d] = unacked[d]
       /\ acked' \in [Contracts -> Nat] /\ unacked' \in [Contracts -> Nat]
  <2>1. unacked[c] + MinBytes + Debit(m) = MinBytes + Debit(m) /\ MinBytes + Debit(m) \in Nat
    BY <1>7, <1>9
  <2>2. acked' = acked /\ unacked' = [unacked EXCEPT ![c] = unacked[c] + MinBytes + Debit(m)]
    BY <1>2, ZenonT(30)
  <2>3. unacked' = [unacked EXCEPT ![c] = MinBytes + Debit(m)]
    BY <2>1, <2>2, ZenonT(30)
  <2>4. /\ unacked' \in [Contracts -> Nat] /\ unacked'[c] = MinBytes + Debit(m)
        /\ \A d \in Contracts : d # c => unacked'[d] = unacked[d]
    <3>1. PICK n \in Nat : n = MinBytes + Debit(m)
      BY <2>1
    <3>2. unacked \in [Contracts -> Nat] /\ c \in Contracts /\ unacked' = [unacked EXCEPT ![c] = n]
      BY <1>4, <1>5, <2>3, <3>1, ZenonT(30)
    <3>. QED
      BY <3>1, <3>2, OneChanged
  <2>5. acked[c] + unacked[c] + (MinBytes + Debit(m)) <= Capacity[c]
    BY <1>2, ZenonT(30)
  <2>6. acked'[c] + unacked'[c] <= Capacity[c]
    BY <1>7, <1>9, <2>2, <2>4, <2>5
  <2>. QED
    BY <1>5, <1>7, <1>9, <2>2, <2>4, <2>6, ZenonT(30)
<1>11. IsFiniteSet(SentItems)'
  <2>1. SentItems' = (SentItems \cup {c}) \cup {m}
    BY <1>4, <1>6 DEF SentItems
  <2>2. IsFiniteSet((SentItems \cup {c}) \cup {m})
    BY FS_AddElement, ZenonT(30) DEF LedgerInv
  <2>. QED
    BY <2>1, <2>2
<1>12. ASSUME NEW d \in R
       PROVE  /\ d \in open /\ d \in Contracts /\ d # c
              /\ unacked[d] = 0 /\ Group(d, {"out", "failed"}) = {}
  <2>1. d \in open /\ unacked[d] = 0
    BY <1>1 DEF Replaced
  <2>2. Bytes(Group(d, {"out", "failed"})) = 0
    BY <2>1, ZenonT(30) DEF LedgerInv, Booked, Owed
  <2>3. "unsent" \notin {"out", "failed"}
    OBVIOUS
  <2>4. /\ Group(d, {"out", "failed"}) \subseteq Items
        /\ IsFiniteSet(Group(d, {"out", "failed"}))
    BY <2>3, GroupFinite
  <2>. QED
    BY <1>4, <1>5, <2>1, <2>2, <2>4, BytesFacts
<1>13. Booked'
  <2>1. ASSUME NEW d \in open', d # c
        PROVE  /\ acked'[d] = Delivered(d)' /\ unacked'[d] = Owed(d)'
               /\ acked'[d] + unacked'[d] <= Capacity[d] /\ unacked'[d] # 0
    <3>1. d \in open /\ d \notin R /\ d \in Contracts
      BY <1>2, <1>5, <2>1, ZenonT(30)
    <3>2. unacked[d] # 0
      BY <1>1, <3>1, ZenonT(30) DEF Replaced, LedgerInv, Booked
    <3>. QED
      BY <1>8, <1>10, <2>1, <3>1, <3>2 DEF LedgerInv, Booked
  <2>. QED
    BY <1>2, <1>10, <2>1, ZenonT(30) DEF Booked
<1>14. Unused'
  <2>1. ASSUME NEW d \in Contracts, Fresh(d)'
        PROVE  Fresh(d) /\ d # c
    BY <1>2, <1>4, <2>1 DEF Fresh, GrantMoves
  <2>2. \A d \in Contracts : Fresh(d)' => acked'[d] = 0 /\ unacked'[d] = 0
    BY <1>10, <2>1, ZenonT(30) DEF LedgerInv, Unused
  <2>3. \A d \in Contracts : Fresh(d)' => \A j \in Items : under'[j] # d
    BY <1>6, <2>1, ZenonT(30) DEF LedgerInv, Unused
  <2>. QED
    BY <2>2, <2>3, ZenonT(30) DEF Unused
<1>15. Awaited'
  <2>1. Out \subseteq Out' /\ c \in Out' /\ m \in Out'
    <3>1. Out = Elements(out) /\ Out' = Elements(out \o <<c, m>>)
      BY <1>2, ZenonT(30) DEF Out, Elements
    <3>. QED
      BY <1>4, <1>5, <3>1, AppendsTwo
  <2>2. ASSUME NEW j \in Items, fate'[j] = "out"
        PROVE  j \in Out' /\ under'[j] \in open'
    <3>1. CASE j = c \/ j = m
      BY <1>2, <1>6, <2>1, <3>1
    <3>2. CASE j # c /\ j # m
      <4>1. fate[j] = "out" /\ under'[j] = under[j]
        BY <1>6, <2>2, <3>2, ZenonT(30)
      <4>2. j \in Out /\ under[j] \in open
        BY <4>1, ZenonT(30) DEF LedgerInv, Awaited
      <4>3. under[j] \notin R
        BY <1>12, <4>1, ZenonT(30) DEF Group
      <4>4. open' = (open \ R) \cup {c}
        BY <1>2, ZenonT(30)
      <4>. QED
        BY <2>1, <4>1, <4>2, <4>3, <4>4, ZenonT(30)
    <3>. QED
      BY <3>1, <3>2
  <2>. QED
    BY <2>2, ZenonT(30) DEF Awaited
<1>16. Paying'
    BY <1>2 DEF Paying
<1>17. Reported' /\ report' \in [Contracts -> {<<>>} \cup (Nat \X Nat)]
  <2>1. ASSUME NEW d \in R
        PROVE  /\ grant'[d] \in {"closing", "closed"}
               /\ acked'[d] \in Nat /\ unacked'[d] \in Nat
               /\ acked'[d] = Delivered(d)' /\ unacked'[d] = Lost(d)'
    <3>1. d \in open /\ d \in Contracts /\ d # c /\ unacked[d] = 0
      BY <1>12, ZenonT(30)
    <3>2. Group(d, {"failed"}) = {}
      BY <1>12 DEF Group
    <3>3. Lost(d) = 0
      BY <3>2, BytesFacts, FS_EmptySet, ZenonT(30) DEF Lost
    <3>4. acked[d] = Delivered(d)
      BY <3>1, ZenonT(30) DEF LedgerInv, Booked
    <3>5. d \notin open' /\ d # hand'
      BY <1>2, <3>1, ZenonT(30)
    <3>6. grant'[d] \in {"closing", "closed"}
      BY <3>1, <3>5, ClosedNow
    <3>. QED
      BY <1>8, <1>10, <3>1, <3>3, <3>4, <3>6, ZenonT(30)
  <2>2. \A d \in R : /\ grant'[d] \in {"closing", "closed"}
                     /\ acked'[d] \in Nat /\ unacked'[d] \in Nat
                     /\ acked'[d] = Delivered(d)' /\ unacked'[d] = Lost(d)'
    BY <2>1, ZenonT(30)
  <2>3. \A d \in Contracts : report[d] # <<>> => d # c
    BY <1>4 DEF LedgerInv, Reported
  <2>4. \A d \in Contracts :
            report[d] # <<>> => Delivered(d)' = Delivered(d) /\ Lost(d)' = Lost(d)
    BY <1>8, <2>3, Zenon
  <2>. QED
    BY <1>3, <2>2, <2>4, ReportStep, ZenonT(30)
<1>. QED
    BY <1>10, <1>11, <1>13, <1>14, <1>15, <1>16, <1>17, ZenonT(30) DEF LedgerInv, Amounts

\* The teardown releases what still waits for an ack, and closes every contract
\* with what is left.
LEMMA ExitBooks ==
    ASSUME ContractInv, ContractInv', LedgerInv, Exit, \A d \in Contracts : GrantMoves(d)
    PROVE  LedgerInv'
<1>. USE ItemFacts
<1>1. PICK C : C = open
    BY ZenonT(30)
<1>2. /\ unacked' = [c \in Contracts |-> IF c \in C THEN Unacked(c, BytesUnder(c, Out)) ELSE unacked[c]]
      /\ open' = {} /\ fate' = [i \in Items |-> IF i \in Out THEN "dropped" ELSE fate[i]]
      /\ pc' = "flushing" /\ pc \in {"ready", "retry"} /\ UNCHANGED <<hand, current, acked, under>>
    BY <1>1, ZenonT(30) DEF Exit
<1>3. /\ fate \in [Items -> Fates] /\ C \subseteq Contracts
      /\ acked \in [Contracts -> Nat] /\ unacked \in [Contracts -> Nat]
    BY <1>1, ZenonT(30) DEF ContractInv, Types, LedgerInv, Amounts
<1>4. \A i \in Items : i \in Out <=> fate[i] = "out"
    BY ZenonT(30) DEF ContractInv, OutOnce, Out, LedgerInv, Awaited
<1>5. /\ \A i \in Items : fate[i] = "out" => fate'[i] = "dropped"
      /\ \A i \in Items : fate[i] # "out" => fate'[i] = fate[i]
    BY <1>2, <1>4, ZenonT(30)
<1>6. \A c \in Contracts : Delivered(c)' = Delivered(c) /\ Lost(c)' = Lost(c)
  <2>. SUFFICES ASSUME NEW c \in Contracts
                PROVE  Delivered(c)' = Delivered(c) /\ Lost(c)' = Lost(c)
    BY ZenonT(30)
  <2>1. /\ {j \in Items : fate'[j] \in {"acked", "sent"} /\ under'[j] = c} = Group(c, {"acked", "sent"})
        /\ {j \in Items : fate'[j] \in {"failed"} /\ under'[j] = c} = Group(c, {"failed"})
    BY <1>2, <1>5 DEF Group
  <2>. QED
    BY <2>1 DEF Delivered, Lost, Group
<1>7. ASSUME NEW c \in C
      PROVE  Unacked(c, BytesUnder(c, Out)) = Lost(c) /\ Lost(c) \in Nat
  <2>. DEFINE G == Group(c, {"out", "failed"})
              H == Group(c, {"failed"})
  <2>1. "unsent" \notin {"out", "failed"}
    OBVIOUS
  <2>2. G \subseteq Items /\ IsFiniteSet(G)
    BY <2>1, GroupFinite
  <2>3. H \in SUBSET G
    BY DEF Group
  <2>4. {i \in Out : under[i] = c} = G \ H
    <3>1. Out \subseteq Items
      BY DEF Out, ContractInv, Types
    <3>. QED
      BY <1>4, <3>1, ZenonT(30) DEF Group
  <2>. HIDE DEF G, H
  <2>5. /\ Bytes(G) = Bytes(H) + Bytes(G \ H)
        /\ Bytes(H) \in Nat /\ Bytes(G \ H) \in Nat
    BY <2>2, <2>3, BytesFacts
  <2>6. BytesUnder(c, Out) = Bytes(G \ H)
    BY <2>4, ZenonT(30) DEF BytesUnder, Bytes
  <2>7. unacked[c] = Bytes(G) /\ Lost(c) = Bytes(H)
    BY <1>1, ZenonT(30) DEF LedgerInv, Booked, Owed, Lost, G, H
  <2>. QED
    BY <2>5, <2>6, <2>7 DEF Unacked
<1>8. /\ \A c \in C : unacked'[c] = Lost(c)
      /\ \A c \in Contracts \ C : unacked'[c] = unacked[c]
      /\ unacked' \in [Contracts -> Nat] /\ acked' = acked
  <2>1. \A c \in C : unacked'[c] = Lost(c) /\ unacked'[c] \in Nat
    BY <1>2, <1>3, <1>7
  <2>2. \A c \in Contracts \ C : unacked'[c] = unacked[c] /\ unacked'[c] \in Nat
    BY <1>2, <1>3, ZenonT(30)
  <2>3. unacked' = [c \in Contracts |-> unacked'[c]]
    BY <1>2
  <2>4. \A c \in Contracts : unacked'[c] \in Nat
    BY <2>1, <2>2
  <2>5. unacked' \in [Contracts -> Nat]
    BY <2>3, <2>4, ZenonT(30)
  <2>. QED
    BY <1>2, <2>1, <2>2, <2>5, ZenonT(30)
<1>9. Filed(C)
  <2>1. report' = [c \in Contracts |->
                      IF c \in C
                      THEN <<acked[c], (IF c \in C THEN Unacked(c, BytesUnder(c, Out)) ELSE unacked[c])>>
                      ELSE report[c]]
    BY <1>1, ZenonT(30) DEF Exit, Reports
  <2>. QED
    BY <1>2, <1>8, <2>1, ZenonT(30) DEF Filed
<1>10. IsFiniteSet(SentItems)'
  <2>1. SentItems' = SentItems
    BY <1>5, ZenonT(30) DEF SentItems
  <2>. QED
    BY <2>1 DEF LedgerInv
<1>11. Booked' /\ Paying'
    BY <1>2, ZenonT(30) DEF Booked, Paying
<1>12. Unused'
  <2>1. \A d \in C : grant[d] = "taken" /\ d # hand
    BY <1>1, <1>3, ZenonT(30) DEF ContractInv, PlacedOnce
  <2>2. ASSUME NEW d \in Contracts, Fresh(d)'
        PROVE  Fresh(d) /\ d \notin C
    BY <1>2, <2>1, <2>2 DEF Fresh, GrantMoves
  <2>. QED
    BY <1>2, <1>8, <2>2, ZenonT(30) DEF LedgerInv, Unused
<1>13. Awaited'
    BY <1>5 DEF Awaited
<1>14. Reported' /\ report' \in [Contracts -> {<<>>} \cup (Nat \X Nat)]
  <2>1. ASSUME NEW d \in C
        PROVE  /\ grant'[d] \in {"closing", "closed"}
               /\ acked'[d] \in Nat /\ unacked'[d] \in Nat
               /\ acked'[d] = Delivered(d)' /\ unacked'[d] = Lost(d)'
    <3>1. d \in open /\ d \in Contracts /\ d \notin open' /\ d # hand'
      BY <1>1, <1>2, <1>3, ZenonT(30) DEF ContractInv, PlacedOnce
    <3>2. grant'[d] \in {"closing", "closed"}
      BY <3>1, ClosedNow, ZenonT(30)
    <3>3. acked[d] = Delivered(d)
      BY <3>1 DEF LedgerInv, Booked
    <3>. QED
      BY <1>3, <1>6, <1>8, <3>1, <3>2, <3>3, ZenonT(30)
  <2>2. \A d \in C : /\ grant'[d] \in {"closing", "closed"}
                     /\ acked'[d] \in Nat /\ unacked'[d] \in Nat
                     /\ acked'[d] = Delivered(d)' /\ unacked'[d] = Lost(d)'
    BY <2>1, Zenon
  <2>. QED
    BY <1>6, <1>9, <2>2, ReportStep, Zenon
<1>. QED
    BY <1>3, <1>8, <1>10, <1>11, <1>12, <1>13, <1>14, ZenonT(30) DEF LedgerInv, Amounts

\* The unacked count covers every item that waits for its ack: unack never finds
\* less than it releases.
LEMMA Covered ==
    ASSUME LedgerInv, NEW i \in Items, fate[i] = "out"
    PROVE  /\ under[i] \in open
           /\ unacked[under[i]] - Debit(i) = Unacked(under[i], Debit(i))
<1>1. PICK c : c = under[i]
    OBVIOUS
<1>. DEFINE G == Group(c, {"out", "failed"})
<1>2. c \in open
    BY <1>1, ZenonT(30) DEF LedgerInv, Awaited
<1>3. unacked[c] = Bytes(G)
    BY <1>2, ZenonT(30) DEF LedgerInv, Booked, Owed
<1>4. i \in G
    BY <1>1 DEF Group
<1>5. "unsent" \notin {"out", "failed"}
    OBVIOUS
<1>6. G \subseteq Items /\ IsFiniteSet(G)
    BY <1>5, GroupFinite, ZenonT(30)
<1>. HIDE DEF G
<1>7. Bytes(G) = Debit(i) + Bytes(G \ {i}) /\ Bytes(G \ {i}) \in Nat /\ Debit(i) \in Nat
    BY <1>4, <1>6, BytesFacts, DebitFacts
<1>8. ~ (unacked[c] < Debit(i))
    BY <1>3, <1>7
<1>. QED
    BY <1>1, <1>2, <1>8 DEF Unacked

\* Every step keeps the ledger.
LEMMA LedgerPreserved ==
    ContractInv /\ ContractInv' /\ Watched /\ LedgerInv /\ [Next]_vars => LedgerInv'
<1>. SUFFICES ASSUME ContractInv, ContractInv', Watched, LedgerInv, [Next]_vars
              PROVE  LedgerInv'
    OBVIOUS
<1>g. \A c \in Contracts : GrantMoves(c)
    BY GrantSteps
<1>1. ASSUME UNCHANGED <<acked, unacked, fate, under, out, open, current, report>>,
             \A c \in Contracts : c = hand' => Fresh(c),
             pc' \in {"ready", "taking", "set", "retry"} => pc \in {"ready", "taking", "set", "retry"}
      PROVE  LedgerInv'
  <2>1. Reported'
    BY <1>1, <1>g, ZenonT(30) DEF LedgerInv, Reported, GrantMoves, Delivered, Lost, Group
  <2>2. report' \in [Contracts -> {<<>>} \cup (Nat \X Nat)]
    BY <1>1 DEF LedgerInv, Amounts
  <2>. QED
    BY <1>1, <1>g, <2>1, <2>2, LedgerFrame, ZenonT(30)
<1>2. CASE \/ ManagerNext /\ UNCHANGED sequenceVars
           \/ \E m \in Messages : TakeOpens(m)
           \/ TakeTimesOut \/ FlushDrains \/ FlushRemoves
           \/ (\E c \in Contracts : Lapse(c)) \/ UNCHANGED vars
  <2>1. /\ UNCHANGED <<acked, unacked, fate, under, out, open, current, report, hand>>
        /\ pc' \in {"ready", "taking", "set", "retry"} => pc \in {"ready", "taking", "set", "retry"}
    BY <1>2, ZenonT(30) DEF TakeOpens, TakeTimesOut, FlushDrains, FlushRemoves, Lapse, vars, sequenceVars
  <2>. QED
    BY <1>1, <2>1 DEF Fresh
<1>3. CASE TakePolls
  <2>1. PICK q : q = holds[Sequence]
    BY ZenonT(30)
  <2>2. q \in Queues
    BY <1>3, <2>1, ZenonT(30) DEF TakePolls, ContractInv, Held
  <2>3. hand' \in queued[q]
    BY <1>3, <2>1, ZenonT(30) DEF TakePolls
  <2>4. \A c \in Contracts : c = hand' => grant[c] = "queued"
    BY <2>2, <2>3, ZenonT(30) DEF ContractInv, PlacedOnce
  <2>5. /\ UNCHANGED <<acked, unacked, fate, under, out, open, current, report>> /\ pc = "taking"
    BY <1>3 DEF TakePolls
  <2>. QED
    BY <1>1, <2>4, <2>5 DEF Fresh
<1>4. CASE RejectContract
  <2>1. PICK h : h = hand
    BY ZenonT(30)
  <2>2. /\ h \in Contracts /\ Fresh(h) /\ grant[h] = "taken"
        /\ UNCHANGED <<acked, unacked, fate, under, out, open, current>>
        /\ hand' = None /\ pc = "set"
    BY <1>4, <2>1, ItemFacts, ZenonT(30) DEF RejectContract, Fresh, ContractInv, Handed, Types, PlacedOnce
  <2>3. grant' = Closed(grant, {h})
    BY <1>4, <2>1 DEF RejectContract
  <2>4. grant'[h] \in {"closing", "closed"}
    <3>1. grant \in [Contracts -> GrantStates] /\ {h} \subseteq Contracts
      BY <2>2 DEF ContractInv, Types
    <3>2. \A c \in {h} : Closed(grant, {h})[c] \in {"closing", "closed"}
      BY <3>1, ClosedFacts, ZenonT(30)
    <3>. QED
      BY <2>3, <3>2, ZenonT(30)
  <2>5. Filed({h})
    BY <1>4, <2>1, <2>2, ZenonT(30) DEF RejectContract, Reports, Filed
  <2>6. acked[h] = 0 /\ unacked[h] = 0 /\ \A i \in Items : under[i] # h
    BY <2>2 DEF LedgerInv, Unused
  <2>7. \A c \in Contracts : Delivered(c)' = Delivered(c) /\ Lost(c)' = Lost(c)
    BY <2>2 DEF Delivered, Lost, Group
  <2>8. Delivered(h) = 0 /\ Lost(h) = 0
    <3>1. Group(h, {"acked", "sent"}) = {} /\ Group(h, {"failed"}) = {}
      BY <2>6 DEF Group
    <3>2. Bytes({}) = 0
      BY BytesFacts, FS_EmptySet, ZenonT(30)
    <3>. QED
      BY <3>1, <3>2 DEF Delivered, Lost
  <2>9. \A c \in {h} : /\ grant'[c] \in {"closing", "closed"}
                       /\ acked'[c] \in Nat /\ unacked'[c] \in Nat
                       /\ acked'[c] = Delivered(c)' /\ unacked'[c] = Lost(c)'
    BY <2>2, <2>4, <2>6, <2>7, <2>8
  <2>10. Reported' /\ report' \in [Contracts -> {<<>>} \cup (Nat \X Nat)]
    BY <1>g, <2>5, <2>7, <2>9, ReportStep, ZenonT(30)
  <2>. QED
    BY <1>g, <2>2, <2>10, LedgerFrame, ItemFacts
<1>5. CASE AckItem
  <2>1. PICK i, c, n, C : i = Head(out) /\ c = under[i] /\ n = unacked[c] - Debit(i) /\ C = Finished(c, n)
    BY ZenonT(30)
  <2>2. out \in Seq(Items) /\ out # <<>> /\ out' = Tail(out)
    BY <1>5 DEF AckItem, ContractInv, Types
  <2>3. i \in Out /\ Out' = Out \ {i} /\ Out \subseteq Items
    <3>1. NoDup(out)
      BY DEF NoDup, ContractInv, OutOnce
    <3>2. Head(out) \in Elements(out) /\ Elements(Tail(out)) = Elements(out) \ {Head(out)}
      BY <2>2, <3>1, TailTakes
    <3>3. Out = Elements(out) /\ Out' = Elements(Tail(out))
      BY <2>2, ZenonT(30) DEF Out, Elements
    <3>4. \A k \in 1 .. Len(out) : out[k] \in Items
      BY <2>2
    <3>5. Out \subseteq Items
      BY <3>4, ZenonT(30) DEF Out
    <3>. QED
      BY <2>1, <3>2, <3>3, <3>5, ZenonT(30)
  <2>4. i \in Items /\ fate[i] = "out"
    BY <2>3 DEF ContractInv, OutOnce, Out
  <2>5. c \in open
    BY <2>1, <2>4, Covered, ZenonT(30)
  <2>6. /\ fate' = [fate EXCEPT ![i] = "acked"] /\ acked' = [acked EXCEPT ![c] = @ + Debit(i)]
        /\ unacked' = [unacked EXCEPT ![c] = n] /\ open' = open \ C
        /\ UNCHANGED <<under, pc, hand, current>>
    BY <1>5, <2>1, <2>5, ZenonT(30) DEF AckItem, AckedBytes
  <2>7. Filed(C)
    BY <1>5, <2>1, <2>5 DEF AckItem, AckedBytes, Reports, Filed
  <2>8. \A d \in C : grant'[d] \in {"closing", "closed"}
    <3>. SUFFICES ASSUME NEW d \in C
                  PROVE  grant'[d] \in {"closing", "closed"}
      BY ZenonT(30)
    <3>1. d \in open /\ d \notin open' /\ d # hand'
      BY <2>1, <2>6 DEF Finished, ContractInv, PlacedOnce, Types
    <3>. QED
      BY <1>g, <3>1, ClosedNow
  <2>9. acked' = IF "acked" = "acked" THEN [acked EXCEPT ![c] = @ + Debit(i)] ELSE acked
    BY <2>6, ZenonT(30)
  <2>. QED
    BY <1>g, <2>1, <2>3, <2>4, <2>6, <2>7, <2>8, <2>9, Settled, ZenonT(30)
<1>6. ASSUME NEW k \in 1 .. Len(out), DropItem(k)
      PROVE  LedgerInv'
  <2>1. PICK i, c, n, C : i = out[k] /\ c = under[i] /\ n = unacked[c] - Debit(i) /\ C = Finished(c, n)
    BY ZenonT(30)
  <2>2. out \in Seq(Items) /\ out' = [j \in 1 .. Len(out) - 1 |-> IF j < k THEN out[j] ELSE out[j + 1]]
    BY <1>6 DEF DropItem, ContractInv, Types
  <2>3. Out' = Out \ {i}
    <3>1. NoDup(out)
      BY ZenonT(30) DEF NoDup, ContractInv, OutOnce
    <3>2. Elements(out') = Elements(out) \ {out[k]}
      BY <1>6, <2>2, <3>1, RemovalTakes
    <3>3. Out = Elements(out) /\ Out' = Elements(out')
      BY ZenonT(30) DEF Out, Elements
    <3>. QED
      BY <2>1, <3>2, <3>3, ZenonT(30)
  <2>4. i \in Items /\ fate[i] = "out"
    <3>1. out[k] \in Items
      BY <1>6, <2>2
    <3>. QED
      BY <1>6, <2>1, <3>1, ZenonT(30) DEF ContractInv, OutOnce
  <2>5. c \in open /\ n = Unacked(c, Debit(i))
    BY <2>1, <2>4, Covered, ZenonT(30)
  <2>6. /\ fate' = [fate EXCEPT ![i] = "dropped"] /\ acked' = acked
        /\ unacked' = [unacked EXCEPT ![c] = n] /\ open' = open \ C
        /\ UNCHANGED <<under, pc, hand, current>>
    BY <1>6, <2>1, <2>5, ZenonT(30) DEF DropItem, DropAcked
  <2>7. Filed(C)
    BY <1>6, <2>1, <2>5, ZenonT(30) DEF DropItem, Reports, Filed
  <2>8. \A d \in C : grant'[d] \in {"closing", "closed"}
    <3>. SUFFICES ASSUME NEW d \in C
                  PROVE  grant'[d] \in {"closing", "closed"}
      BY ZenonT(30)
    <3>1. d \in open /\ d \notin open' /\ d # hand'
      BY <2>1, <2>6, ZenonT(30) DEF Finished, ContractInv, PlacedOnce, Types
    <3>. QED
      BY <1>g, <3>1, ClosedNow
  <2>9. acked' = IF "dropped" = "acked" THEN [acked EXCEPT ![c] = @ + Debit(i)] ELSE acked
    BY <2>6
  <2>. QED
    BY <1>g, <2>1, <2>3, <2>4, <2>6, <2>7, <2>8, <2>9, Settled, ZenonT(30)
<1>. QED
    BY <1>2, <1>3, <1>4, <1>5, <1>6, <1>g, SendBooks, SetBooks, ExitBooks, ZenonT(30) DEF Next

\* The ledger is right throughout.
LEMMA LedgerInvariant == Spec => []LedgerInv
<1>1. Init => LedgerInv
  <2>. SUFFICES ASSUME Init
                PROVE  LedgerInv
    OBVIOUS
  <2>. USE ItemFacts
  <2>1. Amounts
    BY DEF Init, Amounts
  <2>2. SentItems = {}
    BY ZenonT(30) DEF Init, SentItems
  <2>3. Booked /\ Awaited /\ Paying /\ Reported
    BY DEF Init, Booked, Awaited, Paying, Reported
  <2>4. Unused
    BY DEF Init, Unused
  <2>. QED
    BY <2>1, <2>2, <2>3, <2>4, FS_EmptySet, ZenonT(30) DEF LedgerInv
<1>. QED
    BY <1>1, LedgerPreserved, WatchedInvariant, ContractInvariant, PTL DEF Spec

\* Every variable of the sequence and of its contracts keeps its type.  That the
\* unacked count is never negative needs the whole ledger.
THEOREM ContractTypes == Spec => []TypeOK
<1>1. ContractInv /\ Watched /\ HoldInv /\ LedgerInv => TypeOK
  <2>. SUFFICES ASSUME ContractInv, Watched, HoldInv, LedgerInv
                PROVE  TypeOK
    OBVIOUS
  <2>1. ManagerTypeOK
    BY ZenonT(30) DEF ContractInv, Types, GrantStates, HoldInv, Counting, Watched, ManagerTypeOK
  <2>. QED
    BY <2>1, ZenonT(30) DEF ContractInv, Types, Fates, HoldInv, Watched, LedgerInv, Amounts, TypeOK
<1>. QED
    BY <1>1, ContractInvariant, WatchedInvariant, HoldInvariant, LedgerInvariant, PTL

\* The counts of every open contract are the debits under it, and no contract is
\* overdrawn.
THEOREM CountsAreDebits == Spec => []DebitsExact
<1>1. LedgerInv => DebitsExact
  <2>1. \A c, F : BytesUnder(c, {i \in Items : fate[i] \in F}) = Bytes(Group(c, F))
    <3>. SUFFICES ASSUME NEW c, NEW F
                  PROVE  BytesUnder(c, {i \in Items : fate[i] \in F}) = Bytes(Group(c, F))
      OBVIOUS
    <3>1. {j \in {i \in Items : fate[i] \in F} : under[j] = c} = Group(c, F)
      BY ZenonT(30) DEF Group
    <3>. QED
      BY <3>1 DEF BytesUnder, Bytes
  <2>. QED
    BY <2>1, ZenonT(30) DEF LedgerInv, Booked, Delivered, Owed, DebitsExact
<1>. QED
    BY <1>1, LedgerInvariant, PTL

\* A close reports what was delivered as acked, and as unacked only the writes
\* without ack that failed.
THEOREM ClosesReportDelivered == Spec => []ReportsExact
<1>1. LedgerInv => ReportsExact
  <2>. SUFFICES ASSUME LedgerInv, NEW c \in Contracts, report[c] # <<>>
                PROVE  report[c] = <<BytesUnder(c, {i \in Items : fate[i] \in {"acked", "sent"}}),
                                     BytesUnder(c, {i \in Items : fate[i] = "failed"})>>
    BY ZenonT(30) DEF ReportsExact
  <2>1. {j \in {i \in Items : fate[i] \in {"acked", "sent"}} : under[j] = c} = Group(c, {"acked", "sent"})
    BY DEF Group
  <2>2. {j \in {i \in Items : fate[i] = "failed"} : under[j] = c} = Group(c, {"failed"})
    BY DEF Group
  <2>3. /\ BytesUnder(c, {i \in Items : fate[i] \in {"acked", "sent"}}) = Delivered(c)
        /\ BytesUnder(c, {i \in Items : fate[i] = "failed"}) = Lost(c)
    BY <2>1, <2>2, ZenonT(30) DEF BytesUnder, Bytes, Delivered, Lost
  <2>. QED
    BY <2>3, ZenonT(30) DEF LedgerInv, Reported
<1>. QED
    BY <1>1, LedgerInvariant, PTL

\* A contract that was replaced is open only while an item under it waits for its
\* ack, or because a write without ack failed under it.
THEOREM ReplacedForReason == Spec => []OpenForReason
<1>1. LedgerInv => OpenForReason
  <2>. SUFFICES ASSUME LedgerInv, NEW c \in open \ {current}
                PROVE  \E i \in Items : under[i] = c /\ fate[i] \in {"out", "failed"}
    BY DEF OpenForReason
  <2>1. Bytes(Group(c, {"out", "failed"})) # 0
    BY DEF LedgerInv, Booked, Owed
  <2>2. Group(c, {"out", "failed"}) # {}
    BY <2>1, BytesFacts, FS_EmptySet
  <2>. QED
    BY <2>2 DEF Group
<1>. QED
    BY <1>1, LedgerInvariant, PTL
=============================================================================
