------------------------ MODULE SendContractsProofs ------------------------
(***************************************************************************)
(* Three facts about the contracts of a SendSequence, for any contracts,   *)
(* messages, sizes and number of queues: a contract is always in exactly   *)
(* one place and closed once, its grant only moves forward, and a message  *)
(* goes without ack only under a contract whose announcement was acked.    *)
(* The last rests on the first: the announcement of a contract is sent     *)
(* once because the contract is taken once.                                *)
(***************************************************************************)
EXTENDS SendContracts, TLAPS

GrantStates == {"none", "asked", "adding", "queued", "taken", "closing", "closed"}

Fates == {"unsent", "out", "acked", "sent", "dropped", "failed"}

Types ==
    /\ mapped \in Queues \cup {0}
    /\ made \in Nat
    /\ queued \in [Queues -> SUBSET Contracts]
    /\ holds \in [Users -> Queues \cup {0}]
    /\ grant \in [Contracts -> GrantStates]
    /\ closes \in [Contracts -> Nat]
    /\ pc \in {"ready", "taking", "set", "retry", "flushing", "flushed", "done"}
    /\ wanted \in Messages \cup {None}
    /\ hand \in Contracts \cup {None}
    /\ current \in Contracts \cup {None}
    /\ openAcked \in BOOLEAN
    /\ open \subseteq Contracts
    /\ out \in Seq(Items)
    /\ fate \in [Items -> Fates]
    /\ under \in [Items -> Contracts \cup {None}]

\* Who is about to use a queue has one open.
Held ==
    /\ \A c \in Contracts : grant[c] = "adding" => holds[<<"add", c>>] \in Queues
    /\ pc \in {"taking", "flushing"} => holds[Sequence] \in Queues

\* What the sequence has in its hands while it takes a contract.
Handed ==
    /\ pc = "set" <=> hand # None
    /\ pc \in {"taking", "set", "retry"} => wanted \in Messages /\ fate[wanted] = "unsent"

\* A contract is announced only after it was taken.
Unsent ==
    \A c \in Contracts :
        grant[c] \in {"none", "asked", "adding", "queued"} \/ c = hand => fate[c] = "unsent"

\* An item waits for its ack in one place.
OutOnce ==
    /\ \A k \in 1 .. Len(out) : fate[out[k]] = "out"
    /\ \A j, k \in 1 .. Len(out) : out[j] = out[k] => j = k

\* The announcement of the contract of a message without ack was acked, and so
\* was that of a current contract that takes such messages.
Acknowledged ==
    /\ \A m \in Messages : fate[m] = "sent" => under[m] \in Contracts /\ fate[under[m]] = "acked"
    /\ openAcked => current \in Contracts /\ fate[current] = "acked"

ContractInv ==
    Types /\ Held /\ PlacedOnce /\ Handed /\ Unsent /\ OutOnce /\ Acknowledged

\* Messages and contracts are told apart, from each other and from none.
LEMMA ItemFacts ==
    /\ Messages \subseteq Items /\ Contracts \subseteq Items
    /\ \A m \in Messages, c \in Contracts : m # c
    /\ None \notin Contracts /\ None \notin Messages
    /\ Retained \subseteq Messages
BY SendContractsAssumption DEF Items

\* The users of a queue are told apart.
LEMMA UserFacts ==
    /\ Sequence \in Users
    /\ \A c \in Contracts : /\ <<"add", c>> \in Users /\ <<"sync", c>> \in Users
                            /\ <<"add", c>> # Sequence /\ <<"sync", c>> # Sequence
                            /\ \A d \in Contracts : /\ <<"add", c>> # <<"sync", d>>
                                                    /\ <<"add", c>> = <<"add", d>> => c = d
  <1>1. \A c : Len(<<"add", c>>) = 2 /\ Len(<<"sync", c>>) = 2 /\ Len(Sequence) = 1
    BY DEF Sequence
  <1>2. \A c, d : <<"add", c>>[1] = "add" /\ <<"sync", d>>[1] = "sync" /\ <<"add", c>>[2] = c
    OBVIOUS
  <1>3. \A c \in Contracts : <<"add", c>> # Sequence /\ <<"sync", c>> # Sequence
    BY <1>1
  <1>4. \A c, d \in Contracts : <<"add", c>> # <<"sync", d>>
    BY <1>2
  <1>5. \A c, d \in Contracts : <<"add", c>> = <<"add", d>> => c = d
    BY <1>2
  <1>. QED
    BY <1>3, <1>4, <1>5 DEF Users

\* The queues that openContractQueue may open.
LEMMA QueueFacts ==
    /\ 0 \notin Queues
    /\ \A q \in Queues : q \in Nat
BY ManagerAssumption DEF Queues

\* What the close of the contracts C does to the grants g.
LEMMA ClosedFacts ==
    ASSUME NEW g \in [Contracts -> GrantStates], NEW C, C \subseteq Contracts
    PROVE  /\ Closed(g, C) \in [Contracts -> GrantStates]
           /\ \A c \in C : Closed(g, C)[c] \in {"closing", "closed"}
           /\ \A c \in Contracts \ C : Closed(g, C)[c] = g[c]
<1>. DEFINE e(c) == CASE c \in C \cap opened -> "closing"
                      [] c \in C \ opened -> "closed"
                      [] OTHER -> g[c]
<1>1. /\ \A c \in C : e(c) \in {"closing", "closed"}
      /\ \A c \in Contracts \ C : e(c) = g[c]
    OBVIOUS
<1>2. \A c \in Contracts : e(c) \in GrantStates
    BY <1>1 DEF GrantStates
<1>3. Closed(g, C) = [c \in Contracts |-> e(c)]
    BY DEF Closed
<1>4. \A c \in Contracts : Closed(g, C)[c] = e(c)
    BY <1>3
<1>5. Closed(g, C) \in [Contracts -> GrantStates]
    <2>. HIDE DEF e
    <2>. QED
      BY <1>2, <1>3
<1>6. ASSUME NEW c \in C
      PROVE  Closed(g, C)[c] \in {"closing", "closed"}
    <2>1. c \in Contracts /\ e(c) \in {"closing", "closed"}
      BY <1>1
    <2>. HIDE DEF e
    <2>. QED
      BY <1>4, <2>1
<1>7. ASSUME NEW c \in Contracts \ C
      PROVE  Closed(g, C)[c] = g[c]
    <2>1. e(c) = g[c]
      BY <1>1
    <2>. HIDE DEF e
    <2>. QED
      BY <1>4, <2>1
<1>. HIDE DEF e
<1>. QED
    BY <1>5, <1>6, <1>7

\* What asking for one more contract does to the grants g.
LEMMA AskedFacts ==
    ASSUME NEW g \in [Contracts -> GrantStates], NEW h \in AskedFor(g)
    PROVE  /\ h \in [Contracts -> GrantStates]
           /\ \A c \in Contracts : h[c] = g[c] \/ (g[c] = "none" /\ h[c] = "asked")
BY DEF AskedFor, GrantStates

\* A step of the manager, or one that sends a message or takes a contract.
Takes ==
    \/ ManagerNext /\ UNCHANGED sequenceVars
    \/ \E m \in Messages : Send(m) \/ TakeOpens(m)
    \/ TakePolls \/ TakeTimesOut \/ SetContract \/ RejectContract

\* Such a step keeps the invariant.
LEMMA TakesPreserve == ContractInv /\ Takes => ContractInv'
<1>. SUFFICES ASSUME ContractInv, Takes
              PROVE  ContractInv'
    OBVIOUS
<1>. USE DEF ContractInv
<1>1. ASSUME NEW c \in Contracts, AddOpens(c), UNCHANGED sequenceVars
      PROVE  ContractInv'
  <2>1. Types'
    BY QueueFacts, ItemFacts, <1>1, Zenon DEF AddOpens, OpenQueue, OpenedQueue, sequenceVars, Types, GrantStates
  <2>2. Held'
    BY UserFacts, QueueFacts, <1>1, Zenon DEF AddOpens, OpenQueue, OpenedQueue, sequenceVars, Types, Held
  <2>3. PlacedOnce'
    BY <1>1 DEF AddOpens, sequenceVars, Types, PlacedOnce
  <2>4. Handed'
    BY <1>1 DEF AddOpens, sequenceVars, Handed
  <2>5. Unsent'
    BY <1>1 DEF AddOpens, sequenceVars, Types, Unsent, PlacedOnce
  <2>6. OutOnce'
    BY <1>1 DEF AddOpens, sequenceVars, OutOnce
  <2>7. Acknowledged'
    BY <1>1 DEF AddOpens, sequenceVars, Acknowledged
  <2>. QED
    BY <2>1, <2>2, <2>3, <2>4, <2>5, <2>6, <2>7
<1>2. ASSUME NEW c \in Contracts, AddAdds(c), UNCHANGED sequenceVars
      PROVE  ContractInv'
  <2>a. /\ holds[<<"add", c>>] \in Queues
        /\ \A r \in Queues : c \notin queued[r]
    BY <1>2 DEF AddAdds, Held, PlacedOnce
  <2>1. Types'
    BY <1>2, <2>a, Zenon DEF AddAdds, sequenceVars, Types, GrantStates
  <2>2. Held'
    BY <1>2, <2>a DEF AddAdds, sequenceVars, Types, Held
  <2>3. PlacedOnce'
    <3>. DEFINE q == holds[<<"add", c>>]
    <3>1. /\ queued' = [queued EXCEPT ![q] = @ \cup {c}] /\ grant' = [grant EXCEPT ![c] = "queued"]
          /\ grant[c] = "adding" /\ UNCHANGED <<closes, hand, open>>
      BY <1>2 DEF AddAdds, sequenceVars
    <3>2. /\ queued'[q] = queued[q] \cup {c}
          /\ \A r \in Queues \ {q} : queued'[r] = queued[r]
      BY <2>a, <3>1 DEF Types
    <3>3. grant'[c] = "queued" /\ \A d \in Contracts \ {c} : grant'[d] = grant[d]
      BY <3>1 DEF Types
    <3>4. \A r \in Queues : c \in queued'[r] <=> r = q
      BY <2>a, <3>2
    <3>5. \A d \in Contracts \ {c}, r \in Queues : d \in queued'[r] <=> d \in queued[r]
      BY <3>2
    <3>6. c # hand /\ c \notin open /\ closes[c] = 0
      BY <3>1 DEF PlacedOnce
    <3>. QED
      BY <2>a, <3>1, <3>3, <3>4, <3>5, <3>6 DEF PlacedOnce
  <2>4. Handed'
    BY <1>2, <2>a DEF AddAdds, sequenceVars, Handed
  <2>5. Unsent'
    BY <1>2, <2>a DEF AddAdds, sequenceVars, Types, Unsent, PlacedOnce
  <2>6. OutOnce'
    BY <1>2, <2>a DEF AddAdds, sequenceVars, OutOnce
  <2>7. Acknowledged'
    BY <1>2, <2>a DEF AddAdds, sequenceVars, Acknowledged
  <2>. QED
    BY <2>1, <2>2, <2>3, <2>4, <2>5, <2>6, <2>7
<1>3. ASSUME NEW c \in Contracts, AddCloses(c), UNCHANGED sequenceVars
      PROVE  ContractInv'
  <2>1. Types'
    BY <1>3, Zenon DEF AddCloses, CloseQueue, sequenceVars, Types
  <2>2. Held'
    BY UserFacts, QueueFacts, <1>3, Zenon DEF AddCloses, CloseQueue, sequenceVars, Types, Held
  <2>3. PlacedOnce'
    BY <1>3 DEF AddCloses, sequenceVars, PlacedOnce
  <2>4. Handed'
    BY <1>3 DEF AddCloses, sequenceVars, Handed
  <2>5. Unsent'
    BY <1>3 DEF AddCloses, sequenceVars, Unsent
  <2>6. OutOnce'
    BY <1>3 DEF AddCloses, sequenceVars, OutOnce
  <2>7. Acknowledged'
    BY <1>3 DEF AddCloses, sequenceVars, Acknowledged
  <2>. QED
    BY <2>1, <2>2, <2>3, <2>4, <2>5, <2>6, <2>7
<1>4. ASSUME NEW c \in Contracts, SyncOpens(c), UNCHANGED sequenceVars
      PROVE  ContractInv'
  <2>1. Types'
    BY QueueFacts, ItemFacts, <1>4, Zenon DEF SyncOpens, OpenQueue, OpenedQueue, sequenceVars, Types, GrantStates
  <2>2. Held'
    BY <1>4 DEF SyncOpens, OpenQueue, OpenedQueue, sequenceVars, Types, Held
  <2>3. PlacedOnce'
    BY <1>4 DEF SyncOpens, sequenceVars, Types, PlacedOnce
  <2>4. Handed'
    BY <1>4 DEF SyncOpens, sequenceVars, Handed
  <2>5. Unsent'
    BY <1>4 DEF SyncOpens, sequenceVars, Types, Unsent, PlacedOnce
  <2>6. OutOnce'
    BY <1>4 DEF SyncOpens, sequenceVars, OutOnce
  <2>7. Acknowledged'
    BY <1>4 DEF SyncOpens, sequenceVars, Acknowledged
  <2>. QED
    BY <2>1, <2>2, <2>3, <2>4, <2>5, <2>6, <2>7
<1>5. ASSUME NEW c \in Contracts, SyncCloses(c), UNCHANGED sequenceVars
      PROVE  ContractInv'
  <2>1. Types'
    BY <1>5, Zenon DEF SyncCloses, CloseQueue, sequenceVars, Types
  <2>2. Held'
    BY UserFacts, QueueFacts, <1>5, Zenon DEF SyncCloses, CloseQueue, sequenceVars, Types, Held
  <2>3. PlacedOnce'
    BY <1>5 DEF SyncCloses, sequenceVars, PlacedOnce
  <2>4. Handed'
    BY <1>5 DEF SyncCloses, sequenceVars, Handed
  <2>5. Unsent'
    BY <1>5 DEF SyncCloses, sequenceVars, Unsent
  <2>6. OutOnce'
    BY <1>5 DEF SyncCloses, sequenceVars, OutOnce
  <2>7. Acknowledged'
    BY <1>5 DEF SyncCloses, sequenceVars, Acknowledged
  <2>. QED
    BY <2>1, <2>2, <2>3, <2>4, <2>5, <2>6, <2>7
<1>6. ASSUME Expire, UNCHANGED sequenceVars
      PROVE  ContractInv'
  <2>1. Types'
    BY <1>6 DEF Expire, Closed, CloseContracts, sequenceVars, Types, GrantStates
  <2>2. Held'
    BY <1>6 DEF Expire, Closed, sequenceVars, Types, Held
  <2>3. PlacedOnce'
    BY <1>6 DEF Expire, Closed, CloseContracts, sequenceVars, Types, PlacedOnce
  <2>4. Handed'
    BY <1>6 DEF Expire, sequenceVars, Handed
  <2>5. Unsent'
    BY <1>6 DEF Expire, Closed, sequenceVars, Types, Unsent, PlacedOnce
  <2>6. OutOnce'
    BY <1>6 DEF Expire, sequenceVars, OutOnce
  <2>7. Acknowledged'
    BY <1>6 DEF Expire, sequenceVars, Acknowledged
  <2>. QED
    BY <2>1, <2>2, <2>3, <2>4, <2>5, <2>6, <2>7
<1>7. ASSUME NEW m \in Messages, Send(m)
      PROVE  ContractInv'
  <2>a. /\ fate[m] = "unsent" /\ m \in Items /\ current \in Contracts
        /\ under' = [under EXCEPT ![m] = current]
        /\ UNCHANGED <<mapped, made, queued, holds, grant, closes, pc, wanted, hand, current,
                       openAcked, open>>
        /\ pc = "ready"
    BY ItemFacts, UserFacts, QueueFacts, <1>7 DEF Send, managerVars, Types
  <2>b. \/ out' = Append(out, m) /\ fate' = [fate EXCEPT ![m] = "out"]
        \/ out' = out /\ fate' = [fate EXCEPT ![m] = "sent"] /\ openAcked
        \/ out' = out /\ fate' = [fate EXCEPT ![m] = "failed"]
    BY <1>7 DEF Send
  <2>c. \A i \in Items : i # m => fate'[i] = fate[i] /\ under'[i] = under[i]
    BY <2>a, <2>b DEF Types
  <2>1. Types'
    <3>1. out' \in Seq(Items)
      <4>1. out \in Seq(Items)
        BY DEF Types
      <4>2. Append(out, m) \in Seq(Items)
        BY <2>a, <4>1
      <4>. QED
        BY <2>b, <4>1, <4>2
    <3>2. fate' \in [Items -> Fates]
      BY <2>b, Zenon DEF Types, Fates
    <3>. QED
      BY <2>a, <3>1, <3>2, Zenon DEF Types
  <2>2. Held'
    BY <2>a DEF Held
  <2>3. PlacedOnce'
    BY <2>a DEF PlacedOnce
  <2>4. Handed'
    BY <2>a DEF Handed
  <2>5. Unsent'
    BY ItemFacts, <2>a, <2>c DEF Unsent
  <2>6. OutOnce'
    <3>1. \A k \in 1 .. Len(out) : out[k] \in Items /\ out[k] # m /\ fate'[out[k]] = "out"
      BY <2>a, <2>c DEF OutOnce, Types
    <3>2. CASE out' = out
      BY <3>1, <3>2 DEF OutOnce
    <3>3. CASE out' = Append(out, m) /\ fate' = [fate EXCEPT ![m] = "out"]
      <4>1. /\ Len(out') = Len(out) + 1 /\ out'[Len(out) + 1] = m /\ Len(out) \in Nat
            /\ \A k \in 1 .. Len(out) : out'[k] = out[k]
        BY <2>a, <3>3 DEF Types
      <4>2. fate'[m] = "out"
        BY <2>a, <3>3 DEF Types
      <4>3. \A k \in 1 .. Len(out') : k \in 1 .. Len(out) \/ k = Len(out) + 1
        BY <4>1
      <4>. QED
        BY <3>1, <4>1, <4>2, <4>3 DEF OutOnce
    <3>. QED
      BY <2>b, <3>2, <3>3
  <2>7. Acknowledged'
    <3>1. \A c \in Contracts : fate'[c] = fate[c]
      BY ItemFacts, <2>c
    <3>2. ASSUME NEW n \in Messages, fate'[n] = "sent"
          PROVE  under'[n] \in Contracts /\ fate'[under'[n]] = "acked"
      <4>1. CASE n = m
        <5>1. openAcked /\ under'[m] = current
          BY <2>a, <2>b, <3>2, <4>1 DEF Types
        <5>. QED
          BY <2>a, <3>1, <4>1, <5>1 DEF Acknowledged
      <4>2. CASE n # m
        BY ItemFacts, <2>c, <3>1, <3>2, <4>2 DEF Acknowledged
      <4>. QED
        BY <4>1, <4>2
    <3>. QED
      BY <2>a, <3>1, <3>2 DEF Acknowledged
  <2>. QED
    BY <2>1, <2>2, <2>3, <2>4, <2>5, <2>6, <2>7
<1>8. ASSUME NEW m \in Messages, TakeOpens(m)
      PROVE  ContractInv'
  <2>a. /\ grant' \in [Contracts -> GrantStates]
        /\ \A c \in Contracts : grant'[c] = grant[c] \/ (grant[c] = "none" /\ grant'[c] = "asked")
    BY <1>8, AskedFacts, Zenon DEF TakeOpens, Types
  <2>1. Types'
    BY QueueFacts, ItemFacts, <1>8, <2>a, ZenonT(30) DEF TakeOpens, OpenQueue, OpenedQueue, Types, GrantStates
  <2>2. Held'
    BY UserFacts, QueueFacts, <1>8, <2>a DEF TakeOpens, OpenQueue, OpenedQueue, Types, Held
  <2>3. PlacedOnce'
    BY <1>8, <2>a, Zenon DEF TakeOpens, Types, PlacedOnce
  <2>4. Handed'
    BY <1>8, <2>a DEF TakeOpens, Types, Handed
  <2>5. Unsent'
    BY <1>8, <2>a, ZenonT(30) DEF TakeOpens, Types, Unsent, PlacedOnce
  <2>6. OutOnce'
    BY <1>8, <2>a, ZenonT(30) DEF TakeOpens, OutOnce
  <2>7. Acknowledged'
    BY <1>8, <2>a, ZenonT(30) DEF TakeOpens, Acknowledged
  <2>. QED
    BY <2>1, <2>2, <2>3, <2>4, <2>5, <2>6, <2>7
<1>9. ASSUME TakePolls
      PROVE  ContractInv'
  <2>. DEFINE q == holds[Sequence]
  <2>a. q \in Queues /\ pc = "taking" /\ queued[q] \in SUBSET Contracts
    BY <1>9 DEF TakePolls, Held, Types
  <2>b. PICK E \in SUBSET queued[q] : \E c \in queued[q] \ E :
              /\ queued' = [queued EXCEPT ![q] = @ \ (E \cup {c})]
              /\ hand' = c
              /\ closes' = [d \in Contracts |-> closes[d] + IF d \in E THEN 1 ELSE 0]
              /\ grant' = [Closed(grant, E) EXCEPT ![c] = "taken"]
    BY <1>9, <2>a, Zenon DEF TakePolls, Polled, Types
  <2>c. PICK c \in queued[q] \ E :
              /\ queued' = [queued EXCEPT ![q] = @ \ (E \cup {c})]
              /\ hand' = c
              /\ closes' = [d \in Contracts |-> closes[d] + IF d \in E THEN 1 ELSE 0]
              /\ grant' = [Closed(grant, E) EXCEPT ![c] = "taken"]
    BY <2>b, Zenon
  <2>d. /\ Closed(grant, E) \in [Contracts -> GrantStates]
        /\ \A d \in E : Closed(grant, E)[d] \in {"closing", "closed"}
        /\ \A d \in Contracts \ E : Closed(grant, E)[d] = grant[d]
    BY <2>a, ClosedFacts DEF Types
  <2>e. /\ grant' \in [Contracts -> GrantStates] /\ c \in Contracts
        /\ grant'[c] = "taken"
        /\ \A d \in E : grant'[d] \in {"closing", "closed"}
        /\ \A d \in Contracts \ (E \cup {c}) : grant'[d] = grant[d]
    BY <2>a, <2>c, <2>d, ZenonT(30) DEF GrantStates
  <2>f. /\ UNCHANGED <<mapped, made, holds, wanted, current, openAcked, open, out, fate, under>>
        /\ pc' = "set"
    BY <1>9, ZenonT(30) DEF TakePolls
  <2>1. Types'
    BY <2>a, <2>c, <2>e, <2>f DEF Types
  <2>2. Held'
    BY <2>e, <2>f DEF Held, PlacedOnce
  <2>3. PlacedOnce'
    <3>1. \A d \in E \cup {c} : grant[d] = "queued" /\ closes[d] = 0 /\ d \notin open
      BY <2>a, <2>c DEF PlacedOnce
    <3>2. /\ queued'[q] = queued[q] \ (E \cup {c})
          /\ \A r \in Queues \ {q} : queued'[r] = queued[r]
      BY <2>a, <2>c DEF Types
    <3>3. \A d \in E \cup {c}, r \in Queues : d \notin queued'[r]
      BY <2>a, <2>c, <3>2 DEF PlacedOnce
    <3>4. \A d \in Contracts \ (E \cup {c}), r \in Queues : d \in queued'[r] <=> d \in queued[r]
      BY <2>a, <3>2
    <3>5. hand = None
      BY <2>a DEF Handed
    <3>6. \A d \in Contracts : closes'[d] = IF d \in E THEN 1 ELSE closes[d]
      BY <2>c, <3>1 DEF Types
    <3>7. ASSUME NEW d \in E \cup {c}
          PROVE  /\ grant'[d] # "queued"
                 /\ grant'[d] = "taken" <=> d = hand'
                 /\ closes'[d] = IF grant'[d] \in {"closing", "closed"} THEN 1 ELSE 0
      BY <2>a, <2>c, <2>e, <3>1, <3>6
    <3>. QED
      BY ItemFacts, <2>c, <2>e, <2>f, <3>1, <3>3, <3>4, <3>5, <3>6, <3>7, SMTT(30) DEF PlacedOnce
  <2>4. Handed'
    BY ItemFacts, <2>a, <2>c, <2>f DEF Handed, Types
  <2>5. Unsent'
    <3>1. fate[c] = "unsent"
      BY <2>a, <2>c DEF PlacedOnce, Unsent
    <3>. QED
      BY <2>c, <2>e, <2>f, <3>1 DEF Unsent
  <2>6. OutOnce'
    BY <2>f DEF OutOnce
  <2>7. Acknowledged'
    BY <2>f DEF Acknowledged
  <2>. QED
    BY <2>1, <2>2, <2>3, <2>4, <2>5, <2>6, <2>7
<1>10. ASSUME TakeTimesOut
      PROVE  ContractInv'
  <2>1. Types'
    BY <1>10, ZenonT(30) DEF TakeTimesOut, CloseQueue, Types
  <2>2. Held'
    BY UserFacts, QueueFacts, <1>10, Zenon DEF TakeTimesOut, CloseQueue, Types, Held
  <2>3. PlacedOnce'
    BY <1>10 DEF TakeTimesOut, PlacedOnce
  <2>4. Handed'
    BY <1>10, ZenonT(30) DEF TakeTimesOut, Types, Handed
  <2>5. Unsent'
    BY <1>10 DEF TakeTimesOut, Unsent
  <2>6. OutOnce'
    BY <1>10 DEF TakeTimesOut, OutOnce
  <2>7. Acknowledged'
    BY <1>10 DEF TakeTimesOut, Acknowledged
  <2>. QED
    BY <2>1, <2>2, <2>3, <2>4, <2>5, <2>6, <2>7
<1>11. ASSUME SetContract
      PROVE  ContractInv'
  <2>. DEFINE c == hand
              m == wanted
              R == Replaced
  <2>a. /\ pc = "set" /\ c \in Contracts /\ m \in Messages /\ c # m
        /\ fate[c] = "unsent" /\ fate[m] = "unsent"
        /\ R \subseteq open /\ c \notin open /\ grant[c] = "taken"
    BY ItemFacts, <1>11 DEF SetContract, Handed, Unsent, PlacedOnce, Replaced, Types
  <2>b. /\ open' = (open \ R) \cup {c} /\ current' = c /\ openAcked' = FALSE
        /\ out' = out \o <<c, m>>
        /\ fate' = [fate EXCEPT ![c] = "out", ![m] = "out"]
        /\ under' = [under EXCEPT ![c] = c, ![m] = c]
        /\ pc' = "ready" /\ wanted' = None /\ hand' = None
        /\ closes' = [d \in Contracts |-> closes[d] + IF d \in R THEN 1 ELSE 0]
        /\ CloseQueue(Sequence, FALSE) /\ UNCHANGED queued
        /\ \E g \in AskedFor(grant) : grant' = Closed(g, R)
    BY <1>11, Zenon DEF SetContract, Reports, CloseContracts
  <2>c. PICK g \in AskedFor(grant) : grant' = Closed(g, R)
    BY <2>b
  <2>d. /\ g \in [Contracts -> GrantStates]
        /\ \A d \in Contracts : g[d] = grant[d] \/ (grant[d] = "none" /\ g[d] = "asked")
    BY AskedFacts DEF Types
  <2>e. /\ grant' \in [Contracts -> GrantStates]
        /\ \A d \in R : grant'[d] \in {"closing", "closed"}
        /\ \A d \in Contracts \ R : grant'[d] = grant[d] \/ (grant[d] = "none" /\ grant'[d] = "asked")
    <3>1. R \subseteq Contracts
      BY <2>a DEF Types
    <3>. HIDE DEF R
    <3>2. /\ Closed(g, R) \in [Contracts -> GrantStates]
          /\ \A d \in R : Closed(g, R)[d] \in {"closing", "closed"}
          /\ \A d \in Contracts \ R : Closed(g, R)[d] = g[d]
      BY <2>d, <3>1, ClosedFacts
    <3>. QED
      BY <2>c, <2>d, <3>2
  <2>f. \A i \in Items : i # c /\ i # m => fate'[i] = fate[i] /\ under'[i] = under[i]
    BY <2>a, <2>b DEF Types
  <2>1. Types'
    <3>1. out' \in Seq(Items)
      BY ItemFacts, <2>a, <2>b, SMTT(30) DEF Types
    <3>2. fate' \in [Items -> Fates] /\ under' \in [Items -> Contracts \cup {None}]
      BY <2>a, <2>b, Zenon DEF Types, Fates
    <3>3. mapped' \in Queues \cup {0} /\ made' \in Nat /\ holds' \in [Users -> Queues \cup {0}]
      BY <2>b, ZenonT(30) DEF Types, CloseQueue
    <3>4. closes' \in [Contracts -> Nat]
      BY <2>b DEF Types
    <3>5. /\ open' \subseteq Contracts /\ queued' \in [Queues -> SUBSET Contracts]
          /\ current' \in Contracts /\ openAcked' \in BOOLEAN
      BY <2>a, <2>b, Zenon DEF Types
    <3>6. /\ pc' = "ready" /\ wanted' = None /\ hand' = None
          /\ grant' \in [Contracts -> GrantStates]
      BY <2>b, <2>e
    <3>. QED
      BY <3>1, <3>2, <3>3, <3>4, <3>5, <3>6 DEF Types
  <2>2. Held'
    <3>1. \A d \in Contracts : holds'[<<"add", d>>] = holds[<<"add", d>>]
      BY UserFacts, QueueFacts, <2>b, Zenon DEF CloseQueue, Types
    <3>2. \A d \in Contracts : grant'[d] = "adding" => grant[d] = "adding"
      BY <2>a, <2>e, ZenonT(30)
    <3>. QED
      BY <2>b, <3>1, <3>2 DEF Held
  <2>3. PlacedOnce'
    <3>1. \A d \in R : grant[d] = "taken" /\ closes[d] = 0 /\ d \in Contracts
      BY <2>a, ZenonT(30) DEF PlacedOnce, Types
    <3>2. \A d \in Contracts : closes'[d] = IF d \in R THEN 1 ELSE closes[d]
      BY <2>b, <3>1 DEF Types
    <3>3. hand' \notin Contracts
      BY ItemFacts, <2>b
    <3>4. ASSUME NEW d \in Contracts
          PROVE  /\ grant'[d] = "queued" <=> grant[d] = "queued"
                 /\ grant'[d] = "taken" <=> d \in open'
                 /\ closes'[d] = IF grant'[d] \in {"closing", "closed"} THEN 1 ELSE 0
      BY <2>a, <2>b, <2>e, <3>1, <3>2, ZenonT(30) DEF PlacedOnce
    <3>. QED
      BY <2>b, <3>3, <3>4 DEF PlacedOnce
  <2>4. Handed'
    BY <2>b DEF Handed
  <2>5. Unsent'
    <3>1. grant'[c] = "taken"
      BY <2>a, <2>e
    <3>2. \A d \in R : grant'[d] \in {"closing", "closed"}
      BY <2>e
    <3>3. ASSUME NEW d \in Contracts, d # c, grant'[d] \in {"none", "asked", "adding", "queued"}
          PROVE  fate'[d] = "unsent"
      BY ItemFacts, <2>a, <2>e, <2>f, <3>2, <3>3 DEF Unsent
    <3>. QED
      BY ItemFacts, <2>b, <3>1, <3>3, Zenon DEF Unsent
  <2>6. OutOnce'
    <3>1. \A k \in 1 .. Len(out) : out[k] \in Items /\ out[k] # c /\ out[k] # m
      BY <2>a DEF OutOnce, Types
    <3>2. \A k \in 1 .. Len(out) : fate'[out[k]] = "out"
      BY <2>f, <3>1 DEF OutOnce
    <3>3. /\ Len(out') = Len(out) + 2 /\ Len(out) \in Nat
          /\ out'[Len(out) + 1] = c /\ out'[Len(out) + 2] = m
          /\ \A k \in 1 .. Len(out) : out'[k] = out[k]
      BY <2>a, <2>b, SMTT(30) DEF Types
    <3>4. fate'[c] = "out" /\ fate'[m] = "out"
      BY ItemFacts, <2>a, <2>b, ZenonT(30) DEF Types
    <3>5. \A k \in 1 .. Len(out') : k \in 1 .. Len(out) \/ k = Len(out) + 1 \/ k = Len(out) + 2
      BY <3>3, SMTT(30)
    <3>. QED
      BY <2>a, <3>1, <3>2, <3>3, <3>4, <3>5, SMTT(30) DEF OutOnce
  <2>7. Acknowledged'
    <3>1. ASSUME NEW n \in Messages, fate'[n] = "sent"
          PROVE  under'[n] \in Contracts /\ fate'[under'[n]] = "acked"
      <4>1. n # m /\ n # c
        BY ItemFacts, <2>a, <2>b, <3>1, ZenonT(30) DEF Types
      <4>2. under'[n] = under[n] /\ under[n] \in Contracts /\ fate[under[n]] = "acked"
        BY ItemFacts, <2>f, <3>1, <4>1 DEF Acknowledged
      <4>3. under[n] # c /\ under[n] # m
        BY <2>a, <4>2
      <4>. QED
        BY ItemFacts, <2>f, <4>2, <4>3
    <3>. QED
      BY <2>b, <3>1, ZenonT(30) DEF Acknowledged
  <2>. QED
    BY <2>1, <2>2, <2>3, <2>4, <2>5, <2>6, <2>7
<1>12. ASSUME RejectContract
      PROVE  ContractInv'
  <2>1. Types'
    BY UserFacts, QueueFacts, ItemFacts, <1>12 DEF RejectContract, CloseQueue, Closed, CloseContracts, Reports, Types, GrantStates
  <2>2. Held'
    BY UserFacts, QueueFacts, <1>12, Zenon DEF RejectContract, CloseQueue, Closed, Types, Held
  <2>3. PlacedOnce'
    BY ItemFacts, <1>12 DEF RejectContract, Closed, CloseContracts, Reports, Types, PlacedOnce
  <2>4. Handed'
    BY <1>12 DEF RejectContract, Types, Handed
  <2>5. Unsent'
    BY ItemFacts, <1>12 DEF RejectContract, Closed, Types, Unsent, PlacedOnce
  <2>6. OutOnce'
    BY <1>12 DEF RejectContract, OutOnce
  <2>7. Acknowledged'
    BY <1>12 DEF RejectContract, Acknowledged
  <2>. QED
    BY <2>1, <2>2, <2>3, <2>4, <2>5, <2>6, <2>7
<1>. QED
    BY <1>1, <1>2, <1>3, <1>4, <1>5, <1>6, <1>7, <1>8, <1>9, <1>10, <1>11, <1>12
    DEF Takes, ManagerNext

\* Every step of the manager or of the sequence keeps the invariant.
LEMMA ContractsPreserved == ContractInv /\ [Next]_vars => ContractInv'
<1>. SUFFICES ASSUME ContractInv, [Next]_vars
              PROVE  ContractInv'
    OBVIOUS
<1>. USE DEF ContractInv
<1>1. CASE Takes
    BY <1>1, TakesPreserve
<1>2. ASSUME AckItem
      PROVE  ContractInv'
  <2>. DEFINE i == Head(out)
  <2>a. /\ pc = "ready" /\ i \in Items /\ fate[i] = "out"
        /\ fate' = [fate EXCEPT ![i] = "acked"]
        /\ UNCHANGED <<mapped, made, queued, holds, pc, wanted, hand, current, under>>
    BY <1>2, SMTT(30) DEF AckItem, OutOnce, Types
  <2>b. PICK F \in SUBSET open :
              /\ open' = open \ F
              /\ (grant' = grant /\ F = {}) \/ grant' = Closed(grant, F)
              /\ closes' = [d \in Contracts |-> closes[d] + IF d \in F THEN 1 ELSE 0]
    <3>1. CASE under[i] \in open
      BY <1>2, <3>1, Zenon DEF AckItem, Reports, CloseContracts, Finished
    <3>2. CASE under[i] \notin open
      <4>1. UNCHANGED <<open, grant, closes>>
        BY <1>2, <3>2 DEF AckItem
      <4>2. closes' = [d \in Contracts |-> closes[d] + IF d \in {} THEN 1 ELSE 0]
        BY <4>1 DEF Types
      <4>3. {} \in SUBSET open /\ open' = open \ {} /\ grant' = grant
        BY <4>1
      <4>. QED
        BY <4>2, <4>3, Zenon
    <3>. QED
      BY <3>1, <3>2
  <2>c. /\ grant' \in [Contracts -> GrantStates]
        /\ \A d \in F : grant'[d] \in {"closing", "closed"}
        /\ \A d \in Contracts \ F : grant'[d] = grant[d]
    <3>1. F \subseteq Contracts /\ grant \in [Contracts -> GrantStates]
      BY <2>b DEF Types
    <3>2. CASE grant' = grant /\ F = {}
      BY <3>1, <3>2
    <3>3. CASE grant' = Closed(grant, F)
      <4>1. /\ Closed(grant, F) \in [Contracts -> GrantStates]
            /\ \A d \in F : Closed(grant, F)[d] \in {"closing", "closed"}
            /\ \A d \in Contracts \ F : Closed(grant, F)[d] = grant[d]
        BY <3>1, ClosedFacts, Zenon
      <4>. QED
        BY <3>3, <4>1, Zenon
    <3>. QED
      BY <2>b, <3>2, <3>3
  <2>d. \A j \in Items : j # i => fate'[j] = fate[j]
    BY <2>a DEF Types
  <2>1. Types'
    <3>1. out' \in Seq(Items) /\ openAcked' \in BOOLEAN
      BY <1>2, SMTT(30) DEF AckItem, Types
    <3>2. fate' \in [Items -> Fates]
      BY <2>a DEF Types, Fates
    <3>3. closes' \in [Contracts -> Nat]
      BY <2>b DEF Types
    <3>. QED
      BY <2>a, <2>b, <2>c, <3>1, <3>2, <3>3 DEF Types
  <2>2. Held'
    BY <2>a, <2>c, Zenon DEF Held, PlacedOnce, Types
  <2>3. PlacedOnce'
    <3>1. \A d \in F : grant[d] = "taken" /\ closes[d] = 0 /\ d \in Contracts /\ d # hand
      BY <2>b, Zenon DEF PlacedOnce, Types
    <3>2. \A d \in Contracts : closes'[d] = IF d \in F THEN 1 ELSE closes[d]
      BY <2>b, <3>1 DEF Types
    <3>3. ASSUME NEW d \in Contracts
          PROVE  /\ grant'[d] = "queued" <=> grant[d] = "queued"
                 /\ grant'[d] = "taken" <=> d = hand \/ d \in open'
                 /\ closes'[d] = IF grant'[d] \in {"closing", "closed"} THEN 1 ELSE 0
      BY <2>b, <2>c, <3>1, <3>2 DEF PlacedOnce
    <3>. QED
      BY <2>a, <2>b, <3>3 DEF PlacedOnce
  <2>4. Handed'
    BY <2>a DEF Handed
  <2>5. Unsent'
    BY <2>a, <2>b, <2>c, <2>d DEF Unsent, PlacedOnce
  <2>6. OutOnce'
    <3>1. /\ Len(out) \in Nat /\ Len(out') = Len(out) - 1 /\ out[1] = i
          /\ \A j \in 1 .. Len(out') : out'[j] = out[j + 1] /\ j + 1 \in 1 .. Len(out)
      BY <1>2, SMTT(30) DEF AckItem, Types
    <3>2. \A j \in 1 .. Len(out') : out[j + 1] \in Items /\ out[j + 1] # i /\ fate[out[j + 1]] = "out"
      <4>1. \A j \in 1 .. Len(out) : out[j] \in Items /\ fate[out[j]] = "out"
        BY SMTT(30) DEF OutOnce, Types
      <4>2. ASSUME NEW j \in 1 .. Len(out'), out[j + 1] = i
            PROVE  FALSE
        <5>1. 1 \in 1 .. Len(out) /\ j + 1 \in 1 .. Len(out) /\ j + 1 # 1
          BY <3>1
        <5>. QED
          BY <3>1, <4>2, <5>1 DEF OutOnce
      <4>. QED
        BY <3>1, <4>1, <4>2, ZenonT(30)
    <3>3. \A j \in 1 .. Len(out') : fate'[out'[j]] = "out"
      BY <2>d, <3>1, <3>2
    <3>4. \A j, l \in 1 .. Len(out') : out'[j] = out'[l] => j = l
      BY <3>1 DEF OutOnce
    <3>. QED
      BY <3>3, <3>4 DEF OutOnce
  <2>7. Acknowledged'
    <3>1. \A n \in Messages : fate'[n] = "sent" => fate[n] = "sent"
      BY <2>a, <2>d DEF Types
    <3>2. \A j \in Items : fate[j] = "acked" => fate'[j] = "acked"
      BY <2>a, <2>d DEF Types
    <3>3. openAcked' => openAcked \/ i = current
      BY <1>2, Zenon DEF AckItem, Announced
    <3>4. openAcked' => current \in Contracts /\ fate'[current] = "acked"
      <4>1. i = current => current \in Contracts /\ fate'[i] = "acked"
        BY ItemFacts, <2>a DEF Types, Items
      <4>. QED
        BY ItemFacts, <3>2, <3>3, <4>1 DEF Acknowledged
    <3>. QED
      BY <2>a, <3>1, <3>2, <3>4 DEF Acknowledged
  <2>. QED
    BY <2>1, <2>2, <2>3, <2>4, <2>5, <2>6, <2>7
<1>3. ASSUME NEW k \in 1 .. Len(out), DropItem(k)
      PROVE  ContractInv'
  <2>. DEFINE i == out[k]
  <2>a. /\ pc = "ready" /\ i \in Items /\ fate[i] = "out"
        /\ fate' = [fate EXCEPT ![i] = "dropped"]
        /\ UNCHANGED <<mapped, made, queued, holds, pc, wanted, hand, current, under>>
    BY ItemFacts, UserFacts, QueueFacts, <1>3, ZenonT(30) DEF DropItem, OutOnce, Types
  <2>b. PICK F \in SUBSET open :
              /\ open' = open \ F
              /\ (grant' = grant /\ F = {}) \/ grant' = Closed(grant, F)
              /\ closes' = [d \in Contracts |-> closes[d] + IF d \in F THEN 1 ELSE 0]
    <3>1. CASE under[i] \in open
      BY <1>3, <3>1, ZenonT(30) DEF DropItem, Reports, CloseContracts, Finished
    <3>2. CASE under[i] \notin open
      <4>1. UNCHANGED <<open, grant, closes>>
        BY <1>3, <3>2, ZenonT(30) DEF DropItem
      <4>2. closes' = [d \in Contracts |-> closes[d] + IF d \in {} THEN 1 ELSE 0]
        BY <4>1 DEF Types
      <4>3. {} \in SUBSET open /\ open' = open \ {} /\ grant' = grant
        BY <4>1
      <4>. QED
        BY <4>2, <4>3, Zenon
    <3>. QED
      BY <3>1, <3>2, Zenon
  <2>c. /\ grant' \in [Contracts -> GrantStates]
        /\ \A d \in F : grant'[d] \in {"closing", "closed"}
        /\ \A d \in Contracts \ F : grant'[d] = grant[d]
    <3>1. F \subseteq Contracts /\ grant \in [Contracts -> GrantStates]
      BY <2>b DEF Types
    <3>2. CASE grant' = grant /\ F = {}
      BY <3>1, <3>2
    <3>3. CASE grant' = Closed(grant, F)
      <4>1. /\ Closed(grant, F) \in [Contracts -> GrantStates]
            /\ \A d \in F : Closed(grant, F)[d] \in {"closing", "closed"}
            /\ \A d \in Contracts \ F : Closed(grant, F)[d] = grant[d]
        BY <3>1, ClosedFacts, Zenon
      <4>. QED
        BY <3>3, <4>1, Zenon
    <3>. QED
      BY <2>b, <3>2, <3>3
  <2>d. \A j \in Items : j # i => fate'[j] = fate[j]
    BY <2>a DEF Types
  <2>1. Types'
    <3>1. openAcked' = openAcked /\ out' = [j \in 1 .. Len(out) - 1 |-> IF j < k THEN out[j] ELSE out[j + 1]]
      BY <1>3, ZenonT(30) DEF DropItem
    <3>2. Len(out) \in Nat /\ Len(out) - 1 \in Nat
      BY DEF Types
    <3>3. \A j \in 1 .. Len(out) - 1 : (IF j < k THEN out[j] ELSE out[j + 1]) \in Items
      BY <3>2, SMTT(30) DEF Types
    <3>4. out' \in Seq(Items)
      BY <3>1, <3>2, <3>3
    <3>5. fate' \in [Items -> Fates]
      BY <2>a DEF Types, Fates
    <3>6. closes' \in [Contracts -> Nat]
      BY <2>b DEF Types
    <3>. QED
      BY <2>a, <2>b, <2>c, <3>1, <3>4, <3>5, <3>6, ZenonT(30) DEF Types
  <2>2. Held'
    BY UserFacts, QueueFacts, <2>a, <2>c, ZenonT(30) DEF Held, PlacedOnce, Types
  <2>3. PlacedOnce'
    <3>1. \A d \in F : grant[d] = "taken" /\ closes[d] = 0 /\ d \in Contracts /\ d # hand
      BY <2>b DEF PlacedOnce, Types
    <3>2. \A d \in Contracts : closes'[d] = IF d \in F THEN 1 ELSE closes[d]
      BY <2>b, <3>1 DEF Types
    <3>3. ASSUME NEW d \in Contracts
          PROVE  /\ grant'[d] = "queued" <=> grant[d] = "queued"
                 /\ grant'[d] = "taken" <=> d = hand \/ d \in open'
                 /\ closes'[d] = IF grant'[d] \in {"closing", "closed"} THEN 1 ELSE 0
      BY <2>b, <2>c, <3>1, <3>2 DEF PlacedOnce
    <3>. QED
      BY <2>a, <2>b, <3>3, ZenonT(30) DEF PlacedOnce
  <2>4. Handed'
    BY <2>a DEF Handed
  <2>5. Unsent'
    BY <2>a, <2>b, <2>c, <2>d DEF Unsent, PlacedOnce
  <2>6. OutOnce'
    <3>1. out' = [j \in 1 .. Len(out) - 1 |-> IF j < k THEN out[j] ELSE out[j + 1]]
      BY <1>3, ZenonT(30) DEF DropItem
    <3>2. Len(out) \in Nat /\ Len(out') = Len(out) - 1
      BY <3>1 DEF Types
    <3>. DEFINE p(j) == IF j < k THEN j ELSE j + 1
    <3>3. \A j \in 1 .. Len(out') : p(j) \in 1 .. Len(out) /\ p(j) # k /\ out'[j] = out[p(j)]
      BY <3>1, <3>2
    <3>4. \A j, l \in 1 .. Len(out') : p(j) = p(l) => j = l
      BY <3>2, SMTT(30)
    <3>. HIDE DEF p
    <3>5. \A j \in 1 .. Len(out') : out[p(j)] \in Items /\ out[p(j)] # i /\ fate[out[p(j)]] = "out"
      BY <3>3, SMTT(30) DEF OutOnce, Types
    <3>6. \A j \in 1 .. Len(out') : fate'[out'[j]] = "out"
      BY <2>d, <3>3, <3>5
    <3>7. ASSUME NEW j \in 1 .. Len(out'), NEW l \in 1 .. Len(out'), out'[j] = out'[l]
          PROVE  j = l
      <4>1. out[p(j)] = out[p(l)] /\ p(j) \in 1 .. Len(out) /\ p(l) \in 1 .. Len(out)
        BY <3>3, <3>7
      <4>2. p(j) = p(l)
        BY <4>1 DEF OutOnce
      <4>. QED
        BY <3>4, <4>2
    <3>. QED
      BY <3>6, <3>7, ZenonT(30) DEF OutOnce
  <2>7. Acknowledged'
    BY ItemFacts, <1>3, ZenonT(30) DEF DropItem, Types, Acknowledged
  <2>. QED
    BY <2>1, <2>2, <2>3, <2>4, <2>5, <2>6, <2>7
<1>4. ASSUME Exit
      PROVE  ContractInv'
  <2>a. /\ pc \in {"ready", "retry"} /\ OpenQueue(Sequence)
        /\ grant' = Closed(grant, open) /\ open' = {} /\ out' = <<>>
        /\ fate' = [i \in Items |-> IF i \in Out THEN "dropped" ELSE fate[i]]
        /\ closes' = [d \in Contracts |-> closes[d] + IF d \in open THEN 1 ELSE 0]
        /\ wanted' = None /\ pc' = "flushing"
        /\ UNCHANGED <<queued, hand, current, openAcked, under>>
    BY <1>4 DEF Exit, Reports, CloseContracts
  <2>b. /\ grant' \in [Contracts -> GrantStates]
        /\ \A c \in open : grant'[c] \in {"closing", "closed"}
        /\ \A c \in Contracts \ open : grant'[c] = grant[c]
    <3>1. open \subseteq Contracts /\ grant \in [Contracts -> GrantStates]
      BY DEF Types
    <3>2. /\ Closed(grant, open) \in [Contracts -> GrantStates]
          /\ \A c \in open : Closed(grant, open)[c] \in {"closing", "closed"}
          /\ \A c \in Contracts \ open : Closed(grant, open)[c] = grant[c]
      BY <3>1, ClosedFacts, ZenonT(30)
    <3>. QED
      BY <2>a, <3>2, Zenon
  <2>c. \A i \in Items : i \in Out => fate[i] = "out"
    BY ZenonT(30) DEF Out, OutOnce
  <2>d. /\ fate' \in [Items -> Fates]
        /\ \A i \in Items : fate'[i] = fate[i] \/ (fate[i] = "out" /\ fate'[i] = "dropped")
    <3>1. \A i \in Items : /\ i \in Out => fate'[i] = "dropped"
                           /\ i \notin Out => fate'[i] = fate[i]
      BY <2>a
    <3>2. \A i \in Items : (IF i \in Out THEN "dropped" ELSE fate[i]) \in Fates
      BY DEF Types, Fates
    <3>3. fate' \in [Items -> Fates]
      BY <2>a, <3>2
    <3>4. ASSUME NEW i \in Items
          PROVE  fate'[i] = fate[i] \/ (fate[i] = "out" /\ fate'[i] = "dropped")
      <4>1. CASE i \in Out
        BY <2>c, <3>1, <4>1
      <4>2. CASE i \notin Out
        BY <3>1, <4>2
      <4>. QED
        BY <4>1, <4>2
    <3>. QED
      BY <3>3, <3>4
  <2>1. Types'
    <3>1. out' \in Seq(Items) /\ closes' \in [Contracts -> Nat]
      BY <2>a DEF Types
    <3>2. /\ mapped' \in Queues \cup {0} /\ made' \in Nat
          /\ holds' \in [Users -> Queues \cup {0}]
      BY UserFacts, QueueFacts, <2>a DEF OpenQueue, OpenedQueue, Types
    <3>. QED
      BY <2>a, <2>b, <2>d, <3>1, <3>2 DEF Types
  <2>2. Held'
    <3>1. holds'[Sequence] \in Queues
      BY UserFacts, QueueFacts, <2>a DEF OpenQueue, Types
    <3>2. \A d \in Contracts : holds'[<<"add", d>>] = holds[<<"add", d>>]
      BY UserFacts, QueueFacts, <2>a, Zenon DEF OpenQueue, Types
    <3>3. \A d \in Contracts : grant'[d] = "adding" => grant[d] = "adding"
      BY <2>b
    <3>. QED
      BY <3>1, <3>2, <3>3, ZenonT(30) DEF Held
  <2>3. PlacedOnce'
    <3>1. \A d \in open : grant[d] = "taken" /\ closes[d] = 0 /\ d \in Contracts /\ d # hand
      BY ZenonT(30) DEF PlacedOnce, Types
    <3>2. \A d \in Contracts : closes'[d] = IF d \in open THEN 1 ELSE closes[d]
      BY <2>a, <3>1 DEF Types
    <3>3. ASSUME NEW d \in Contracts
          PROVE  /\ grant'[d] = "queued" <=> grant[d] = "queued"
                 /\ grant'[d] = "taken" <=> d = hand
                 /\ closes'[d] = IF grant'[d] \in {"closing", "closed"} THEN 1 ELSE 0
      BY <2>b, <3>1, <3>2, ZenonT(30) DEF PlacedOnce
    <3>. QED
      BY <2>a, <3>3, ZenonT(30) DEF PlacedOnce
  <2>4. Handed'
    BY <2>a, ZenonT(30) DEF Handed
  <2>5. Unsent'
    <3>1. \A c \in Contracts : fate[c] = "unsent" => fate'[c] = "unsent"
      BY ItemFacts, <2>d
    <3>. QED
      BY <2>a, <2>b, <3>1, ZenonT(30) DEF Unsent, PlacedOnce
  <2>6. OutOnce'
    <3>1. Len(out') = 0
      BY <2>a
    <3>. QED
      BY <3>1 DEF OutOnce
  <2>7. Acknowledged'
    <3>1. \A j \in Items : fate[j] = "acked" => fate'[j] = "acked"
      BY <2>d
    <3>2. \A n \in Messages : fate'[n] = "sent" => fate[n] = "sent"
      BY ItemFacts, <2>d
    <3>. QED
      BY ItemFacts, <2>a, <3>1, <3>2 DEF Acknowledged
  <2>. QED
    BY <2>1, <2>2, <2>3, <2>4, <2>5, <2>6, <2>7
<1>5. ASSUME FlushDrains
      PROVE  ContractInv'
  <2>a. /\ holds[Sequence] \in Queues /\ queued[holds[Sequence]] \in SUBSET Contracts
        /\ grant' = Closed(grant, queued[holds[Sequence]])
    BY <1>5 DEF FlushDrains, Held, Types
  <2>b. /\ grant' \in [Contracts -> GrantStates]
        /\ \A c \in queued[holds[Sequence]] : grant'[c] \in {"closing", "closed"}
        /\ \A c \in Contracts \ queued[holds[Sequence]] : grant'[c] = grant[c]
    <3>1. queued[holds[Sequence]] \subseteq Contracts /\ grant \in [Contracts -> GrantStates]
      BY <2>a DEF Types
    <3>2. /\ Closed(grant, queued[holds[Sequence]]) \in [Contracts -> GrantStates]
          /\ \A c \in queued[holds[Sequence]] : Closed(grant, queued[holds[Sequence]])[c] \in {"closing", "closed"}
          /\ \A c \in Contracts \ queued[holds[Sequence]] : Closed(grant, queued[holds[Sequence]])[c] = grant[c]
      BY <3>1, ClosedFacts, ZenonT(30)
    <3>. QED
      BY <2>a, <3>2, Zenon
  <2>1. Types'
    BY <1>5, <2>a, <2>b, SMTT(30) DEF FlushDrains, CloseContracts, Types, GrantStates
  <2>2. Held'
    BY <1>5, <2>a, <2>b, Zenon DEF FlushDrains, Types, Held
  <2>3. PlacedOnce'
    <3>. DEFINE q == holds[Sequence]
    <3>1. /\ queued' = [queued EXCEPT ![q] = {}] /\ UNCHANGED <<hand, open>>
          /\ closes' = [d \in Contracts |-> closes[d] + IF d \in queued[q] THEN 1 ELSE 0]
      BY <1>5, ZenonT(30) DEF FlushDrains, CloseContracts
    <3>2. \A d \in queued[q] : grant[d] = "queued" /\ closes[d] = 0
      BY <2>a, ZenonT(30) DEF PlacedOnce
    <3>3. \A d \in Contracts : closes'[d] = IF d \in queued[q] THEN 1 ELSE closes[d]
      BY <3>1, <3>2 DEF Types
    <3>4. \A d \in Contracts, r \in Queues : d \in queued'[r] <=> d \in queued[r] /\ d \notin queued[q]
      BY <2>a, <3>1, ZenonT(30) DEF Types, PlacedOnce
    <3>5. ASSUME NEW d \in Contracts
          PROVE  /\ grant'[d] = "queued" <=> grant[d] = "queued" /\ d \notin queued[q]
                 /\ grant'[d] = "taken" <=> grant[d] = "taken"
                 /\ closes'[d] = IF grant'[d] \in {"closing", "closed"} THEN 1 ELSE 0
      BY <2>a, <2>b, <3>2, <3>3, ZenonT(30) DEF PlacedOnce
    <3>. QED
      BY <3>1, <3>4, <3>5, ZenonT(30) DEF PlacedOnce
  <2>4. Handed'
    BY <1>5, <2>a, <2>b, ZenonT(30) DEF FlushDrains, Types, Handed
  <2>5. Unsent'
    BY <1>5, <2>a, <2>b, ZenonT(30) DEF FlushDrains, Types, Unsent, PlacedOnce
  <2>6. OutOnce'
    BY <1>5, <2>a, <2>b, ZenonT(30) DEF FlushDrains, OutOnce
  <2>7. Acknowledged'
    BY <1>5, <2>a, <2>b, ZenonT(30) DEF FlushDrains, Acknowledged
  <2>. QED
    BY <2>1, <2>2, <2>3, <2>4, <2>5, <2>6, <2>7
<1>6. ASSUME FlushRemoves
      PROVE  ContractInv'
  <2>1. Types'
    BY <1>6, ZenonT(30) DEF FlushRemoves, CloseQueue, Types
  <2>2. Held'
    BY UserFacts, QueueFacts, <1>6, ZenonT(30) DEF FlushRemoves, CloseQueue, Types, Held
  <2>3. PlacedOnce'
    BY <1>6, ZenonT(30) DEF FlushRemoves, PlacedOnce
  <2>4. Handed'
    BY <1>6, ZenonT(30) DEF FlushRemoves, Types, Handed
  <2>5. Unsent'
    BY <1>6, ZenonT(30) DEF FlushRemoves, Unsent
  <2>6. OutOnce'
    BY <1>6, ZenonT(30) DEF FlushRemoves, OutOnce
  <2>7. Acknowledged'
    BY <1>6, ZenonT(30) DEF FlushRemoves, Acknowledged
  <2>. QED
    BY <2>1, <2>2, <2>3, <2>4, <2>5, <2>6, <2>7
<1>7. ASSUME NEW c \in Contracts, Lapse(c)
      PROVE  ContractInv'
  <2>1. Types'
    BY <1>7, ZenonT(30) DEF Lapse, managerVars, Types
  <2>2. Held'
    BY <1>7, ZenonT(30) DEF Lapse, managerVars, Held
  <2>3. PlacedOnce'
    BY <1>7 DEF Lapse, managerVars, PlacedOnce
  <2>4. Handed'
    BY <1>7 DEF Lapse, managerVars, Handed
  <2>5. Unsent'
    BY <1>7 DEF Lapse, managerVars, Unsent
  <2>6. OutOnce'
    BY <1>7 DEF Lapse, managerVars, OutOnce
  <2>7. Acknowledged'
    BY <1>7 DEF Lapse, managerVars, Acknowledged
  <2>. QED
    BY <2>1, <2>2, <2>3, <2>4, <2>5, <2>6, <2>7
<1>8. CASE UNCHANGED vars
  <2>1. Types' /\ Held'
    BY <1>8, ZenonT(30) DEF vars, managerVars, sequenceVars, Types, Held
  <2>2. PlacedOnce' /\ Handed'
    BY <1>8, ZenonT(30) DEF vars, managerVars, sequenceVars, PlacedOnce, Handed
  <2>3. Unsent'
    BY <1>8, ZenonT(30) DEF vars, managerVars, sequenceVars, Unsent
  <2>4. OutOnce'
    BY <1>8 DEF vars, managerVars, sequenceVars, OutOnce
  <2>5. Acknowledged'
    BY <1>8 DEF vars, managerVars, sequenceVars, Acknowledged
  <2>. QED
    BY <2>1, <2>2, <2>3, <2>4, <2>5
<1>. QED
    BY <1>1, <1>2, <1>3, <1>4, <1>5, <1>6, <1>7, <1>8 DEF Next, Takes

\* The inductive invariant holds throughout.
LEMMA ContractInvariant == Spec => []ContractInv
<1>1. Init => ContractInv
  <2>. SUFFICES ASSUME Init
                PROVE  ContractInv
      OBVIOUS
  <2>1. Types
    <3>1. /\ mapped \in Queues \cup {0} /\ made \in Nat
          /\ queued \in [Queues -> SUBSET Contracts]
          /\ holds \in [Users -> Queues \cup {0}]
      BY DEF Init, ManagerInit
    <3>2. grant \in [Contracts -> GrantStates] /\ closes \in [Contracts -> Nat]
      BY DEF Init, ManagerInit, GrantStates
    <3>3. /\ out \in Seq(Items) /\ fate \in [Items -> Fates]
          /\ under \in [Items -> Contracts \cup {None}]
      BY DEF Init, Fates
    <3>. QED
      BY <3>1, <3>2, <3>3, Zenon DEF Init, Types
  <2>2. PlacedOnce /\ Held
      BY ItemFacts DEF Init, ManagerInit, PlacedOnce, Held
  <2>3. Handed /\ Unsent /\ OutOnce /\ Acknowledged
      BY ItemFacts DEF Init, Handed, Unsent, OutOnce, Acknowledged
  <2>. QED
      BY <2>1, <2>2, <2>3 DEF ContractInv
<1>. QED
    BY <1>1, ContractsPreserved, PTL DEF Spec

\* Every contract that was granted is in one queue, in hand, open, or closed, and
\* CloseContract is called once for it, whoever adds, takes, expires and flushes.
THEOREM ContractsPlacedOnce == Spec => []PlacedOnce
BY ContractInvariant, PTL DEF ContractInv

\* No message goes without ack before the announcement of its contract was acked.
THEOREM NothingBeforeAnnounced == Spec => []AnnouncedFirst
<1>1. ContractInv => AnnouncedFirst
    BY DEF ContractInv, Acknowledged, AnnouncedFirst
<1>. QED
    BY <1>1, ContractInvariant, PTL
-----------------------------------------------------------------------------
(* The course of a contract. *)

\* ContractOpenByteCounts has the contracts the sequence took and did not close.
Watched ==
    /\ opened = {c \in Contracts : grant[c] = "taken"}
    /\ expired \subseteq Expiring

\* The only ways the grant of contract c changes.  One that was taken goes to the
\* platform to be closed; one that nobody took is closed without an answer.
GrantMoves(c) ==
    \/ grant'[c] = grant[c]
    \/ grant[c] = "none" /\ grant'[c] = "asked"
    \/ grant[c] = "asked" /\ grant'[c] = "adding"
    \/ grant[c] = "adding" /\ grant'[c] = "queued"
    \/ grant[c] = "queued" /\ grant'[c] \in {"taken", "closed"}
    \/ grant[c] = "taken" /\ grant'[c] = "closing"
    \/ grant[c] = "closing" /\ grant'[c] = "closed"

\* The close of contracts that wait in a queue or were taken moves their grants.
LEMMA CloseMoves ==
    ASSUME Types, Watched,
           NEW C, C \subseteq Contracts, \A c \in C : grant[c] \in {"queued", "taken"},
           NEW g \in [Contracts -> GrantStates],
           \A c \in Contracts : g[c] = grant[c] \/ (grant[c] = "none" /\ g[c] = "asked"),
           grant' = Closed(g, C), opened' = opened \ C, expired' = expired
    PROVE  Watched' /\ \A c \in Contracts : GrantMoves(c)
<1>. DEFINE e(c) == CASE c \in C \cap opened -> "closing"
                      [] c \in C \ opened -> "closed"
                      [] OTHER -> g[c]
<1>1. \A c \in Contracts : grant'[c] = e(c)
    BY DEF Closed
<1>2. \A c \in Contracts : c \in opened <=> grant[c] = "taken"
    BY DEF Watched
<1>3. ASSUME NEW c \in Contracts
      PROVE  /\ c \in C /\ grant[c] = "taken" => grant'[c] = "closing"
             /\ c \in C /\ grant[c] = "queued" => grant'[c] = "closed"
             /\ c \notin C => grant'[c] = g[c]
    <2>1. /\ c \in C /\ c \in opened => e(c) = "closing"
          /\ c \in C /\ c \notin opened => e(c) = "closed"
          /\ c \notin C => e(c) = g[c]
      OBVIOUS
    <2>. HIDE DEF e
    <2>. QED
      BY <1>1, <1>2, <2>1
<1>4. \A c \in Contracts : GrantMoves(c)
    BY <1>3 DEF GrantMoves
<1>5. \A c \in Contracts : grant'[c] = "taken" <=> c \in opened \ C
    BY <1>2, <1>3
<1>6. opened' = {c \in Contracts : grant'[c] = "taken"}
    BY <1>5 DEF Watched
<1>. QED
    BY <1>4, <1>6 DEF Watched

\* What every step does to the grants.
LEMMA GrantSteps ==
    ASSUME ContractInv, Watched, [Next]_vars
    PROVE  Watched' /\ \A c \in Contracts : GrantMoves(c)
<1>. USE ItemFacts, UserFacts, QueueFacts DEF ContractInv
<1>t. grant \in [Contracts -> GrantStates]
    BY ZenonT(30) DEF Types
<1>1. ASSUME NEW c \in Contracts, UNCHANGED <<opened, expired>>,
             \/ AddOpens(c) \/ AddAdds(c) \/ SyncOpens(c)
      PROVE  Watched' /\ \A d \in Contracts : GrantMoves(d)
  <2>1. PICK g \in GrantStates : /\ grant' = [grant EXCEPT ![c] = g] /\ g # "taken" /\ grant[c] # "taken"
                                /\ \/ grant[c] = "asked" /\ g = "adding"
                                   \/ grant[c] = "adding" /\ g = "queued"
                                   \/ grant[c] = "closing" /\ g = "closed"
    BY <1>1 DEF AddOpens, AddAdds, SyncOpens, GrantStates
  <2>2. grant'[c] = g /\ \A d \in Contracts : d # c => grant'[d] = grant[d]
    BY <1>t, <2>1
  <2>3. \A d \in Contracts : GrantMoves(d)
    BY <2>1, <2>2 DEF GrantMoves
  <2>4. \A d \in Contracts : grant'[d] = "taken" <=> grant[d] = "taken"
    BY <2>1, <2>2
  <2>. QED
    BY <1>1, <2>3, <2>4, ZenonT(30) DEF Watched
<1>2. ASSUME UNCHANGED <<grant, opened>>, expired' \subseteq Expiring
      PROVE  Watched' /\ \A d \in Contracts : GrantMoves(d)
    BY <1>2 DEF Watched, GrantMoves
<1>3. ASSUME NEW m \in Messages, TakeOpens(m)
      PROVE  Watched' /\ \A d \in Contracts : GrantMoves(d)
  <2>1. \A c \in Contracts : grant'[c] = grant[c] \/ (grant[c] = "none" /\ grant'[c] = "asked")
    BY <1>3, AskedFacts, Zenon DEF TakeOpens, Types
  <2>2. UNCHANGED <<opened, expired>>
    BY <1>3 DEF TakeOpens
  <2>. QED
    BY <2>1, <2>2 DEF Watched, GrantMoves
<1>4. ASSUME NEW C, C \subseteq Contracts, \A c \in C : grant[c] \in {"queued", "taken"},
             grant' = Closed(grant, C), opened' = opened \ C, expired' = expired
      PROVE  Watched' /\ \A d \in Contracts : GrantMoves(d)
    BY <1>4, <1>t, CloseMoves, Zenon
<1>5. ASSUME TakePolls
      PROVE  Watched' /\ \A d \in Contracts : GrantMoves(d)
  <2>1. PICK q : q = holds[Sequence]
    OBVIOUS
  <2>2. q \in Queues /\ queued[q] \subseteq Contracts /\ expired' = expired
    BY <1>5, <2>1 DEF TakePolls, Held, Types
  <2>3. PICK E \in SUBSET queued[q], c \in queued[q] :
              /\ c \notin E /\ opened' = opened \cup {c}
              /\ grant' = [Closed(grant, E) EXCEPT ![c] = "taken"]
    BY <1>5, <2>1, ZenonT(30) DEF TakePolls
  <2>4. \A d \in queued[q] : grant[d] = "queued"
    BY <2>2, ZenonT(30) DEF PlacedOnce
  <2>5. \A d \in Contracts : d \in opened <=> grant[d] = "taken"
    BY ZenonT(30) DEF Watched
  <2>6. \A d \in E : d \notin opened
    BY <2>2, <2>4, <2>5
  <2>7. Closed(grant, E) = [d \in Contracts |-> IF d \in E THEN "closed" ELSE grant[d]]
    BY <2>6 DEF Closed
  <2>8. /\ grant'[c] = "taken" /\ c \in Contracts
        /\ \A d \in Contracts : d # c => grant'[d] = IF d \in E THEN "closed" ELSE grant[d]
    BY <2>2, <2>3, <2>7, ZenonT(30)
  <2>9. \A d \in Contracts : GrantMoves(d)
    BY <2>3, <2>4, <2>8 DEF GrantMoves
  <2>10. \A d \in Contracts : grant'[d] = "taken" <=> d = c \/ grant[d] = "taken"
    BY <2>2, <2>3, <2>4, <2>8
  <2>. QED
    BY <2>2, <2>3, <2>5, <2>9, <2>10 DEF Watched
<1>6. ASSUME SetContract
      PROVE  Watched' /\ \A d \in Contracts : GrantMoves(d)
  <2>1. PICK R : R = Replaced
    OBVIOUS
  <2>2. PICK g \in AskedFor(grant) : grant' = Closed(g, R)
    BY <1>6, <2>1, ZenonT(30) DEF SetContract
  <2>3. opened' = opened \ R /\ expired' = expired
    BY <1>6, <2>1, ZenonT(30) DEF SetContract, Reports, CloseContracts
  <2>4. R \subseteq Contracts /\ \A c \in R : grant[c] \in {"queued", "taken"}
    BY <2>1, ZenonT(30) DEF Replaced, PlacedOnce, Types
  <2>5. /\ g \in [Contracts -> GrantStates]
        /\ \A d \in Contracts : g[d] = grant[d] \/ (grant[d] = "none" /\ g[d] = "asked")
    BY <1>t, AskedFacts, ZenonT(30)
  <2>. QED
    BY <2>2, <2>3, <2>4, <2>5, CloseMoves, Zenon
<1>7. CASE Expire /\ UNCHANGED sequenceVars
  <2>1. PICK q : q = mapped
    OBVIOUS
  <2>2. PICK E \in SUBSET queued[q] : grant' = Closed(grant, E) /\ opened' = opened \ E
    BY <1>7, <2>1, Zenon DEF Expire, CloseContracts
  <2>3. E \subseteq Contracts /\ \A c \in E : grant[c] \in {"queued", "taken"}
    BY <1>7, <2>1, ZenonT(30) DEF Expire, Types, PlacedOnce
  <2>4. expired' = expired
    BY <1>7, ZenonT(30) DEF sequenceVars
  <2>. QED
    BY <1>4, <2>2, <2>3, <2>4, Zenon
<1>8. CASE RejectContract
  <2>1. PICK h : h = hand
    OBVIOUS
  <2>2. h \in Contracts /\ grant[h] = "taken"
    BY <1>8, <2>1, ZenonT(30) DEF RejectContract, Handed, Types, PlacedOnce
  <2>3. grant' = Closed(grant, {h}) /\ opened' = opened \ {h} /\ expired' = expired
    BY <1>8, <2>1, ZenonT(30) DEF RejectContract, Reports, CloseContracts
  <2>. QED
    BY <1>4, <2>2, <2>3
<1>9. \A c \in open : c \in Contracts /\ grant[c] \in {"queued", "taken"}
    BY DEF PlacedOnce, Types
<1>10. CASE AckItem
  <2>1. PICK c, n : c = under[Head(out)] /\ n = unacked[c] - AckedBytes(Head(out))
    OBVIOUS
  <2>2. CASE c \in open
    <3>1. PICK F : F = Finished(c, n)
      OBVIOUS
    <3>2. F \subseteq open
      BY <3>1, ZenonT(30) DEF Finished
    <3>3. grant' = Closed(grant, F) /\ opened' = opened \ F /\ expired' = expired
      BY <1>10, <2>1, <2>2, <3>1 DEF AckItem, Reports, CloseContracts
    <3>. QED
      BY <1>4, <1>9, <3>2, <3>3, Zenon
  <2>3. CASE c \notin open
    <3>1. UNCHANGED <<grant, opened, expired>>
      BY <1>10, <2>1, <2>3 DEF AckItem
    <3>. QED
      BY <1>2, <3>1 DEF Watched
  <2>. QED
    BY <2>2, <2>3
<1>11. ASSUME NEW k \in 1 .. Len(out), DropItem(k)
       PROVE  Watched' /\ \A d \in Contracts : GrantMoves(d)
  <2>1. PICK c, n : c = under[out[k]] /\ n = Unacked(c, Debit(out[k]))
    OBVIOUS
  <2>2. CASE c \in open
    <3>1. PICK F : F = Finished(c, n)
      OBVIOUS
    <3>2. F \subseteq open
      BY <3>1, ZenonT(30) DEF Finished
    <3>3. grant' = Closed(grant, F) /\ opened' = opened \ F /\ expired' = expired
      BY <1>11, <2>1, <2>2, <3>1, ZenonT(30) DEF DropItem, Reports, CloseContracts
    <3>. QED
      BY <1>4, <1>9, <3>2, <3>3, Zenon
  <2>3. CASE c \notin open
    <3>1. UNCHANGED <<grant, opened, expired>>
      BY <1>11, <2>1, <2>3, ZenonT(30) DEF DropItem
    <3>. QED
      BY <1>2, <3>1, ZenonT(30) DEF Watched
  <2>. QED
    BY <2>2, <2>3
<1>12. CASE Exit
  <2>1. PICK C : C = open
    OBVIOUS
  <2>2. grant' = Closed(grant, C) /\ opened' = opened \ C /\ expired' = expired
    BY <1>12, <2>1, ZenonT(30) DEF Exit, Reports, CloseContracts
  <2>. QED
    BY <1>4, <1>9, <2>1, <2>2, ZenonT(30)
<1>13. CASE FlushDrains
  <2>1. PICK q, C : q = holds[Sequence] /\ C = queued[q]
    BY ZenonT(30)
  <2>2. C \subseteq Contracts /\ \A c \in C : grant[c] \in {"queued", "taken"}
    BY <1>13, <2>1, ZenonT(30) DEF FlushDrains, Held, Types, PlacedOnce
  <2>3. grant' = Closed(grant, C) /\ opened' = opened \ C /\ expired' = expired
    BY <1>13, <2>1, ZenonT(30) DEF FlushDrains, CloseContracts
  <2>. QED
    BY <1>4, <2>2, <2>3, Zenon
<1>14. CASE ManagerNext /\ UNCHANGED sequenceVars
  <2>1. ASSUME NEW c \in Contracts, AddOpens(c) \/ AddAdds(c) \/ SyncOpens(c)
        PROVE  Watched' /\ \A d \in Contracts : GrantMoves(d)
    <3>1. UNCHANGED <<opened, expired>>
      BY <1>14, <2>1, ZenonT(30) DEF AddOpens, AddAdds, SyncOpens, sequenceVars
    <3>. QED
      BY <1>1, <2>1, <3>1, ZenonT(30)
  <2>2. ASSUME NEW c \in Contracts, AddCloses(c) \/ SyncCloses(c)
        PROVE  Watched' /\ \A d \in Contracts : GrantMoves(d)
    <3>1. UNCHANGED <<grant, opened, expired>>
      BY <1>14, <2>2, ZenonT(30) DEF AddCloses, SyncCloses, sequenceVars
    <3>. QED
      BY <1>2, <3>1, ZenonT(30) DEF Watched
  <2>. QED
    BY <1>7, <1>14, <2>1, <2>2 DEF ManagerNext
<1>15. CASE \/ \E m \in Messages : Send(m)
            \/ TakeTimesOut \/ FlushRemoves \/ UNCHANGED vars
  <2>1. UNCHANGED <<grant, opened, expired>>
    BY <1>15, ZenonT(30) DEF Send, TakeTimesOut, FlushRemoves, vars, managerVars, sequenceVars
  <2>. QED
    BY <1>2, <2>1 DEF Watched
<1>16. ASSUME NEW c \in Contracts, Lapse(c)
       PROVE  Watched' /\ \A d \in Contracts : GrantMoves(d)
  <2>1. UNCHANGED <<grant, opened>> /\ expired' \subseteq Expiring
    BY <1>16 DEF Lapse, managerVars, Watched
  <2>. QED
    BY <1>2, <2>1
<1>. QED
    BY <1>3, <1>5, <1>6, <1>8, <1>10, <1>11, <1>12, <1>13, <1>14, <1>15, <1>16 DEF Next

\* ContractOpenByteCounts is kept throughout.
LEMMA WatchedInvariant == Spec => []Watched
<1>1. Init => Watched
    BY DEF Init, ManagerInit, Watched
<1>2. ContractInv /\ Watched /\ [Next]_vars => Watched'
    BY GrantSteps
<1>. QED
    BY <1>1, <1>2, ContractInvariant, PTL DEF Spec

\* The grant of a contract never goes back: it is asked for, added, queued, taken
\* and closed in this order, and a contract nobody took is closed from the queue.
THEOREM GrantsForward == Spec => [][\A c \in Contracts : GrantMoves(c)]_vars
<1>1. ContractInv /\ Watched /\ [Next]_vars => \A c \in Contracts : GrantMoves(c)
    BY GrantSteps
<1>. QED
    BY <1>1, ContractInvariant, WatchedInvariant, PTL DEF Spec
=============================================================================
