-------------------------- MODULE ContractManager --------------------------
(***************************************************************************)
(* The contract queue that the ContractManager keeps for one contract key. *)
(* A contract the platform grants is added to the queue by the goroutine   *)
(* of the reply, taken from it by a SendSequence, and closed: with a       *)
(* report of its bytes after use, or unused when it expires in the queue   *)
(* or the sequence of the key exits.  A closed contract gives its escrow   *)
(* back.                                                                   *)
(*                                                                         *)
(* A queue is an object: a user opens the one that is mapped, works on it, *)
(* and closes whichever is mapped by then.  Each of these is a critical    *)
(* section of its own.                                                     *)
(***************************************************************************)
EXTENDS Integers, FiniteSets

CONSTANTS
    Contracts,  \* the contracts the platform may grant
    MaxQueues   \* how many queue objects are made, a bound of the model

ASSUME ManagerAssumption ==
    /\ IsFiniteSet(Contracts)
    /\ MaxQueues \in Nat

Queues == 1 .. MaxQueues

\* A TakeContract or a FlushContractQueue of the sequence, as a user of a queue.
Sequence == <<"sequence">>

\* The calls that hold a queue open: the reply of a CreateContract, adding the
\* contract c; the callback of the acked close of c; and the sequence.
Users == ({"add", "sync"} \X Contracts) \cup {Sequence}

VARIABLES
    mapped,     \* destinationContracts[contractKey]: a queue, or 0 for none
    made,       \* how many queues were made
    openCount,  \* openCount of each queue
    queued,     \* the contracts in each queue
    holds,      \* the queue each user opened, 0 for none
    grant,      \* how far the grant of each contract is: "none", "asked", "adding",
                \* "queued", "taken" (by TakeContract), "closing" (the close is on
                \* its way to the platform), "closed"
    opened,     \* ContractOpenByteCounts: the contracts taken and not closed
    closes      \* how often CloseContract was called for each contract

managerVars == <<mapped, made, openCount, queued, holds, grant, opened, closes>>

ManagerTypeOK ==
    /\ mapped \in Queues \cup {0}
    /\ made \in 0 .. MaxQueues
    /\ openCount \in [Queues -> Int]
    /\ queued \in [Queues -> SUBSET Contracts]
    /\ holds \in [Users -> Queues \cup {0}]
    /\ grant \in [Contracts -> {"none", "asked", "adding", "queued", "taken", "closing", "closed"}]
    /\ opened \subseteq Contracts
    /\ closes \in [Contracts -> Nat]

ManagerInit ==
    /\ mapped = 0
    /\ made = 0
    /\ openCount = [q \in Queues |-> 0]
    /\ queued = [q \in Queues |-> {}]
    /\ holds = [u \in Users |-> 0]
    /\ grant = [c \in Contracts |-> "none"]
    /\ opened = {}
    /\ closes = [c \in Contracts |-> 0]

\* The queue openContractQueue returns.
OpenedQueue == IF mapped = 0 THEN made + 1 ELSE mapped

\* openContractQueue, by user u.
OpenQueue(u) ==
    /\ OpenedQueue \in Queues
    /\ mapped' = OpenedQueue
    /\ made' = IF mapped = 0 THEN made + 1 ELSE made
    /\ openCount' = [openCount EXCEPT ![OpenedQueue] = @ + 1]
    /\ holds' = [holds EXCEPT ![u] = OpenedQueue]

\* The mutation: an empty queue is done whoever has it open.
IsEmpty(n, C) == C = {}

\* IsDone of a queue with the open count n and the contracts C in it.
IsDone(n, C) == n <= 0 /\ C = {}

\* closeContractQueueWithForceRemove, by user u: it closes what is mapped now.
CloseQueue(u, force) ==
    /\ holds' = [holds EXCEPT ![u] = 0]
    /\ openCount' = IF mapped = 0 THEN openCount ELSE [openCount EXCEPT ![mapped] = @ - 1]
    /\ mapped' = IF mapped # 0 /\ (force \/ IsDone(openCount[mapped] - 1, queued[mapped]))
                 THEN 0 ELSE mapped
    /\ UNCHANGED made

\* The call of CreateContract asks the platform for one more contract, if it has
\* one to grant.  Its own open and close of the queue leave nothing behind.
AskedFor(g) ==
    {g} \cup {[g EXCEPT ![c] = "asked"] : c \in {d \in Contracts : g[d] = "none"}}

\* The grants g after CloseContract of each contract of C.  Only the ack of the
\* close of a contract that was taken comes back to the queue.
Closed(g, C) ==
    [c \in Contracts |-> CASE c \in C \cap opened -> "closing"
                           [] c \in C \ opened -> "closed"
                           [] OTHER -> g[c]]

\* CloseContract of each contract of C.
CloseContracts(C) ==
    /\ closes' = [c \in Contracts |-> closes[c] + IF c \in C THEN 1 ELSE 0]
    /\ opened' = opened \ C

-----------------------------------------------------------------------------
(* addContract, on the goroutine of the reply. *)

AddOpens(c) ==
    /\ grant[c] = "asked"
    /\ OpenQueue(<<"add", c>>)
    /\ grant' = [grant EXCEPT ![c] = "adding"]
    /\ UNCHANGED <<queued, opened, closes>>

AddAdds(c) ==
    LET q == holds[<<"add", c>>] IN
    /\ grant[c] = "adding"
    /\ queued' = [queued EXCEPT ![q] = @ \cup {c}]
    /\ grant' = [grant EXCEPT ![c] = "queued"]
    /\ UNCHANGED <<mapped, made, openCount, holds, opened, closes>>

AddCloses(c) ==
    /\ holds[<<"add", c>>] # 0
    /\ grant[c] # "adding"
    /\ CloseQueue(<<"add", c>>, FALSE)
    /\ UNCHANGED <<queued, grant, opened, closes>>

-----------------------------------------------------------------------------
(* The callback of the ControlSync, once the platform acked a close. *)

SyncOpens(c) ==
    /\ grant[c] = "closing"
    /\ OpenQueue(<<"sync", c>>)
    /\ grant' = [grant EXCEPT ![c] = "closed"]
    /\ UNCHANGED <<queued, opened, closes>>

SyncCloses(c) ==
    /\ holds[<<"sync", c>>] # 0
    /\ CloseQueue(<<"sync", c>>, FALSE)
    /\ UNCHANGED <<queued, grant, opened, closes>>

-----------------------------------------------------------------------------
(* expireQueuedContracts: contracts that waited too long are closed, and with *)
(* them all when the client is done.  Flush of the client closes them all too. *)

Expire ==
    /\ mapped # 0
    /\ \E E \in SUBSET queued[mapped] :
          /\ queued' = [queued EXCEPT ![mapped] = @ \ E]
          /\ grant' = Closed(grant, E)
          /\ CloseContracts(E)
          /\ mapped' = IF IsDone(openCount[mapped], queued[mapped] \ E) THEN 0 ELSE mapped
    /\ UNCHANGED <<made, openCount, holds>>

ManagerNext ==
    \/ \E c \in Contracts :
          AddOpens(c) \/ AddAdds(c) \/ AddCloses(c) \/ SyncOpens(c) \/ SyncCloses(c)
    \/ Expire
=============================================================================
