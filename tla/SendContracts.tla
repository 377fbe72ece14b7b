--------------------------- MODULE SendContracts ---------------------------
(***************************************************************************)
(* How a SendSequence pays for what it sends: every message debits the     *)
(* current contract before it is sent, moves to the acked count when it is *)
(* acked, and is released when it is dropped.  When the contract is full   *)
(* or expired the sequence takes the next one from the ContractManager and *)
(* announces it with a pack of its own; the one it replaces stays open     *)
(* until nothing is outstanding under it.  At the end every open contract  *)
(* is closed with a report of its bytes, and the queue of the key flushed. *)
(***************************************************************************)
EXTENDS ContractManager, Sequences, Functions

CONSTANTS
    Messages,     \* the messages of the callers
    Size,         \* MessageByteCount of each
    MinBytes,     \* MinMessageByteCount, the least a message debits
    Capacity,     \* effectiveTransferByteCount of each contract
    WantsAck,     \* the messages sent with ack
    Expiring,     \* the contracts with a signed deadline
    Retained,     \* the messages sent with RetainAfterAckTimeout
    None          \* no contract

ASSUME SendContractsAssumption ==
    /\ Size \in [Messages -> Nat]
    /\ MinBytes \in Nat \ {0}
    /\ Capacity \in [Contracts -> Nat]
    /\ WantsAck \subseteq Messages
    /\ Retained \subseteq WantsAck
    /\ Expiring \subseteq Contracts
    /\ None \notin Contracts \cup Messages
    /\ Messages \cap Contracts = {}

\* What the sequence sends: messages, and for each contract the pack that
\* announces it.
Items == Messages \cup Contracts

VARIABLES
    pc,          \* the sequence: "ready"; "taking" (in TakeContract); "set" (a
                 \* contract in hand); "retry"; "flushing", "flushed" (in the
                 \* teardown); "done"
    wanted,      \* the message a contract is being taken for, or None
    hand,        \* the contract TakeContract returned, or None
    current,     \* sendContract, or None
    openAcked,   \* sendContractAcked
    expired,     \* the contracts whose deadline passed
    open,        \* openSendContracts
    acked,       \* ackedByteCount of each contract
    unacked,     \* unackedByteCount of each contract
    out,         \* sendItems: the items waiting for an ack, in order
    fate,        \* "unsent", "out", "acked", "sent" (without ack), "dropped"
                 \* (unacked), "failed" (a write without ack failed)
    under,       \* the contract an item was sent under, or None
    report       \* the bytes CloseContract reported: <<acked, unacked>>, or <<>>

sequenceVars == <<pc, wanted, hand, current, openAcked, expired, open, acked, unacked,
                  out, fate, under, report>>
vars == <<managerVars, sequenceVars>>

TypeOK ==
    /\ ManagerTypeOK
    /\ pc \in {"ready", "taking", "set", "retry", "flushing", "flushed", "done"}
    /\ wanted \in Messages \cup {None}
    /\ hand \in Contracts \cup {None}
    /\ current \in Contracts \cup {None}
    /\ openAcked \in BOOLEAN
    /\ expired \subseteq Expiring
    /\ open \subseteq Contracts
    /\ acked \in [Contracts -> Nat]
    /\ unacked \in [Contracts -> Nat]
    /\ out \in Seq(Items)
    /\ fate \in [Items -> {"unsent", "out", "acked", "sent", "dropped", "failed"}]
    /\ under \in [Items -> Contracts \cup {None}]
    /\ report \in [Contracts -> {<<>>} \cup (Nat \X Nat)]

Init ==
    /\ ManagerInit
    /\ pc = "ready"
    /\ wanted = None
    /\ hand = None
    /\ current = None
    /\ openAcked = FALSE
    /\ expired = {}
    /\ open = {}
    /\ acked = [c \in Contracts |-> 0]
    /\ unacked = [c \in Contracts |-> 0]
    /\ out = <<>>
    /\ fate = [i \in Items |-> "unsent"]
    /\ under = [i \in Items |-> None]
    /\ report = [c \in Contracts |-> <<>>]

\* What an item debits its contract.
Debit(i) ==
    IF i \in Messages /\ Size[i] > MinBytes THEN Size[i] ELSE MinBytes

\* update accepts n more bytes under contract c.
Fits(c, n) == c \notin expired /\ acked[c] + unacked[c] + n <= Capacity[c]

\* CloseContract of the contracts C of the sequence, with their counts a and u.
Reports(C, a, u) ==
    /\ CloseContracts(C)
    /\ report' = [c \in Contracts |-> IF c \in C THEN <<a[c], u[c]>> ELSE report[c]]

-----------------------------------------------------------------------------
(* updateContract and send. *)

\* The current contract takes the debit of message m, which is sent.  Until the
\* announcement of the contract is acked every message asks for an ack.  One
\* without ack is settled by its write: acked when it succeeds; when it fails
\* the debit stays.
Send(m) ==
    /\ pc = "ready"
    /\ fate[m] = "unsent"
    /\ current # None
    /\ Fits(current, Debit(m))
    /\ under' = [under EXCEPT ![m] = current]
    /\ \/ /\ m \in WantsAck \/ ~openAcked
          /\ unacked' = [unacked EXCEPT ![current] = @ + Debit(m)]
          /\ out' = Append(out, m)
          /\ fate' = [fate EXCEPT ![m] = "out"]
          /\ UNCHANGED acked
       \/ /\ m \notin WantsAck /\ openAcked
          /\ acked' = [acked EXCEPT ![current] = @ + Debit(m)]
          /\ fate' = [fate EXCEPT ![m] = "sent"]
          /\ UNCHANGED <<unacked, out>>
       \/ /\ m \notin WantsAck /\ openAcked
          /\ unacked' = [unacked EXCEPT ![current] = @ + Debit(m)]
          /\ fate' = [fate EXCEPT ![m] = "failed"]
          /\ UNCHANGED <<acked, out>>
    /\ UNCHANGED <<managerVars, pc, wanted, hand, current, openAcked, expired, open, report>>

\* The current contract is full or expired, or the last try gave none: ask for
\* one and wait for one.
TakeOpens(m) ==
    /\ \/ /\ pc = "ready"
          /\ fate[m] = "unsent"
          /\ current # None => ~Fits(current, Debit(m))
       \/ pc = "retry" /\ m = wanted
    /\ OpenQueue(Sequence)
    /\ pc' = "taking"
    /\ wanted' = m
    /\ grant' \in AskedFor(grant)
    /\ UNCHANGED <<queued, opened, closes, hand, current, openAcked, expired, open, acked, unacked,
                   out, fate, under, report>>

\* The mutation: Poll leaves the contract it returns in the queue.
PolledKeeping(q, E, c) == queued[q] \ E

\* What Poll leaves in queue q when it drops E and returns c.
Polled(q, E, c) == queued[q] \ (E \cup {c})

\* Poll closes the contracts E that waited too long or are past their deadline,
\* and returns one of the others.  (A Poll that finds only such contracts closes
\* them and waits: a step of Expire.)
TakePolls ==
    LET q == holds[Sequence] IN
    /\ pc = "taking"
    /\ \E E \in SUBSET queued[q] :
       \E c \in queued[q] \ E :
          /\ queued[q] \cap expired \subseteq E
          /\ queued' = [queued EXCEPT ![q] = Polled(q, E, c)]
          /\ hand' = c
          /\ closes' = [d \in Contracts |-> closes[d] + IF d \in E THEN 1 ELSE 0]
          /\ opened' = opened \cup {c}
          /\ grant' = [Closed(grant, E) EXCEPT ![c] = "taken"]
    /\ pc' = "set"
    /\ UNCHANGED <<mapped, made, openCount, holds, wanted, current, openAcked, expired, open,
                   acked, unacked, out, fate, under, report>>

\* TakeContract times out, and the loop tries again.
TakeTimesOut ==
    /\ pc = "taking"
    /\ CloseQueue(Sequence, FALSE)
    /\ pc' = "retry"
    /\ UNCHANGED <<queued, grant, opened, closes, wanted, hand, current, openAcked, expired,
                   open, acked, unacked, out, fate, under, report>>

\* setContract closes the contract it replaces if nothing is outstanding under it.
Replaced == {c \in open \cap {current} : unacked[c] = 0}

\* setNextContract takes the contract in hand: it debits the announcement and
\* the message, replaces the current contract, and sends both.
SetContract ==
    LET c == hand  m == wanted IN
    /\ pc = "set"
    /\ Fits(c, MinBytes + Debit(m))
    /\ CloseQueue(Sequence, FALSE)
    /\ Reports(Replaced, acked, unacked)
    /\ \E g \in AskedFor(grant) : grant' = Closed(g, Replaced)
    /\ open' = (open \ Replaced) \cup {c}
    /\ current' = c
    /\ openAcked' = FALSE
    /\ unacked' = [unacked EXCEPT ![c] = @ + MinBytes + Debit(m)]
    /\ out' = out \o <<c, m>>
    /\ fate' = [fate EXCEPT ![c] = "out", ![m] = "out"]
    /\ under' = [under EXCEPT ![c] = c, ![m] = c]
    /\ pc' = "ready"
    /\ wanted' = None
    /\ hand' = None
    /\ UNCHANGED <<queued, acked, expired>>

\* The contract in hand is expired, or too small: it is closed unused.
RejectContract ==
    /\ pc = "set"
    /\ ~Fits(hand, MinBytes + Debit(wanted))
    /\ CloseQueue(Sequence, FALSE)
    /\ Reports({hand}, acked, unacked)
    /\ grant' = Closed(grant, {hand})
    /\ pc' = "retry"
    /\ hand' = None
    /\ UNCHANGED <<queued, wanted, current, openAcked, expired, open, acked, unacked, out, fate,
                   under>>

-----------------------------------------------------------------------------
(* Acks, drops and the end. *)

\* The mutation: a contract that was replaced waits for the end.
FinishedNever(c, n) == {}

\* The contracts that are closed once c has n bytes outstanding: c, if it was
\* replaced and nothing is left.
Finished(c, n) == {d \in open \cap {c} : d # current /\ n = 0}

\* The mutation: the ack of any announcement counts.
AnnouncedByAny(i) == i \in Contracts

\* The ack of item i opens the current contract.
Announced(i) == i = current

\* The mutation: ack takes the least size on top of the size.
AckedBytesOver(i) == Debit(i) + IF i \in Messages THEN Size[i] ELSE 0

\* What ack moves from the unacked to the acked count.
AckedBytes(i) == Debit(i)

\* ackItem of the oldest item.  The ack of an announcement opens the contract
\* to messages without ack, if it is still the current one.
AckItem ==
    LET i == Head(out)  c == under[i]  n == unacked[c] - AckedBytes(i) IN
    /\ pc = "ready"
    /\ out # <<>>
    /\ out' = Tail(out)
    /\ fate' = [fate EXCEPT ![i] = "acked"]
    /\ IF c \in open
       THEN /\ acked' = [acked EXCEPT ![c] = @ + AckedBytes(i)]
            /\ unacked' = [unacked EXCEPT ![c] = n]
            /\ Reports(Finished(c, n), acked', unacked')
            /\ grant' = Closed(grant, Finished(c, n))
            /\ open' = open \ Finished(c, n)
       ELSE UNCHANGED <<acked, unacked, closes, opened, report, grant, open>>
    /\ openAcked' = (openAcked \/ Announced(i))
    /\ UNCHANGED <<mapped, made, openCount, queued, holds, pc, wanted, hand, current,
                   expired, under>>

\* The mutation: a dropped item keeps its debit.
UnackedNothing(c, n) == unacked[c]

\* What is left after unack releases n bytes under contract c.
Unacked(c, n) == IF unacked[c] < n THEN 0 ELSE unacked[c] - n

\* The mutation: a dropped item is settled like an acked one.
DropCredits(c, i) == [acked EXCEPT ![c] = @ + Debit(i)]

\* unack credits nothing.
DropAcked(c, i) == acked

\* dropItem of a retained item whose backstop passed, at any place in the queue.
DropItem(k) ==
    LET i == out[k]  c == under[i]  n == Unacked(c, Debit(i)) IN
    /\ pc = "ready"
    /\ i \in Retained
    /\ out' = [j \in 1 .. Len(out) - 1 |-> IF j < k THEN out[j] ELSE out[j + 1]]
    /\ fate' = [fate EXCEPT ![i] = "dropped"]
    /\ IF c \in open
       THEN /\ acked' = DropAcked(c, i)
            /\ unacked' = [unacked EXCEPT ![c] = n]
            /\ Reports(Finished(c, n), acked', unacked')
            /\ grant' = Closed(grant, Finished(c, n))
            /\ open' = open \ Finished(c, n)
       ELSE UNCHANGED <<acked, unacked, closes, opened, report, grant, open>>
    /\ UNCHANGED <<mapped, made, openCount, queued, holds, pc, wanted, hand, current,
                   openAcked, expired, under>>

\* The bytes of the items of I that were sent under contract c.
BytesUnder(c, I) ==
    SumFunctionOnSet([i \in Items |-> Debit(i)], {i \in I : under[i] = c})

\* The items waiting for an ack.
Out == {out[k] : k \in 1 .. Len(out)}

\* The loop ends (the client closes, the sequence is idle, an ack is overdue, or
\* no contract came in time), and the deferred part of Run: what waits for an ack
\* is unacked, every open contract is closed, and FlushContractQueue opens the
\* queue.
Exit ==
    LET left == [c \in Contracts |->
                    IF c \in open THEN Unacked(c, BytesUnder(c, Out)) ELSE unacked[c]] IN
    /\ pc \in {"ready", "retry"}
    /\ OpenQueue(Sequence)
    /\ unacked' = left
    /\ Reports(open, acked, left)
    /\ grant' = Closed(grant, open)
    /\ open' = {}
    /\ fate' = [i \in Items |-> IF i \in Out THEN "dropped" ELSE fate[i]]
    /\ out' = <<>>
    /\ wanted' = None
    /\ pc' = "flushing"
    /\ UNCHANGED <<queued, hand, current, openAcked, expired, acked, under>>

\* FlushContractQueue empties the queue it opened and closes what was in it.
FlushDrains ==
    LET q == holds[Sequence] IN
    /\ pc = "flushing"
    /\ queued' = [queued EXCEPT ![q] = {}]
    /\ grant' = Closed(grant, queued[q])
    /\ CloseContracts(queued[q])
    /\ pc' = "flushed"
    /\ UNCHANGED <<mapped, made, openCount, holds, wanted, hand, current, openAcked, expired,
                   open, acked, unacked, out, fate, under, report>>

\* It removes the queue whoever else has it open.
FlushRemoves ==
    /\ pc = "flushed"
    /\ CloseQueue(Sequence, TRUE)
    /\ pc' = "done"
    /\ UNCHANGED <<queued, grant, opened, closes, wanted, hand, current, openAcked, expired,
                   open, acked, unacked, out, fate, under, report>>

\* The deadline of a contract passes.
Lapse(c) ==
    /\ c \in Expiring \ expired
    /\ grant[c] \in {"queued", "taken"}
    /\ expired' = expired \cup {c}
    /\ UNCHANGED <<managerVars, pc, wanted, hand, current, openAcked, open, acked, unacked,
                   out, fate, under, report>>

Next ==
    \/ ManagerNext /\ UNCHANGED sequenceVars
    \/ \E m \in Messages : Send(m) \/ TakeOpens(m)
    \/ TakePolls \/ TakeTimesOut \/ SetContract \/ RejectContract
    \/ AckItem
    \/ \E k \in 1 .. Len(out) : DropItem(k)
    \/ Exit \/ FlushDrains \/ FlushRemoves
    \/ \E c \in Contracts : Lapse(c)

Spec == Init /\ [][Next]_vars

-----------------------------------------------------------------------------
(* Properties. *)

\* No grant is duplicated and none vanishes: a contract that was added is in
\* one queue, in the hand of TakeContract, open in the sequence, or closed, and
\* in only one of these; CloseContract is called for it once.
PlacedOnce ==
    \A c \in Contracts :
        /\ grant[c] = "queued" <=> \E q \in Queues : c \in queued[q]
        /\ \A q, r \in Queues : c \in queued[q] /\ c \in queued[r] => q = r
        /\ grant[c] = "taken" <=> c = hand \/ c \in open
        /\ c = hand => c \notin open
        /\ closes[c] = IF grant[c] \in {"closing", "closed"} THEN 1 ELSE 0

\* The counts of an open contract are the debits under it: the acked bytes were
\* acked (or written, for messages without ack); the unacked bytes wait for an
\* ack, or are those of messages without ack whose write failed.  So ack never
\* finds less than it credits, and no contract is overdrawn.
DebitsExact ==
    \A c \in open :
        /\ acked[c] = BytesUnder(c, {i \in Items : fate[i] \in {"acked", "sent"}})
        /\ unacked[c] = BytesUnder(c, {i \in Items : fate[i] \in {"out", "failed"}})
        /\ acked[c] + unacked[c] <= Capacity[c]

\* A close reports what was delivered under the contract as acked, and as
\* unacked only the messages without ack whose write failed: nothing that was
\* dropped or is still waiting for an ack.
ReportsExact ==
    \A c \in Contracts :
        report[c] # <<>> =>
            report[c] = <<BytesUnder(c, {i \in Items : fate[i] \in {"acked", "sent"}}),
                          BytesUnder(c, {i \in Items : fate[i] = "failed"})>>

\* A contract that was replaced stays open only for an item under it that waits
\* for its ack, or for a message without ack whose write failed (the debit of
\* that one is never released, so the contract stays until the sequence exits).
OpenForReason ==
    \A c \in open \ {current} :
        \E i \in Items : under[i] = c /\ fate[i] \in {"out", "failed"}

\* A message goes without ack only under a contract whose announcement was
\* acked: a late ack of an older announcement does not count for the new one.
AnnouncedFirst == \A m \in Messages : fate[m] = "sent" => fate[under[m]] = "acked"

\* Until the sequence removes the queue by force, the queue a user opened is the
\* one that is mapped, and its count is the number of its users: nothing is
\* added to or awaited from a queue that nobody else can find.
HeldMapped ==
    pc # "done" =>
        /\ \A u \in Users : holds[u] \in {0, mapped}
        /\ mapped # 0 => openCount[mapped] = Cardinality({u \in Users : holds[u] = mapped})

\* What FlushContractQueue promises: once it removed the queue, a contract nobody
\* took is closed, or waits in a queue that the manager can still find.
FlushReleases ==
    pc = "done" =>
        \A c \in Contracts : grant[c] = "queued" => mapped # 0 /\ c \in queued[mapped]
=============================================================================
