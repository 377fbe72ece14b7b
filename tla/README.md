# Verification of the transfer layer and the durable head

TLA+ models, TLC runs and TLAPS proofs kept beside the Go code of this
repository. The main subject is the transfer layer: the reliable, ordered sequences of
`transfer.go` that everything else in the client is built on, how they come and
go, and how they pay for what they send. The second subject is the durable head of
`internal/durablehead`: the crash-safe file in which a provider keeps its claims
and its fleet journal.

## The system and its parts

A client sends frames to another client through a *transfer sequence*. The
sending half (`SendSequence`) numbers the frames, writes them to whatever
routes exist, and resends them until they are acked. The receiving half
(`ReceiveSequence`) delivers them in order, holds those that arrive early, and
acks. Both halves are goroutines with channels in front, created on demand by
`SendBuffer` and `ReceiveBuffer` and closed when idle. Around them:

| Part | State | Operations | Interacts with |
|---|---|---|---|
| send sequence | `sendItems`, `resendQueue`, head flags, retained bytes | send, resend, receiveAck, backstop drop, close | routes, ack window, contracts |
| receive sequence | delivery point, hold, commit marks | receive, drain, commit, exit | routes, ack window, contracts |
| ack window | head ack, selective acks | Update, Snapshot | both halves |
| transfer queue | heap by time and by number, byte counts | Add, Remove, CanAdd, Clear | memory budget |
| contracts | open contracts, acked and unacked bytes; queues per destination | take, add, ack, unack, close, flush | both halves, platform |
| sequence buffers | maps of live sequences, idle conditions | Pack, Close, Cancel, supersede | both halves |
| forward sequence | packs channel | Pack, Run, Close | routes |
| memory budget | used bytes per level, waiters | reserve, release, wait | queues, transports |
| retry budget, flight control, yield | tokens, windows | allow, refund, observe | send sequence |
| route manager, transports | routes, writers, connections | open, write, reconnect | sequences |
| encryption sessions | handshake epochs | acquire, restart, release | both halves |
| message pool | share counts | get, share, return | everything |
| IP relay, security policy | flows, rules | parse, classify, relay | transfer |
| durable head | a file, a checkpoint attribute, temporaries and create markers | Open, Reconcile, Publish | the file system |
| provider program, tools | processes, files | hot swap, login, claims | all of the above |

`PROJECT.json` lists all of them under `components` with what is modelled.

What makes the core hard: three goroutines share an item (the ack reader, the
send loop, the receiver); messages are lost, duplicated and reordered; acks are
cumulative and name one item while settling many; a receive sequence can vanish
with its hold and come back empty, after which a *head* pack tells it to skip
what the sender settled; retained items may be dropped from the middle of the
sequence; a full hold evicts items. Around the core, every sequence is fed by
other goroutines while it decides that it is idle, is cancelled, or is replaced
by another of the same key before its own cleanup has run; and the contracts
that pay for it are granted, expired, closed and flushed by goroutines of their
own.

A durable head is hard for another reason: a publication is some twenty system
calls, each of which may be the last of the process or of the machine, and the
recovery that follows is cut short in the same way. The `hazards` of
`PROJECT.json` name the lines.

## Modules

| Module | Models |
|---|---|
| `AckWindow` | `sequenceAckWindow`: Update and Snapshot, as operators |
| `TransferNetwork` | packs and acks in flight: lost, duplicated, reordered |
| `SendSequence` | `SendSequence.Run`, `sendWithSetContract`, `receiveAck`, `dropItem` |
| `ReceiveSequence` | `ReceiveSequence.Run`, `receive`, `commitHeldPrefix`, the ack writer |
| `Transfer` | the two halves and the network together, and the properties |
| `TransferService` | abstract: what a sequence promises its two users |
| `TransferProofs` | types, the inductive invariant, and that `Transfer` implements `TransferService` |
| `TransferBytes` | the byte counts of the sender and of the hold |
| `IdleCondition` | `IdleCondition` of `util.go` |
| `SequenceLifecycle` | `SendBuffer`, `ForwardBuffer` and the lives of their sequences: Pack, idle close, cancel, Close, cleanup |
| `SequenceLifecycleProofs` | its inductive invariant, and who owns a pack |
| `ReceiveBuffer` | `ReceiveBuffer` and the lives of its sequences: versions, the head index, supersession |
| `ReceiveBufferProofs` | its inductive invariant, and who has a pack |
| `ContractManager` | the contract queue of one key: open, add, take, expire, close, flush |
| `SendContracts` | how a `SendSequence` debits, rolls over and closes contracts, composed with `ContractManager` |
| `SendContractsProofs` | its inductive invariant: where each contract is, and how its grant moves |
| `SendContractsLedger` | who has the queue open, and what is debited, acked and reported |
| `DurableHead` | the durable head: Open, Reconcile, Publish, the census, kills, failures and power losses |
| `DurableHeadProofs` | its inductive invariant, and what Reconcile finds on ordered storage |
| `DataTheorems` | facts about sums over finite sets and about sequences, for the proofs |
| `MCTransfer`, `MCReceiveHold`, `MCSequenceLifecycle`, `MCReceiveBuffer`, `MCSendContracts`, `MCDurableHead` | instances for TLC |

### How state and actions correspond to the code

*Send half.* `sendItems` and `resendQueue` are sets of sequence numbers (the
order of the first is the order of the numbers; the order of the second is by
resend time, which is abstracted). `inHand` is the item that `Run` has outside
`resendQueue` while it writes: sending is `SendWrite` then `SendAdd`, resending
is `ResendWrite` then `ResendAdd`, so that the ack reader (`ReceiveAckMessage`)
can run between the two and miss the item. `ApplyAcks` is the top of the loop
(one snapshot, `receiveAck` for the head, then for each selective ack).
`BackstopDrop` is `dropItem` from the resend loop and from the scan after it.
`SendNoContract` and `SendExit` are the ways `Run` returns, with its deferred
teardown.

*Receive half.* `ReceivePack` is one call of `receive` with its three cases,
including the head jump and the replacement of a held copy. `DrainHeld` is one
turn of the drain loop. `ReceiveHead` is what `receiveHead` does with an item in
its turn: it gives it to the receive callback, or discards it and acks it all the
same (`discarded`) when it came in plaintext and encryption is required. `CommitHeld` is the commit pass that both end with.
`WriteAcks` is the ack writer. `ReceiveExit` is `Run` returning together with
`ReceiveBuffer.Pack` making a fresh sequence of the same id.

*Lifecycle.* One key of a `SendBuffer` or `ForwardBuffer` (`kind`). A Pack call
goes from `start` (the loop of the buffer's Pack: `PackBufferDone`, `PackFound`,
`PackCreates`) to `lock` (the sequence's Pack before `packMutex`), `gate` (the
wait for a cipher) and `enqueue`, and comes back to `start` once after an error.
`seq` is the sequence it tries and, on the retry, the one to skip. The goroutine
of a sequence goes from `top` through `select` to `fired` and `locking` (the idle
timer's branch before and in `packMutex.Lock`), or to `exited`, `closing` (it
holds the buffer's mutex, in Close) and `done` (the channel is closed).
`inPack` is who holds `packMutex`; `Admits` is the difference between an RWMutex
with a waiting writer and a Mutex. `resident` remembers the calls that were inside
Pack from the checkpoint until the idle timer fired. `RunReturns` is the deferred part of Run,
`CloseDrains` the difference between the two Close methods.

*Receive buffer.* One head key. `live` and `head` are the two maps. The only
caller of Pack is the client's receive loop, whose place is `pc`: `route` is
`initReceiveSequence`, one action per branch; `wait` is `WaitForExit` with the
buffer's mutex held; `lock` and `enqueue` are the sequence's Pack. A sequence is
`leaving` until the deferred part of Run closes the exit channel, `exited` until
its cleanup has the buffer's mutex. `holding` says whether its hold has anything:
then the idle timer is the gap timer, and `GapTimeout` is the exit. The branches for a stale head and for a head
mismatch are in `RouteCreates` and `RouteSkips`; `HeadExact` shows that they are
dead.

*Contracts.* One contract key and one `SendSequence`. `grant` follows a contract
from the request to its close; `mapped`, `openCount` and `holds` are the queue
objects and who has which open, so that a user may hold one queue and close
another. `Send` is `updateContract` with room and `sendWithSetContract`;
otherwise `TakeOpens`, `TakePolls` or `TakeTimesOut`, and `SetContract` or
`RejectContract` follow the retry loop. `AckItem` and `DropItem` are
`ackItemCounted` and `dropItem` with the close of a contract that has been
replaced. `Exit`, `FlushDrains` and `FlushRemoves` are the teardown.

*Durable head.* `disk` is the directory that every process sees: the file
(`name`), the temporaries and create markers of the publications, the checkpoint
in the directory's attribute (`head`) and how much of its bytes each file has.
`stable` is what a power loss would leave of it. `pc` is the next system call of
the owner, so that a kill or a failure can come between any two: each sync is an
action of its own. `Publish` to `Acknowledge` follow `PublishWithHooks` and
`finishPending`; `ClearMarker`, `KeepMarker`, `Abandon` to `AbandonEnd` and
`ClearPair` to `PairUnmark` are the branches of `checkTemporaryCensus`, and
`Blocked` and `Unanchored` its refusals. `op` and `finishing` are the mode of the
census: a normal open, Reconcile, or the second census inside `finishPending`.
`Refuse` includes what the two callers do (`provider/claim_daemon.go:192`,
`provider/fleet_recovery_store.go:313`): a failed Open is answered by one
Reconcile. `Fail` is an error or a cancelled context at any call, with the
deferred `retain` of Publish. `served` is what the application was last given.

### Abstractions

- Time. Resend times, ack timeouts and backstops come at any moment that their
  order allows. `Outwaited` keeps the one order that matters: a retained item
  reaches its backstop after ten ack timeouts, and an earlier item that is not
  retained would have closed the sequence after one, unless selective acks kept
  restarting it.
- A refusal by the retry budget only reschedules an item. The flight
  controller and a shared memory budget only make `canQueue` false more often on
  the send side. They are left out; the receive hold is modelled without a
  shared budget.
- `MaxResendCount` parks an item until its ack timeout. Parking is a long wait.
- Every item asks for an ack. Nacks have no sequence number and are left out.
- An ack that the reader discards, because its item is not in `resendQueue`, is
  a lost ack.
- `Size[i]` is the frame without a contract frame; a head carries one more
  frame of `ContractSize` bytes. A sequence without a contract is
  `ContractSize = 0`. A pack that sets a contract without being head is not
  distinguished.
- Received sizes are the same on both sides: `MessageByteCount` of the hold is
  `Size`.
- In `Transfer` a receive sequence is replaced in one step. Two of the same id
  running for a moment is the subject of `ReceiveBuffer`, which in turn treats
  the handling of a pack as one step (`Settles`).
- Packs waiting in the channel when `Run` returns are in `SequenceLifecycle`,
  which abstracts sending to what becomes of the pack: let go of, kept for
  resend, or failed.
- `modId` of an idle condition is only compared with the last checkpoint, so the
  model keeps whether it moved.
- The idle timer may fire whenever the channel and the resend queue are empty,
  also with calls inside Pack: one may wait at the gate for longer than
  `IdleTimeout` (300 s). The handshake that it waits for goes through a sequence of
  the peer, but not always through this one: the key of a sequence has the
  intermediaries and the stream, and handshake packs are sent without either.
- `Unwrapped` are the items that may come in plaintext to a receiver that requires
  encryption. How an item came is decided when `receiveHead` takes it, so one copy
  may be discarded and another, at a later receive sequence, received. With
  `Unwrapped = {}`, which is every receiver that does not require encryption,
  nothing is discarded. Handshake frames go to the session instead of the
  application; to the models both are `received`.
- The run loop of a send sequence has two select statements, with and without
  the packs channel; `CanQueue` is the choice, and the idle branch is in both.
- Cancelling the ctx of a single Pack call is left out.
- A contract's size, filling fraction and minimum message size become `Capacity`,
  `Size` and `MinBytes`. Deadlines pass at any time (`Lapse`). Of the ways a
  contract in hand is refused, the expired and the too small one are modelled; a
  malformed or repeated grant, and a destination that needs no contract, are not.
- `CreateContract` opens and closes the queue around an asynchronous request; the
  model keeps that a contract may be asked for.
- The expiry of queued contracts, the final flush and `Flush` of the manager are
  one action, `Expire`, with any set of contracts.

- Publication n of a head has the nonce n and the inode n. Nonces are random, and a
  new file's inode differs from those of the files that exist; that the inode of a
  removed file may come back is not modelled. The hash in `matches` makes such a
  file no match.
- Bytes are empty, partial or full. A file with the right size and other bytes is
  partial: `matches` then fails with an error, where a file of another size is no
  match, and the census refuses both.
- Of the checks that somebody else changed the directory (`admit`, `sameNamed`,
  `knownKVs`) nothing is left, because nobody does: the flock allows one owner,
  and read-only owners change nothing.
- The checkpoint is an attribute of the directory (`LockName` empty), so one
  sync of the directory covers it and the entries. A sync of the directory does
  not bring the bytes of a file to the disk, and a sync of a file not its entry.
- Storage is one of three kinds. On `reliable` only processes die. On `journal`
  changes of the directory reach the disk in order, at any time. On `unordered`
  each marker, the file entries and the checkpoint may be written back alone. A
  rename is atomic on all of them.
- The sync of the renamed file and of the directory in `finishPending` are one
  step, since a loss between them is a loss after a write-back of the file.

## What the runs check

| Run | Instance | Shows |
|---|---|---|
| `transfer` | 3 items, 2 packs and 1 ack in flight, 1 receiver replacement, a hold of 2 bytes, one item that may be discarded | types; an acked item was received or discarded by the policy; nothing below the delivery point is unaccounted for; head packs and cumulative acks are true; refinement of `TransferService` |
| `transfer_retained` | 3 items, callers mix retained and ordinary ones, no replacement | the same for drops in mid-sequence; the two queues agree with the callbacks owed; the byte counters are exact; the inductive invariant |
| `transfer_live` | 2 retained items, 1 replacement, room for every pack and ack | every item outstanding is eventually settled, also after a drop |
| `receive_hold` | 6 frames of 2 bytes in any order with resends, a hold of 8 bytes, 1 replacement | acked items are never discarded; a commit is never taken back; the commit boundary is exact whenever the receiver waits |
| `receive_hold_mixed` | 4 frames of different sizes, a hold of 10 bytes | **violated**: see Findings |
| `lifecycle` | 2 Pack calls, one gated; both kinds; 4 sequences, a channel of 1, a resend queue of 1, 1 cancel or shutdown | no send on a closed channel; an idle close reaps no waiting call and strands no pack but that of a call that outwaited the timer; a pack is in one place and let go of once; no orphan sequence; every call returns; every pack a send sequence accepted is let go of |
| `idle_lock` | the same, send only, one call without a timeout | **violated**: see Findings |
| `contracts` | 3 messages of different sizes (one with ack and retained), 2 contracts, one with a deadline, 3 queue objects | every contract is in one place and closed once; counts and reports are exact; a replaced contract stays open for a reason only; no message without ack before the announcement is acked; a held queue is the mapped one |
| `contract_flush` | 1 message, 1 contract | **violated**: see Findings |
| `receive_buffer` | 3 packs of 2 versions in any order, 3 sequences, a channel of 1, 1 flush, a close | the two maps agree; versions are ordered unless flushed; each pack is let go of exactly once; no send on a closed channel; the receive loop always comes back |
| `durable_head` | 4 publications, all kinds of storage, any number of kills, failed calls and power losses | the snapshot is whole at all times; prepared bytes are kept; a served generation is never taken back; only incomplete publications are refused; every call ends |
| `head_kill` | 1 publication, kills and failed calls only | **violated**: see Findings |

*Bounds.* Three items give a first, a middle and a last one: a drop in the
middle, a cumulative ack over a hole and a head jump over an item need no more.
Messages in flight are sets from which a message may be received many times, so
two packs are enough for an old one to overtake a new one, and one ack for an
old ack to be applied late. The retention cap is 3 bytes, so that with heads of
2 bytes the third retained item can be refused. `CHECK_DEADLOCK` is off because
the system may stop: a closed sender with nothing in flight has nothing to do.

Two Pack calls with a retry each make at most four sequences, so `lifecycle`
meets no bound; a channel of one is full with one pack, which is what the
timeout and the idle lock need; one cancel is enough to make a sequence be
replaced while its cleanup waits. `contracts` has room for one rollover while
items under the first contract are out, acked late or dropped, and for the
queue to be removed twice. In `receive_buffer` two packs of one version and one
of another give both orders of versions and a retry; a pack arrives only while
two more sequences may be made, so that no call meets the bound.
In `durable_head` the first publication has no predecessor, the second exchanges
with the first, and two more let a publication be abandoned or lost between
complete ones; faults are not bounded. Deadlock is checked: a head that refuses is
still closed and opened again.

*Fairness* (`transfer_live`). The loops of the code keep running: the sender
finishes what it has in hand, resends what is due and applies acks; the
receiver drains and writes acks. Resending and applying acks are strongly fair,
because `Run` visits both again and again while other steps disable them for a
moment. The environment delivers what is in flight and loses only finitely
many messages. It delivers a cumulative ack with strong fairness: the reader misses
an ack while its item is in hand, and the code has nothing that keeps this from
happening each time except that the writes are short and the acks come at other
moments. So the run does not show that an ack gets past that window. It shows that
nothing else keeps an item from being settled. Timeouts and exits are not fair, so progress never depends on
them. "Settled" includes a sequence that closes, which the code's own promise
does too ("up to timeout").

*Fairness* (`lifecycle`, `receive_buffer`). Weak fairness of `Progress`: some
goroutine that can run does, timers included. Steps of the goroutines are finite
in number, since calls and sequences are, so this is enough. Flush, close and
the cipher are not fair: no progress depends on them. `idle_lock` is a
counterexample under the same fairness. It is a real deadlock, not a
scheduler that ignores someone.

*Fairness* (`durable_head`). Weak fairness of `Work`: a process in a call takes
its next step, and somebody opens a closed head again. `CallsEnd` is stated for
behaviours in which failures stop at some point, since a process that is killed
for ever ends nothing. Publish and write-backs are not fair.

Each checked property has a mutant in `PROJECT.json`: a plausible bug in the
code under which TLC finds that property violated.

## What is proved

For every number of items, every size, every policy of the hold and every
bound on messages in flight and on replacements, from the named assumptions
on the constants only (`NetworkAssumption`, `SendAssumption`,
`ReceiveAssumption`):

- `TypeCorrect`: types.
- `Invariance`: the inductive invariant `Inv`, and from it `AckedHasArrived`,
  `NoItemSkipped`, `HeadsTruthful`, `AcksTruthful` and `OwedCallbacks`. An item whose
  callback got nil was received, or is in `Unwrapped` and was discarded.
- `Refinement`: a sequence implements `TransferService`, whose receiver takes items
  in order and may discard only what its policy allows (`Discardable`).
- `CountersExact`: `resendByteCount` and `retainedByteCount` are the sums of what
  they count, and the second stays within its cap.
- `RefusePromisesKept`: under the refuse policy nothing that was acked is
  discarded, whatever the sizes.
- `UniformPromisesKept`, `UniformBoundaryExact`, `UniformCommittedStays`: under the
  committed-prefix policy the same, that the commit boundary is exact, and that a
  commit is never taken back, for frames of one size, whatever that size is. For frames of different sizes they are false (see Findings), so the
  hypothesis is not one that a better proof could drop.

For every number of callers, sequences, versions, packs, contracts and messages,
every size, capacity and channel length, from `IdleAssumption`,
`LifecycleAssumption`, `ReceiveBufferAssumption`, `ManagerAssumption` and
`SendContractsAssumption`:

- `NeverSendsOnClosed`, `IdleCloseStrandsResident`, `NoOrphanRuns`, `PacksOwnedOnce`
  and types for send and forward sequences.
- `HeadAgrees`, `ReceiveNeverSendsOnClosed`, `VersionsStayOrdered`,
  `PacksLetGoOnce` and types for the receive buffer.
- `ContractsPlacedOnce`, `NothingBeforeAnnounced`, `UsersCounted`,
  `CountsAreDebits`, `ClosesReportDelivered`, `ReplacedForReason` and types for
  contracts, and the action property `GrantsForward`: the only ways a grant changes.

For every number of publications, every kind of storage and every order of faults,
from `PublicationsAssumption`:

- `SnapshotWhole`, `NoPreparedLost`, `ServedMonotone` for the durable head.
- `ReopensUnlessTorn`, of which the property itself leaves `unordered` storage out.

*The argument for a sequence.* That an acked item arrived is not inductive. The sender
believes a cumulative ack, so acks must be true wherever they are: in the
receiver's window, in flight, in the sender's window. The receiver sends such an
ack for everything below its delivery point, so the delivery point must have
passed only items received, discarded by the policy or given up. The delivery point jumps on the word of
a head pack, so head packs must be true: everything before the head is settled.
And the sender marks an item head when it is the first of `sendItems`, so
`sendItems` must be exactly what is owed a callback. `Inv` is the conjunction,
with `Causal` for what has not been sent yet. Each half's proof has one step per
action.

*The argument for the lifecycle.* A send on a closed channel needs a caller in
`enqueue` when the cleanup closes. `LifecycleInv` says that a caller in `gate`
or `enqueue` holds `packMutex` of its sequence and is counted by the idle
condition, that nobody holds it once the channel is closed, and that a sequence
past its loop is cancelled, so that nobody enters any more.An idle
close strands only the packs of resident calls because a sequence whose condition
has not moved since the checkpoint let nobody in: whoever is inside was there all
the time, and so was whoever has put a pack into the empty channel since the timer
fired. `ResidentOK` is that part of the invariant; it relates `moved`, `opened`,
`resident` and the channel in `fired` and `locking`. A sequence that runs is mapped or cancelled because only
`PackCreates` takes the mapping away from a running one, and cancels it.

*The argument for the receive buffer.* `HeadExact` needs that a live sequence is
mapped under its own version and that `WaitForExit` waits for the mapped head,
whose exit nobody else can turn into an unmapping meanwhile, since the mutex is
held. Order needs more: without a flush, a sequence that runs uncancelled is the
mapped one, and every cancelled one has stopped or is the one being waited for.
`BufferInv` is the conjunction.

*The argument for contracts.* That a contract is in one place is inductive only
with what each user holds: a contract being added is in no queue, the hand is
full exactly in `set` (`Handed`), a contract nobody set is not announced
(`Unsent`), and an item waits for its ack in one place (`OutOnce`). `Acknowledged` ties `openAcked` to the announcement of
the current contract. `ContractInv` is the conjunction.

*The argument for the durable head.* What a power loss may combine is the
checkpoint and the entry of the file, each as it is now or as it is on the disk.
`Whole` is therefore stated for all four combinations (`Heads` and `Names`): each
shows the complete bytes, on the disk, of a generation that the checkpoint
calls committed or pending. The exchange keeps it because its checkpoint was synced before
the first byte was written (`Anchored`), and the commit because the exchange was
synced before (`AtStep`). `Known` says that no checkpoint, now or on the disk,
forgets a generation that has bytes; with `InOrder` it makes the committed
generation of a head at rest the newest one that has any, and so at least what
was served, which is on the disk (`ServedStable`). Most steps only bring more to
the disk, and one lemma (`StorageKeepsCore`) is enough for all of them; `Anchor`,
`Write`, `Rename`, `Commit`, `abandonPending` and `PowerLoss` have their own.
`HeadInv` is the conjunction.

*The argument for byte counts.* A counter is compared with a sum over a set
(`SumFunctionOnSet`). `DataTheorems` shows that the sum does not depend on the order
in which it is taken: with one element more it is the old sum and that element's
value. The induction over finite sets is made with a least counterexample
(`LeastSet`) instead of a library theorem. What is left is that each step moves one
item. For the hold with frames of one size k the invariant is that `maxHeld` is k
once anything was held. `Reach` is then k times the distance from the delivery point,
the boundary only moves forward, and a committed item stays below it.

*The argument for the owners of a pack.* A pack is in as many channels and queues as
there are sequences that have it. The invariants say which place that is, given the
state of the call, and that a channel holds no pack twice; that the counts are one
or zero follows.

*The argument for the ledger.* `Watched` ties the watch of a contract to its being
taken, so a close finds where the contract is. `HoldInv` counts the users of the
mapped queue, which are finitely many. `LedgerInv`
has for every open contract that its counts are the sums over the items under it by
what became of them (`Booked`), that an item that waits does so under an open
contract (`Awaited`), and that a contract in hand or earlier has nothing under it
(`Unused`), because a contract that is set starts with zero counts. A drop releases
exactly its debit since the unacked count covers it (`Covered`): the clamp of
`unack` is never needed. A report is right when it is written and stays right
because nothing under a closed contract changes any more (`Reported`), for which
`GrantsForward` is needed: a closed contract does not open again.

*The argument for refusals.* `ReopensUnlessTorn` needs to know where a census can
find anything. `Marked` says that a temporary has its marker or is anchored, and
`Placed` that an anchored publication with bytes has them at the temporary, with the
predecessor at the name, or at the name, with the predecessor or nothing at the
temporary. Both hold of the directory and of what a power loss would leave of it,
since storage that keeps the order only ever has a directory that once was there.
Bytes are written only once the anchored entries are on the disk, which is the one
place where the two directories have to be related. `Passed` is what the census has
behind it. With it every way to refuse leads to incomplete bytes (`Finishable`).

*Only model-checked.* `EventuallySettled`, `CallsEnd`, `Returns`, `AcceptedReleased`,
`PackReturns` and `Settled` are liveness, which is out of this prover's reach. That
frames of one size are safe in the hold is proved, and that frames of different
sizes are not is a run. Every other property that a passing run checks is also a theorem.

## Findings

`receive_hold_mixed`. A held item that was acked can be evicted, although the
code says it never is. `receive` replaces a held item by a resent copy whose
`committed` mark is false, and `commitHeldPrefix` marks it again only if it is
still below the boundary, which is lower once a larger frame has been seen. An
earlier large frame then evicts it. With frames of one size (`receive_hold`)
this cannot happen (`UniformPromisesKept`). The sender still has the item
and resends it when the selective ack has run out.

`idle_lock`. A comment in `SendSequence.Pack` says that the idle timer's wait for
`packMutex` is bounded. If calls that are at the gate or come in then fill the channel between the timer and the lock
and one of them has no timeout, it waits for room under the read lock while the
only goroutine that makes room waits for the write lock. Only a cancel ends it.

`contract_flush`. `FlushContractQueue` removes a queue that `addContract` has
open. The late grant is added to a queue that is no longer mapped: it is never
taken, expired or closed, although the doc says that the flush releases what the
sequence never took.

`head_kill`. Reconcile abandons a publication that wrote no byte by unlinking its
temporary and writing the checkpoint afterwards. If it is killed in between, the
checkpoint names a temporary that is gone, and every later Open and Reconcile
refuses the head, although a test says that a kill after the create marker must
leave a head that reopens. The committed snapshot is intact.

Four more places where the code is not what its comments say came up while
modelling and explain how properties are stated:

- `ForwardSequence.Close` closes its channel without draining it, so a pack
  accepted just before a cancel is not returned to the pool
  (`transfer.go:7131` says it is). `AcceptedReleased` is for send sequences.
- The gate of `SendSequence.Pack` "holds the idle condition open so the sequence is
  never reaped mid-wait" (`transfer.go:2908`), and it is not while the call waits. But
  the timer does not start again when the call leaves: if the cipher comes after the
  timer has fired at a call that was at the gate for the whole idle period, its pack
  is accepted into a sequence that closes for being idle, and Close fails it with
  "Send sequence closed." Hence `IdleStrandsOnlyResident`; `AcceptedReleased` shows
  that such a pack is let go of.
- A receive sequence that was flushed while it delivers is replaced by one of its
  own version without waiting for it, and a newer version waits for the
  replacement only, so for a moment two versions deliver (`transfer.go:5110` says
  deliveries stay ordered). Hence `OrderedUnlessFlushed`.
- `head_unix.go:577` says that a crash can never leave a temporary without its
  marker. On `unordered` storage it can: Reconcile is killed after it unlinked the
  temporary of a pair and before the sync, the next Open takes the marker for
  stale and removes it, and a power loss keeps the second change only.
  `RefusedIncomplete` leaves that storage out. Also, the comment at the top of that
  file has the pending head written after the bytes;
  the code anchors it before them, as the comment at line 868 says, and as
  `PreparedKept` needs.

## Not modelled

The project covers the transfer sequence, its lifecycle, its send contracts and
the durable head, a small part of the repository by lines. Left out, and why:

- Inside the covered part: receive contracts; two sequences of one contract key
  at the same time; a late pack of an older version after the newer one idled
  out, which makes the older version again (the head index is gone with the
  newer one) and is allowed by the model but not judged; the gap wake and the
  ack compression timer, which decide when acks are written and not what they
  say; the hold and the resend queue with a shared memory budget, whose capacity
  waiters have no caller outside the tests.
- Retry budget, flight control and yield: numeric controllers over rates and
  clocks. To a sequence they are delays and refusals, which the models allow at
  any time.
- Of the durable head: read-only owners, auxiliary files, a separate lock file,
  changes by others, capacities, and the backup and restore tools around it.
- Stream manager, route manager, message pool, reconnect governors and hot swap of
  the provider: state machines of their own that could be
  modelled in the same way; they come after the transfer layer.
- Platform transports, extenders, DoH, HTTP: socket I/O; the transfer layer sees
  a network that loses, duplicates and reorders.
- Cryptography, packet parsing and classification, generated code, command line
  tools.
