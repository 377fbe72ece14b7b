------------------------- MODULE SequenceLifecycle -------------------------
(***************************************************************************)
(* The life of the sequences behind one key of a SendBuffer or of a        *)
(* ForwardBuffer: created by the Pack call that finds none, fed by the     *)
(* Pack calls of other goroutines through a bounded channel, shut down by  *)
(* an idle timer or a cancel, replaced by a retrying Pack while the old    *)
(* one is still tearing down, closed and unmapped by its own goroutine.    *)
(*                                                                         *)
(* The two buffers run the same protocol.  They differ in packMutex (an    *)
(* RWMutex in SendSequence, a Mutex in ForwardSequence), in the gate on    *)
(* the cipher and the resend queue (SendSequence only), and in what Close  *)
(* does with the packs still in the channel.                               *)
(***************************************************************************)
EXTENDS IdleCondition, Sequences, FiniteSets

CONSTANTS
    Kinds,           \* which of "send", "forward" the instance covers
    BufferSize,      \* SequenceBufferSize, the capacity of the packs channel
    ResendQueueMax,  \* how many packs fit the resend queue
    Unbounded,       \* the Pack calls with a negative timeout, which never elapses
    Gated,           \* application packs under EncryptionModeRequired
    MaxCancels       \* how often the buffer or the client is closed, a bound

ASSUME LifecycleAssumption ==
    /\ Kinds \subseteq {"send", "forward"}
    /\ BufferSize \in Nat \ {0}
    /\ ResendQueueMax \in Nat \ {0}
    /\ Unbounded \subseteq Callers
    /\ Gated \subseteq Callers
    /\ MaxCancels \in Nat

VARIABLES
    kind,        \* which of the two buffers this is
    bufferDone,  \* the buffer's ctx is done
    cancels,     \* how often the buffer or the client was closed
    mapped,      \* the sequence the buffer maps the key to, 0 for none
    created,     \* how many sequences were created
    bufferLock,  \* the sequence whose cleanup holds the buffer's mutex, or 0
    cipher,      \* the session of the peer has a cipher
    run,         \* where the goroutine of each sequence is
    cancelled,   \* its ctx was cancelled (the buffer's ctx apart)
    packs,       \* its packs channel
    inPack,      \* the callers holding its packMutex
    resend,      \* the packs in its resend queue
    resident,    \* history: the calls that were inside its Pack from its last
                 \* checkpoint until its idle timer fired
    pc,          \* where each Pack call is
    tries,       \* the sequences the call has tried
    seq,         \* the sequence it is trying, then the one to skip
    releases,    \* how often the sequence let go of the pack: acked it or
                 \* failed it, and gave its bytes back to the pool
    panicked     \* a pack was sent on a closed channel

callVars == <<pc, tries, seq>>
vars == <<kind, bufferDone, cancels, mapped, created, bufferLock, cipher, run,
          cancelled, packs, inPack, resend, resident, callVars,
          releases, panicked, idleVars>>

\* "new": not created yet.  "fired": the idle timer was chosen; "locking": the
\* loop waits for packMutex to close.  "exited": Run returned, the deferred
\* cleanup waits for the buffer's mutex; "closing": it holds that mutex, in
\* Close.  "done": the channel is closed and the goroutine ended.
RunStates == {"new", "top", "select", "fired", "locking",
              "exited", "closing", "done"}

CallStates == {"start", "lock", "gate", "enqueue", "accepted", "refused", "failed"}

TypeOK ==
    /\ kind \in Kinds
    /\ bufferDone \in BOOLEAN
    /\ cancels \in 0 .. MaxCancels
    /\ mapped \in SequenceIds \cup {0}
    /\ created \in 0 .. MaxSequences
    /\ bufferLock \in SequenceIds \cup {0}
    /\ cipher \in BOOLEAN
    /\ run \in [SequenceIds -> RunStates]
    /\ cancelled \in [SequenceIds -> BOOLEAN]
    /\ packs \in [SequenceIds -> Seq(Callers)]
    /\ \A s \in SequenceIds : Len(packs[s]) <= BufferSize
    /\ inPack \in [SequenceIds -> SUBSET Callers]
    /\ resend \in [SequenceIds -> SUBSET Callers]
    /\ resident \in [SequenceIds -> SUBSET Callers]
    /\ pc \in [Callers -> CallStates]
    /\ tries \in [Callers -> 0 .. 2]
    /\ seq \in [Callers -> SequenceIds \cup {0}]
    /\ releases \in [Callers -> Nat]
    /\ panicked \in BOOLEAN
    /\ IdleTypeOK

Init ==
    /\ kind \in Kinds
    /\ bufferDone = FALSE
    /\ cancels = 0
    /\ mapped = 0
    /\ created = 0
    /\ bufferLock = 0
    /\ cipher = FALSE
    /\ run = [s \in SequenceIds |-> "new"]
    /\ cancelled = [s \in SequenceIds |-> FALSE]
    /\ packs = [s \in SequenceIds |-> <<>>]
    /\ inPack = [s \in SequenceIds |-> {}]
    /\ resend = [s \in SequenceIds |-> {}]
    /\ resident = [s \in SequenceIds |-> {}]
    /\ pc = [p \in Callers |-> "start"]
    /\ tries = [p \in Callers |-> 0]
    /\ seq = [p \in Callers |-> 0]
    /\ releases = [p \in Callers |-> 0]
    /\ panicked = FALSE
    /\ IdleInit

Returned(p) == pc[p] \in {"accepted", "refused", "failed"}

\* The ctx of a sequence, a child of the buffer's ctx, is done.
Done(s) == cancelled[s] \/ bufferDone

\* The packs channel of s is closed.
ChanClosed(s) == run[s] = "done"

\* The packs in the channel of s.
Queued(s) == {packs[s][i] : i \in 1 .. Len(packs[s])}

Release(P) == releases' = [p \in Callers |-> releases[p] + IF p \in P THEN 1 ELSE 0]

-----------------------------------------------------------------------------
(* The buffer's Pack: find or create the sequence, then its Pack. *)

\* The loop of the buffer's Pack finds the buffer's ctx done.
PackBufferDone(p) ==
    /\ pc[p] = "start"
    /\ bufferDone
    /\ pc' = [pc EXCEPT ![p] = "failed"]
    /\ UNCHANGED <<kind, bufferDone, cancels, mapped, created, bufferLock, cipher, run,
                   cancelled, packs, inPack, resend, resident, tries,
                   seq, releases, panicked, idleVars>>

\* initSendSequence returns the sequence it finds.
PackFound(p) ==
    /\ pc[p] = "start"
    /\ ~bufferDone
    /\ bufferLock = 0
    /\ mapped # 0
    /\ seq[p] # mapped
    /\ pc' = [pc EXCEPT ![p] = "lock"]
    /\ tries' = [tries EXCEPT ![p] = @ + 1]
    /\ seq' = [seq EXCEPT ![p] = mapped]
    /\ UNCHANGED <<kind, bufferDone, cancels, mapped, created, bufferLock, cipher, run,
                   cancelled, packs, inPack, resend, resident, releases,
                   panicked, idleVars>>

\* initSendSequence finds none, or the one to skip, which it cancels; it maps
\* a new sequence in its place and starts its goroutine.
PackCreates(p) ==
    /\ pc[p] = "start"
    /\ ~bufferDone
    /\ bufferLock = 0
    /\ mapped = 0 \/ seq[p] = mapped
    /\ created < MaxSequences
    /\ created' = created + 1
    /\ cancelled' = IF mapped = 0 THEN cancelled ELSE [cancelled EXCEPT ![mapped] = TRUE]
    /\ mapped' = created + 1
    /\ run' = [run EXCEPT ![created + 1] = "top"]
    /\ pc' = [pc EXCEPT ![p] = "lock"]
    /\ tries' = [tries EXCEPT ![p] = @ + 1]
    /\ seq' = [seq EXCEPT ![p] = created + 1]
    /\ UNCHANGED <<kind, bufferDone, cancels, bufferLock, cipher, packs, inPack, resend,
                   resident, releases, panicked, idleVars>>

\* packMutex admits a Pack call: an RWMutex admits readers together, but none
\* while a writer waits; a Mutex admits one at a time.
Admits(s) ==
    IF kind = "send" THEN run[s] \notin {"locking", "closing"}
                     ELSE inPack[s] = {}

\* The mutation: a loop that retries once too often.
AfterFailureTwice(p) == IF tries[p] <= 2 THEN "start" ELSE "failed"

\* Where a failed try of the buffer's Pack goes: it retries once.
AfterFailure(p) == IF tries[p] < 2 THEN "start" ELSE "failed"

\* The sequence's Pack takes packMutex and finds the ctx done or the condition
\* closed: it returns an error and unlocks.
PackRejected(p) ==
    LET s == seq[p] IN
    /\ pc[p] = "lock"
    /\ Admits(s)
    /\ Done(s) \/ closed[s]
    /\ pc' = [pc EXCEPT ![p] = AfterFailure(p)]
    /\ UNCHANGED <<kind, bufferDone, cancels, mapped, created, bufferLock, cipher, run,
                   cancelled, packs, inPack, resend, resident, tries,
                   seq, releases, panicked, idleVars>>

\* It takes packMutex and opens the idle condition.
PackEnters(p) ==
    LET s == seq[p] IN
    /\ pc[p] = "lock"
    /\ Admits(s)
    /\ ~Done(s)
    /\ UpdateOpen(s, p)
    /\ inPack' = [inPack EXCEPT ![s] = @ \cup {p}]
    /\ pc' = [pc EXCEPT ![p] = IF kind = "send" /\ p \in Gated THEN "gate" ELSE "enqueue"]
    /\ UNCHANGED <<kind, bufferDone, cancels, mapped, created, bufferLock, cipher, run,
                   cancelled, packs, resend, resident, tries, seq,
                   releases, panicked>>

\* The deferred UpdateClose and Unlock, as the call goes on to state c.
Leaves(p, c) ==
    LET s == seq[p] IN
    /\ UpdateClose(s, p)
    /\ inPack' = [inPack EXCEPT ![s] = @ \ {p}]
    /\ pc' = [pc EXCEPT ![p] = c]
    /\ UNCHANGED <<kind, bufferDone, cancels, mapped, created, bufferLock, cipher, run,
                   cancelled, resend, resident, tries, seq, releases>>

\* The gate finds the cipher established.
GateOpens(p) ==
    /\ pc[p] = "gate"
    /\ cipher
    /\ pc' = [pc EXCEPT ![p] = "enqueue"]
    /\ UNCHANGED <<kind, bufferDone, cancels, mapped, created, bufferLock, cipher, run,
                   cancelled, packs, inPack, resend, resident, tries,
                   seq, releases, panicked, idleVars>>

\* The mutation: the gate does not count the timeout down.
OutlastsNothing(p) == p \notin Unbounded \cup Gated

\* The timeout of a Pack call may elapse; a timeout of 0 elapses at once.
MayTimeOut(p) == p \notin Unbounded

\* The gate refuses: the timeout is 0 or used up (ErrEncryptionRequiredNotEstablished,
\* which the buffer's Pack does not retry).
GateRefuses(p) ==
    /\ pc[p] = "gate"
    /\ ~cipher
    /\ MayTimeOut(p)
    /\ Leaves(p, "refused")
    /\ UNCHANGED <<packs, panicked>>

\* The channel of s has room for one more pack.
HasRoom(s) == Len(packs[s]) < BufferSize

\* The channel has room: the pack is accepted.  On a closed channel the send
\* panics.
PackEnqueues(p) ==
    LET s == seq[p] IN
    /\ pc[p] = "enqueue"
    /\ ChanClosed(s) \/ HasRoom(s)
    /\ IF ChanClosed(s)
       THEN panicked' = TRUE /\ UNCHANGED packs
       ELSE packs' = [packs EXCEPT ![s] = Append(@, p)] /\ UNCHANGED panicked
    /\ Leaves(p, IF ChanClosed(s) THEN "failed" ELSE "accepted")

\* The channel is full and stays so for the timeout.
PackTimesOut(p) ==
    /\ pc[p] = "enqueue"
    /\ ~HasRoom(seq[p])
    /\ MayTimeOut(p)
    /\ Leaves(p, "refused")
    /\ UNCHANGED <<packs, panicked>>

\* The sequence's ctx is done while the call waits, at the gate or to enqueue.
PackInterrupted(p) ==
    /\ pc[p] \in {"gate", "enqueue"}
    /\ Done(seq[p])
    /\ Leaves(p, AfterFailure(p))
    /\ UNCHANGED <<packs, panicked>>

-----------------------------------------------------------------------------
(* The sequence's Run. *)

\* The steps of the run loop that touch neither the buffer nor the callers.
LoopUnchanged == UNCHANGED <<kind, bufferDone, cancels, mapped, created, bufferLock, cipher,
                             inPack, callVars, panicked>>

\* The mutation: a deferred part that fails the packs and keeps them queued.
RunReturnsKeeping(s, P) ==
    /\ run' = [run EXCEPT ![s] = "exited"]
    /\ cancelled' = [cancelled EXCEPT ![s] = TRUE]
    /\ Release(resend[s] \cup P)
    /\ UNCHANGED resend

\* The loop returns, with the packs P in hand: the deferred part of Run cancels
\* the ctx and fails P and what is in the resend queue.
RunReturns(s, P) ==
    /\ run' = [run EXCEPT ![s] = "exited"]
    /\ cancelled' = [cancelled EXCEPT ![s] = TRUE]
    /\ Release(resend[s] \cup P)
    /\ resend' = [resend EXCEPT ![s] = {}]

\* An iteration of the loop starts: it takes the checkpoint and waits in select.
Checkpoint(s) ==
    /\ run[s] = "top"
    /\ TakeCheckpoint(s)
    /\ run' = [run EXCEPT ![s] = "select"]
    /\ UNCHANGED <<cancelled, packs, resend, resident, releases>>
    /\ LoopUnchanged

\* An ack wakes select and the next iteration applies it.
Acked(s) ==
    /\ run[s] = "select"
    /\ \E p \in resend[s] :
          /\ resend' = [resend EXCEPT ![s] = @ \ {p}]
          /\ Release({p})
    /\ run' = [run EXCEPT ![s] = "top"]
    /\ UNCHANGED <<cancelled, packs, resident, idleVars>>
    /\ LoopUnchanged

\* The deadline of a pack in the resend queue wakes select: the ack timeout
\* passed and the loop returns.
AckTimeout(s) ==
    /\ run[s] = "select"
    /\ resend[s] # {}
    /\ RunReturns(s, {})
    /\ UNCHANGED <<packs, resident, idleVars>>
    /\ LoopUnchanged

\* canQueue: an empty resend queue always admits one more.
CanQueue(s) == resend[s] = {} \/ Cardinality(resend[s]) < ResendQueueMax

\* select takes a pack.  ForwardSequence writes it; SendSequence sends it and
\* keeps it for resend, or sends it without ack, or has no contract for it, in
\* which case it fails the pack and the loop returns.
TakePack(s) ==
    /\ run[s] = "select"
    /\ packs[s] # <<>>
    /\ CanQueue(s)
    /\ packs' = [packs EXCEPT ![s] = Tail(@)]
    /\ \/ /\ Release({Head(packs[s])})
          /\ run' = [run EXCEPT ![s] = "top"]
          /\ UNCHANGED <<resend, cancelled>>
       \/ /\ kind = "send"
          /\ resend' = [resend EXCEPT ![s] = @ \cup {Head(packs[s])}]
          /\ run' = [run EXCEPT ![s] = "top"]
          /\ UNCHANGED <<releases, cancelled>>
       \/ /\ kind = "send"
          /\ RunReturns(s, {Head(packs[s])})
    /\ UNCHANGED <<resident, idleVars>>
    /\ LoopUnchanged

\* select finds the ctx done, and the loop returns.
RunCancelled(s) ==
    /\ run[s] = "select"
    /\ Done(s)
    /\ RunReturns(s, {})
    /\ UNCHANGED <<packs, resident, idleVars>>
    /\ LoopUnchanged

\* IdleTimeout passed since the checkpoint with nothing in the channel for select to
\* take, and the resend queue is empty.  Calls may be inside Pack: one that waits at
\* the gate may have been there all the time (every one, when modId has not moved).
IdleFires(s) ==
    /\ run[s] = "select"
    /\ packs[s] = <<>>
    /\ resend[s] = {}
    /\ run' = [run EXCEPT ![s] = "fired"]
    /\ resident' = [resident EXCEPT ![s] = IF moved[s] THEN {} ELSE opened[s]]
    /\ UNCHANGED <<cancelled, packs, resend, releases, idleVars>>
    /\ LoopUnchanged

\* The timer's branch calls packMutex.Lock: from here a writer waits.
IdleLocks(s) ==
    /\ run[s] = "fired"
    /\ run' = [run EXCEPT ![s] = "locking"]
    /\ UNCHANGED <<cancelled, packs, resend, resident, releases, idleVars>>
    /\ LoopUnchanged

\* It has the lock: the condition closes and the loop returns, or there were
\* updates and the loop goes on.
IdleCloses(s) ==
    /\ run[s] = "locking"
    /\ inPack[s] = {}
    /\ \/ /\ CloseIdle(s)
          /\ RunReturns(s, {})
          /\ UNCHANGED resident
       \/ /\ ~MayClose(s)
          /\ run' = [run EXCEPT ![s] = "top"]
          /\ resident' = [resident EXCEPT ![s] = {}]
          /\ UNCHANGED <<cancelled, resend, releases, idleVars>>
    /\ UNCHANGED packs
    /\ LoopUnchanged

-----------------------------------------------------------------------------
(* The cleanup of the sequence's goroutine, under the buffer's mutex. *)

\* It takes the buffer's mutex, and Close cancels the ctx and waits for packMutex.
CleanupLocks(s) ==
    /\ run[s] = "exited"
    /\ bufferLock = 0
    /\ bufferLock' = s
    /\ run' = [run EXCEPT ![s] = "closing"]
    /\ cancelled' = [cancelled EXCEPT ![s] = TRUE]
    /\ UNCHANGED <<kind, bufferDone, cancels, mapped, created, cipher, packs, inPack, resend,
                   resident, callVars, releases, panicked, idleVars>>

\* The mutations: a Close that leaves the packs in the channel, or does not
\* wait for packMutex, and a cleanup that removes whatever is mapped.
CloseKeeps(s) == UNCHANGED <<releases, packs>>
CloseTakesNoLock(s) == TRUE
UnmapsAny(s) == mapped' = 0

\* SendSequence.Close fails the packs left in the channel; ForwardSequence.Close
\* leaves them there.
CloseDrains(s) ==
    IF kind = "send"
    THEN Release(Queued(s)) /\ packs' = [packs EXCEPT ![s] = <<>>]
    ELSE UNCHANGED <<releases, packs>>

\* Close may take packMutex.
CloseHasLock(s) == inPack[s] = {}

\* The cleanup unmaps the sequence if it is still the mapped one.
Unmaps(s) == mapped' = IF mapped = s THEN 0 ELSE mapped

\* Close closes the channel and drains it; the cleanup unmaps the sequence
\* and unlocks the buffer.
CleanupCloses(s) ==
    /\ run[s] = "closing"
    /\ CloseHasLock(s)
    /\ CloseDrains(s)
    /\ Unmaps(s)
    /\ bufferLock' = 0
    /\ run' = [run EXCEPT ![s] = "done"]
    /\ UNCHANGED <<kind, bufferDone, cancels, created, cipher, cancelled, inPack,
                   resend, resident, callVars, panicked, idleVars>>

-----------------------------------------------------------------------------
(* The world around. *)

\* Close, Cancel or Flush of the buffer: cancel the sequences that are mapped.
CancelMapped ==
    /\ bufferLock = 0
    /\ mapped # 0
    /\ ~cancelled[mapped]
    /\ cancels < MaxCancels
    /\ cancels' = cancels + 1
    /\ cancelled' = [cancelled EXCEPT ![mapped] = TRUE]
    /\ UNCHANGED <<kind, bufferDone, mapped, created, bufferLock, cipher, run, packs,
                   inPack, resend, resident, callVars, releases, panicked,
                   idleVars>>

\* The client shuts down: its ctx, the parent of every other, is done.
ClientDone ==
    /\ ~bufferDone
    /\ cancels < MaxCancels
    /\ cancels' = cancels + 1
    /\ bufferDone' = TRUE
    /\ UNCHANGED <<kind, mapped, created, bufferLock, cipher, run, cancelled, packs,
                   inPack, resend, resident, callVars, releases, panicked,
                   idleVars>>

\* The TLS session with the peer establishes its cipher, which only a call at
\* the gate looks at.
Establish ==
    /\ \E p \in Callers : pc[p] = "gate"
    /\ ~cipher
    /\ cipher' = TRUE
    /\ UNCHANGED <<kind, bufferDone, cancels, mapped, created, bufferLock, run, cancelled,
                   packs, inPack, resend, resident, callVars, releases,
                   panicked, idleVars>>

Call(p) ==
    \/ PackBufferDone(p) \/ PackFound(p) \/ PackCreates(p)
    \/ PackRejected(p) \/ PackEnters(p)
    \/ GateOpens(p) \/ GateRefuses(p)
    \/ PackEnqueues(p) \/ PackTimesOut(p) \/ PackInterrupted(p)

Run(s) ==
    \/ Checkpoint(s) \/ Acked(s) \/ AckTimeout(s) \/ TakePack(s)
    \/ RunCancelled(s) \/ IdleFires(s) \/ IdleLocks(s) \/ IdleCloses(s)
    \/ CleanupLocks(s) \/ CleanupCloses(s)

\* A step of one of the program's goroutines.
Progress ==
    \/ \E p \in Callers : Call(p)
    \/ \E s \in SequenceIds : Run(s)

Next ==
    \/ Progress
    \/ CancelMapped \/ ClientDone \/ Establish

Spec == Init /\ [][Next]_vars

\* Some goroutine goes on while one can: timers fire, a free mutex is taken, a
\* pack in the resend queue is acked or its deadline passes.  There are finitely
\* many calls, so finitely many steps, and who goes first makes no difference to
\* what is reached in the end.  The client need not shut down and the cipher
\* need not come.
Fairness == WF_vars(Progress)

FairSpec == Spec /\ Fairness

-----------------------------------------------------------------------------
(* Properties. *)

\* No Pack call sends on a channel that the cleanup has closed, which would
\* panic: packMutex and the cancelled ctx keep callers out once Close is there.
NoSendOnClosed == ~panicked

\* The idle close of Run reaps no waiting call ("the gate holds the idle condition
\* open so the sequence is never reaped mid-wait", Pack) and strands no pack of a
\* call that came while it waited: a pack left in the channel belongs to a call that
\* was inside Pack for the whole idle period, from the checkpoint to the timer.
\* Enqueuing on an empty channel takes no time, so that call was at the gate.
IdleStrandsOnlyResident ==
    \A s \in SequenceIds :
        closed[s] => /\ opened[s] = {} /\ resend[s] = {}
                     /\ Queued(s) \subseteq resident[s]

\* A pack that a Pack call accepted is in one place: one channel, one resend
\* queue, or released, and released once.  A pack that was refused or failed
\* is in none: the caller keeps it.
OwnedOnce ==
    \A p \in Callers :
        Cardinality({s \in SequenceIds : p \in Queued(s)})
        + Cardinality({s \in SequenceIds : p \in resend[s]})
        + releases[p] = IF pc[p] = "accepted" THEN 1 ELSE 0

\* A sequence that runs without being mapped is on its way out: no cleanup of
\* an older sequence unmaps a newer one, which nobody could cancel any more.
OrphansStop ==
    \A s \in SequenceIds :
        run[s] \in {"top", "select", "fired", "locking"} => mapped = s \/ Done(s)

\* With a bounded timeout every Pack call returns: it is neither left at the
\* gate nor behind a lock, whatever sequences come and go.
Returns == \A p \in Callers : <>Returned(p)

\* SendSequence lets go of every pack it accepted: the pack is acked or failed,
\* on a sequence that shuts down too.
AcceptedReleased ==
    \A p \in Callers : kind = "send" /\ pc[p] = "accepted" ~> releases[p] = 1

\* The idle timer's wait for packMutex ends.
LockBounded == \A s \in SequenceIds : run[s] = "locking" ~> run[s] # "locking"
=============================================================================
