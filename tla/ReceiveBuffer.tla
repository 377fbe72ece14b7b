--------------------------- MODULE ReceiveBuffer ---------------------------
(***************************************************************************)
(* The ReceiveBuffer behind one head key, and the life of its sequences.   *)
(* A sender that starts over uses a newer sequence id (a version); the     *)
(* buffer keeps the sequence of the newest version it has, the head.  The  *)
(* one caller of Pack is the receive loop of the client: it routes a pack  *)
(* to the sequence of its version, creating it if there is none.  A newer  *)
(* version cancels the head and waits for it to exit, under the buffer's   *)
(* mutex, before it starts; an older one is dropped.                       *)
(*                                                                         *)
(* What a sequence does with a pack (ReceiveSequence) is one step here:    *)
(* the pack is in the hands of Run, then it is let go of; of the hold it   *)
(* may go to, the model keeps whether it is empty.                         *)
(***************************************************************************)
EXTENDS IdleCondition, Sequences

CONSTANTS
    Version,     \* the sequence id of each pack, ids in the order of LessThan
    BufferSize,  \* SequenceBufferSize, the capacity of the packs channel
    MaxFlushes,  \* how often the client is flushed, a bound of the model
    None         \* no pack

ASSUME ReceiveBufferAssumption ==
    /\ Version \in [Callers -> Nat \ {0}]
    /\ BufferSize \in Nat \ {0}
    /\ MaxFlushes \in Nat
    /\ None \notin Callers

\* A call of Pack is known by its pack.
Packs == Callers
Versions == {Version[p] : p \in Packs}

VARIABLES
    clientDone,  \* the ctx of the client and the buffer is done
    flushes,     \* how often the client was flushed
    live,        \* receiveSequences: the sequence of each version, 0 for none
    head,        \* headReceiveSequenceIds: a version, 0 for none
    mutex,       \* the sequence whose cleanup holds the buffer's mutex, or 0
    pc,          \* the receive loop: "idle"; "route" (in Pack, before the buffer's
                 \* mutex); "wait" (in WaitForExit, with that mutex); "lock" (before
                 \* packMutex); "enqueue" (with packMutex)
    pack,        \* the pack in its hands, or None
    retried,     \* the second try of Pack
    seq,         \* the sequence it is trying, then the one to skip
    created,     \* how many sequences were created
    version,     \* the version of each sequence
    run,         \* where its goroutine is
    cancelled,   \* its ctx was cancelled (the client's ctx apart)
    packs,       \* its packs channel
    inRun,       \* the pack in the hands of its Run, or None
    holding,     \* its receiveQueue, the hold, is not empty
    came,        \* the packs that reached the receive loop
    releases,    \* how often each pack's bytes were given back or passed on
    panicked     \* a pack was sent on a closed channel

loopVars == <<pc, pack, retried, seq, came>>
bufferVars == <<clientDone, flushes, live, head, mutex, created, version>>
vars == <<loopVars, bufferVars, run, cancelled, packs, inRun, holding, releases,
          panicked, idleVars>>

\* "top": at the top of the loop of Run; "select": it waits; "deliver": with a
\* pack; "locking": the idle timer fired and the loop waits for packMutex;
\* "leaving": the loop returned, in the deferred part of Run; "exited": it closed
\* the exit channel, and the cleanup waits for the buffer's mutex; "closing": the
\* cleanup is in Close.
RunStates == {"new", "top", "select", "deliver", "locking", "leaving", "exited",
              "closing", "done"}

TypeOK ==
    /\ clientDone \in BOOLEAN
    /\ flushes \in 0 .. MaxFlushes
    /\ live \in [Versions -> SequenceIds \cup {0}]
    /\ head \in Versions \cup {0}
    /\ mutex \in SequenceIds \cup {0}
    /\ pc \in {"idle", "route", "wait", "lock", "enqueue"}
    /\ pack \in Packs \cup {None}
    /\ retried \in BOOLEAN
    /\ seq \in SequenceIds \cup {0}
    /\ created \in 0 .. MaxSequences
    /\ version \in [SequenceIds -> Versions \cup {0}]
    /\ run \in [SequenceIds -> RunStates]
    /\ cancelled \in [SequenceIds -> BOOLEAN]
    /\ packs \in [SequenceIds -> Seq(Packs)]
    /\ \A s \in SequenceIds : Len(packs[s]) <= BufferSize
    /\ inRun \in [SequenceIds -> Packs \cup {None}]
    /\ holding \in [SequenceIds -> BOOLEAN]
    /\ came \subseteq Packs
    /\ releases \in [Packs -> Nat]
    /\ panicked \in BOOLEAN
    /\ IdleTypeOK

Init ==
    /\ clientDone = FALSE
    /\ flushes = 0
    /\ live = [v \in Versions |-> 0]
    /\ head = 0
    /\ mutex = 0
    /\ pc = "idle"
    /\ pack = None
    /\ retried = FALSE
    /\ seq = 0
    /\ created = 0
    /\ version = [s \in SequenceIds |-> 0]
    /\ run = [s \in SequenceIds |-> "new"]
    /\ cancelled = [s \in SequenceIds |-> FALSE]
    /\ packs = [s \in SequenceIds |-> <<>>]
    /\ inRun = [s \in SequenceIds |-> None]
    /\ holding = [s \in SequenceIds |-> FALSE]
    /\ came = {}
    /\ releases = [p \in Packs |-> 0]
    /\ panicked = FALSE
    /\ IdleInit

\* The ctx of sequence s, a child of the client's ctx, is done.
Done(s) == cancelled[s] \/ clientDone

Released(P) == [p \in Packs |-> releases[p] + IF p \in P THEN 1 ELSE 0]

\* The packs in the channel of s.
Queued(s) == {packs[s][i] : i \in 1 .. Len(packs[s])}

-----------------------------------------------------------------------------
(* Pack of the buffer, called by the receive loop. *)

\* A pack arrives.  Packs of all versions arrive in any order.  (Each call makes
\* two sequences at most, so it never meets the bound MaxSequences.)
Arrives(p) ==
    /\ pc = "idle"
    /\ created + 2 <= MaxSequences
    /\ ~clientDone
    /\ p \notin came
    /\ came' = came \cup {p}
    /\ pack' = p
    /\ pc' = "route"
    /\ UNCHANGED <<retried, seq, bufferVars, run, cancelled, packs, inRun, holding,
                   releases, panicked, idleVars>>

\* Pack returns, with the releases r; the loop goes on with the next pack.
Returns(r) ==
    /\ releases' = r
    /\ pc' = "idle"
    /\ pack' = None
    /\ retried' = FALSE
    /\ seq' = 0
    /\ UNCHANGED came

\* Pack finds the client done; the loop gives the bytes back.
RouteDone ==
    /\ pc = "route"
    /\ clientDone
    /\ Returns(Released({pack}))
    /\ UNCHANGED <<bufferVars, run, cancelled, packs, inRun, holding, panicked, idleVars>>

\* initReceiveSequence finds the sequence of the version.
RouteFound ==
    LET s == live[Version[pack]] IN
    /\ pc = "route"
    /\ ~clientDone
    /\ mutex = 0
    /\ s \notin {0, seq}
    /\ seq' = s
    /\ pc' = "lock"
    /\ UNCHANGED <<pack, retried, came, bufferVars, run, cancelled, packs, inRun, holding,
                   releases, panicked, idleVars>>

\* The mutation: the buffer gives the bytes back, and so does the caller.
DroppedTwice == [releases EXCEPT ![pack] = @ + 2]

\* The buffer drops the pack: it gives the bytes back and reports success.
Dropped == Released({pack})

\* An older version than the head is dropped.
RouteOlder ==
    /\ pc = "route"
    /\ ~clientDone
    /\ mutex = 0
    /\ live[Version[pack]] = 0
    /\ Version[pack] < head
    /\ Returns(Dropped)
    /\ UNCHANGED <<bufferVars, run, cancelled, packs, inRun, holding, panicked, idleVars>>

\* A new sequence of the pack's version is mapped and started; what the buffer
\* maps to becomes l.
Creates(l) ==
    LET s == created + 1  v == Version[pack] IN
    /\ s \in SequenceIds
    /\ created' = s
    /\ version' = [version EXCEPT ![s] = v]
    /\ run' = [run EXCEPT ![s] = "top"]
    /\ live' = [l EXCEPT ![v] = s]
    /\ head' = v
    /\ seq' = s
    /\ pc' = "lock"
    /\ UNCHANGED <<pack, retried, came, clientDone, flushes, mutex, packs, inRun, holding,
                   panicked>>

\* There is no sequence of this version: neither a newer head nor an older one
\* that is alive.
RouteCreates ==
    /\ pc = "route"
    /\ ~clientDone
    /\ mutex = 0
    /\ live[Version[pack]] = 0
    /\ Version[pack] >= head
    /\ Version[pack] > head /\ head # 0 => live[head] = 0
    /\ Creates(live)
    /\ UNCHANGED <<cancelled, releases, idleVars>>

\* The sequence of this version is the one to skip: it is cancelled and replaced
\* without waiting for its exit, unless the head is another version, when the
\* pack is dropped.
RouteSkips ==
    /\ pc = "route"
    /\ ~clientDone
    /\ mutex = 0
    /\ live[Version[pack]] # 0
    /\ live[Version[pack]] = seq
    /\ cancelled' = [cancelled EXCEPT ![seq] = TRUE]
    /\ IF head = Version[pack]
       THEN Creates(live) /\ UNCHANGED releases
       ELSE Returns(Dropped) /\ UNCHANGED <<bufferVars, run, packs, inRun, holding, panicked>>
    /\ UNCHANGED idleVars

\* A newer version than a head that is alive: it is cancelled, and the loop waits
\* for its exit with the buffer's mutex.
RouteNewer ==
    /\ pc = "route"
    /\ ~clientDone
    /\ mutex = 0
    /\ live[Version[pack]] = 0
    /\ Version[pack] > head
    /\ head # 0 /\ live[head] # 0
    /\ cancelled' = [cancelled EXCEPT ![live[head]] = TRUE]
    /\ pc' = "wait"
    /\ UNCHANGED <<pack, retried, seq, came, bufferVars, run, packs, inRun, holding,
                   releases, panicked, idleVars>>

\* The mutations: a newer version that does not wait; an exit channel that only
\* the cleanup closes.
ExitedAlways(s) == TRUE
ExitedLast(s) == run[s] = "done"

\* The exit channel of s is closed.
Exited(s) == run[s] \in {"exited", "closing", "done"}

\* WaitForExit returns: the old sequence is unmapped and the new one started.
WaitReturns ==
    /\ pc = "wait"
    /\ Exited(live[head])
    /\ Creates([live EXCEPT ![head] = 0])
    /\ UNCHANGED <<cancelled, releases, idleVars>>

-----------------------------------------------------------------------------
(* Pack of the sequence. *)

\* Pack of the sequence returns an error: Pack of the buffer tries once more.
PackFails ==
    IF retried
    THEN Returns(Released({pack}))
    ELSE /\ retried' = TRUE
         /\ pc' = "route"
         /\ UNCHANGED <<pack, seq, came, releases>>

\* It takes packMutex and finds the ctx done or the idle condition closed.
PackRejected ==
    /\ pc = "lock"
    /\ Done(seq) \/ closed[seq]
    /\ PackFails
    /\ UNCHANGED <<bufferVars, run, cancelled, packs, inRun, holding, panicked, idleVars>>

\* It takes packMutex and opens the idle condition.
PackEnters ==
    /\ pc = "lock"
    /\ ~Done(seq)
    /\ UpdateOpen(seq, pack)
    /\ pc' = "enqueue"
    /\ UNCHANGED <<pack, retried, seq, came, bufferVars, run, cancelled, packs, inRun,
                   holding, releases, panicked>>

\* The mutation: a channel that is never full.
HasRoomAlways(s) == TRUE

HasRoom(s) == Len(packs[s]) < BufferSize

\* The pack is handed to the sequence.  On a closed channel the send panics.
PackEnqueues ==
    /\ pc = "enqueue"
    /\ run[seq] = "done" \/ HasRoom(seq)
    /\ IF run[seq] = "done"
       THEN panicked' = TRUE /\ UNCHANGED packs
       ELSE packs' = [packs EXCEPT ![seq] = Append(@, pack)] /\ UNCHANGED panicked
    /\ Returns(releases)
    /\ UpdateClose(seq, pack)
    /\ UNCHANGED <<bufferVars, run, cancelled, inRun, holding>>

\* The channel stays full for the BufferTimeout: the loop gives the bytes back.
PackTimesOut ==
    /\ pc = "enqueue"
    /\ ~HasRoom(seq)
    /\ Returns(Released({pack}))
    /\ UpdateClose(seq, pack)
    /\ UNCHANGED <<bufferVars, run, cancelled, packs, inRun, holding, panicked>>

\* The ctx of the sequence is done.
PackInterrupted ==
    /\ pc = "enqueue"
    /\ Done(seq)
    /\ PackFails
    /\ UpdateClose(seq, pack)
    /\ UNCHANGED <<bufferVars, run, cancelled, packs, inRun, holding, panicked>>

\* The receive loop holds packMutex of s.
HoldsPackMutex(s) == pc = "enqueue" /\ seq = s

-----------------------------------------------------------------------------
(* Run of the sequence. *)

\* Where the goroutine of s goes on, in the steps that leave the rest alone.
Goes(s, r) ==
    /\ run' = [run EXCEPT ![s] = r]
    /\ UNCHANGED <<loopVars, bufferVars, panicked>>

\* The loop returns, and the deferred part of Run cancels the ctx.
RunReturns(s) ==
    /\ Goes(s, "leaving")
    /\ cancelled' = [cancelled EXCEPT ![s] = TRUE]

Checkpoint(s) ==
    /\ run[s] = "top"
    /\ TakeCheckpoint(s)
    /\ Goes(s, "select")
    /\ UNCHANGED <<cancelled, packs, inRun, holding, releases>>

\* select takes a pack, whether or not the ctx is done as well.
TakePack(s) ==
    /\ run[s] = "select"
    /\ packs[s] # <<>>
    /\ packs' = [packs EXCEPT ![s] = Tail(@)]
    /\ inRun' = [inRun EXCEPT ![s] = Head(packs[s])]
    /\ Goes(s, "deliver")
    /\ UNCHANGED <<holding, cancelled, releases, idleVars>>

\* The pack is delivered, held or dropped, and held ones after it delivered; a bad
\* one, or one without contract, ends the sequence.
Settles(s) ==
    /\ run[s] = "deliver"
    /\ releases' = Released({inRun[s]})
    /\ inRun' = [inRun EXCEPT ![s] = None]
    /\ \/ /\ Goes(s, "top")
          /\ \E empty \in BOOLEAN : holding' = [holding EXCEPT ![s] = ~empty]
          /\ UNCHANGED cancelled
       \/ RunReturns(s) /\ UNCHANGED holding
    /\ UNCHANGED <<packs, idleVars>>

\* The top of the loop, reached with a pack or when the gap timer woke select,
\* finds that an item was held for longer than GapTimeout: the loop returns.
GapTimeout(s) ==
    /\ run[s] \in {"top", "select"}
    /\ holding[s]
    /\ RunReturns(s)
    /\ UNCHANGED <<packs, inRun, holding, releases, idleVars>>

\* select finds the ctx done.
RunCancelled(s) ==
    /\ run[s] = "select"
    /\ Done(s)
    /\ RunReturns(s)
    /\ UNCHANGED <<packs, inRun, holding, releases, idleVars>>

\* IdleTimeout passed with nothing for select to take and the hold empty, and the
\* loop calls packMutex.Lock.
IdleFires(s) ==
    /\ run[s] = "select"
    /\ packs[s] = <<>>
    /\ ~holding[s]
    /\ Goes(s, "locking")
    /\ UNCHANGED <<cancelled, packs, inRun, holding, releases, idleVars>>

\* It has the lock: the condition closes and the loop returns, or it goes on.
IdleCloses(s) ==
    /\ run[s] = "locking"
    /\ ~HoldsPackMutex(s)
    /\ \/ CloseIdle(s) /\ RunReturns(s)
       \/ ~MayClose(s) /\ Goes(s, "top") /\ UNCHANGED <<cancelled, idleVars>>
    /\ UNCHANGED <<packs, inRun, holding, releases>>

\* The rest of the deferred part: the exit channel is closed last.
RunExits(s) ==
    /\ run[s] = "leaving"
    /\ Goes(s, "exited")
    /\ UNCHANGED <<cancelled, packs, inRun, holding, releases, idleVars>>

-----------------------------------------------------------------------------
(* The cleanup of the goroutine, and the end of the client. *)

\* The buffer's mutex is free.
MutexFree == mutex = 0 /\ pc # "wait"

CleanupLocks(s) ==
    /\ run[s] = "exited"
    /\ MutexFree
    /\ mutex' = s
    /\ run' = [run EXCEPT ![s] = "closing"]
    /\ UNCHANGED <<loopVars, clientDone, flushes, live, head, created, version, cancelled,
                   packs, inRun, holding, releases, panicked, idleVars>>

\* The mutations: a Close that leaves the packs in the channel, or does not wait
\* for packMutex; a cleanup that unmaps whatever is mapped.
DrainsNothing(s) == UNCHANGED <<packs, releases>>
CloseHasNoLock(s) == TRUE
UnmapsAny(s) == TRUE

\* Close drains the channel of s and gives the bytes back.
Drains(s) ==
    /\ packs' = [packs EXCEPT ![s] = <<>>]
    /\ releases' = Released(Queued(s))

\* Close may take packMutex.
CloseHasLock(s) == ~HoldsPackMutex(s)

\* The cleanup unmaps s and its version as the head, if s is still mapped.
Unmaps(s) == live[version[s]] = s

CleanupCloses(s) ==
    /\ run[s] = "closing"
    /\ CloseHasLock(s)
    /\ Drains(s)
    /\ live' = IF Unmaps(s) THEN [live EXCEPT ![version[s]] = 0] ELSE live
    /\ head' = IF Unmaps(s) THEN 0 ELSE head
    /\ mutex' = 0
    /\ run' = [run EXCEPT ![s] = "done"]
    /\ UNCHANGED <<loopVars, clientDone, flushes, created, version, cancelled, inRun,
                   holding, panicked, idleVars>>

\* Flush of the client cancels the mapped sequences.
Flush ==
    /\ MutexFree
    /\ flushes < MaxFlushes
    /\ ~clientDone
    /\ \E v \in Versions : live[v] # 0
    /\ flushes' = flushes + 1
    /\ cancelled' = [s \in SequenceIds |-> cancelled[s] \/ \E v \in Versions : live[v] = s]
    /\ UNCHANGED <<loopVars, clientDone, live, head, mutex, created, version, run, packs,
                   inRun, holding, releases, panicked, idleVars>>

\* The client is closed.
Close ==
    /\ ~clientDone
    /\ clientDone' = TRUE
    /\ UNCHANGED <<loopVars, flushes, live, head, mutex, created, version, run, cancelled,
                   packs, inRun, holding, releases, panicked, idleVars>>

Route == RouteDone \/ RouteFound \/ RouteOlder \/ RouteCreates \/ RouteSkips \/ RouteNewer
         \/ WaitReturns

Call == PackRejected \/ PackEnters \/ PackEnqueues \/ PackTimesOut \/ PackInterrupted

Run(s) ==
    \/ Checkpoint(s) \/ TakePack(s) \/ Settles(s) \/ GapTimeout(s)
    \/ RunCancelled(s) \/ IdleFires(s) \/ IdleCloses(s) \/ RunExits(s)
    \/ CleanupLocks(s) \/ CleanupCloses(s)

\* What goroutines do without a pack arriving or the client being closed.
Progress == Route \/ Call \/ \E s \in SequenceIds : Run(s)

Next == Progress \/ (\E p \in Packs : Arrives(p)) \/ Flush \/ Close

Spec == Init /\ [][Next]_vars

\* The scheduler runs a goroutine that can run, timers expire, and the select of
\* a goroutine that is ready returns.
FairSpec == Spec /\ WF_vars(Progress)

-----------------------------------------------------------------------------
(* Properties. *)

\* The two maps agree: a version is mapped exactly while it is the head.  So the
\* branches of Pack that find them at odds (a stale head, a mismatch) are dead,
\* and a cleanup that is late never unmaps the sequence that replaced its own.
HeadExact == \A v \in Versions : (live[v] # 0) = (head = v)

\* A sequence of an older version is never delivering while one of a newer
\* version runs.
Ordered ==
    \A s, t \in SequenceIds :
        /\ run[s] = "deliver"
        /\ run[t] \in {"top", "select", "deliver", "locking"}
        => version[s] >= version[t]

\* Deliveries stay ordered across versions as long as the client is not flushed.
OrderedUnlessFlushed == flushes = 0 => Ordered

\* The bytes of a pack are given back or passed on once at most, by whichever of
\* the receive loop, the buffer, Run and Close has it last.
ReleasedOnce == \A p \in Packs : releases[p] <= 1

\* Pack never sends on a channel that Close has closed.
NoSendOnClosed == ~panicked

\* Pack returns, so the receive loop never stops for good: not in WaitForExit
\* under the buffer's mutex, nor behind packMutex.
PackReturns == pc # "idle" ~> pc = "idle"

\* A pack that reached the receive loop is let go of, also when its sequence ends
\* with the pack still in the channel.
Settled == \A p \in Packs : p \in came ~> releases[p] = 1
=============================================================================
