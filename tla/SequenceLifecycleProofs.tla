---------------------- MODULE SequenceLifecycleProofs ----------------------
(***************************************************************************)
(* Proofs about SequenceLifecycle, for any set of Pack calls, any number   *)
(* of sequences, any capacity of the channel and both buffers: the channel *)
(* and the idle close are safe, and a pack has one owner.                  *)
(***************************************************************************)
EXTENDS SequenceLifecycle, DataTheorems

\* Run has returned.
Over(s) == run[s] \in {"exited", "closing", "done"}

\* The strengthening.  packMutex and the open condition go together.
BufferOK ==
    /\ mapped \in 0 .. created
    /\ opened = inPack
    /\ ~panicked

\* A call that has yet to choose a sequence has a try left.  A call is in a
\* created sequence, and inside it holds its packMutex.
CallOK(p) ==
    /\ pc[p] = "start" => tries[p] < 2
    /\ pc[p] \in {"lock", "gate", "enqueue"} => seq[p] \in 1 .. created
    /\ pc[p] \in {"gate", "enqueue"} => p \in inPack[seq[p]]

\* A returned Run has cancelled its ctx, and nobody is inside a closed channel.
RunOK(s) ==
    /\ run[s] = "new" <=> s > created
    /\ Over(s) => cancelled[s]
    /\ inPack[s] # {} => run[s] # "done"

\* The idle timer fires on an empty resend queue, and the idle close ends Run
\* with nobody inside.
IdleOK(s) ==
    /\ run[s] \in {"fired", "locking"} => resend[s] = {}
    /\ closed[s] => Over(s) /\ resend[s] = {} /\ inPack[s] = {}

\* A sequence that runs is mapped or on its way out.
OrphanOK(s) == run[s] \in {"top", "select", "fired", "locking"} => mapped = s \/ Done(s)

LifecycleInv ==
    /\ BufferOK
    /\ \A p \in Callers : CallOK(p)
    /\ \A s \in SequenceIds : RunOK(s) /\ IdleOK(s) /\ OrphanOK(s)

\* Release counts.
LEMMA ReleaseType ==
    ASSUME releases \in [Callers -> Nat], NEW P, Release(P)
    PROVE  releases' \in [Callers -> Nat]
  BY DEF Release

\* Every step keeps the types.
LEMMA TypePreserved == TypeOK /\ LifecycleInv /\ [Next]_vars => TypeOK'
<1> SUFFICES ASSUME TypeOK, LifecycleInv, [Next]_vars PROVE TypeOK'
  OBVIOUS
<1> USE IdleAssumption, LifecycleAssumption
<1>0. \A p \in Callers : pc[p] \in {"lock", "gate", "enqueue"} => seq[p] \in SequenceIds
  BY DEF LifecycleInv, CallOK, TypeOK, SequenceIds
<1>1. ASSUME NEW p \in Callers, PackBufferDone(p) PROVE TypeOK'
  BY <1>1, <1>0 DEF TypeOK, IdleTypeOK, CallStates, idleVars, PackBufferDone
<1>2. ASSUME NEW p \in Callers, PackFound(p) PROVE TypeOK'
  <2>1. /\ seq' \in [Callers -> SequenceIds \cup {0}]
        /\ pc' \in [Callers -> CallStates]
    BY <1>2 DEF TypeOK, PackFound, CallStates
  <2>2. tries' \in [Callers -> 0 .. 2]
    <3>1. tries[p] \in 0 .. 2 /\ tries[p] < 2
      BY <1>2, Zenon DEF TypeOK, PackFound, LifecycleInv, CallOK
    <3>2. tries[p] + 1 \in 0 .. 2
      BY <3>1
    <3> QED
      BY <1>2, <3>2, Zenon DEF TypeOK, PackFound
  <2> QED
    BY <1>2, <2>1, <2>2, Zenon DEF TypeOK, IdleTypeOK, PackFound, idleVars
<1>3. ASSUME NEW p \in Callers, PackCreates(p) PROVE TypeOK'
  <2>1. created + 1 \in SequenceIds /\ created' \in 0 .. MaxSequences
    BY <1>3 DEF TypeOK, PackCreates, SequenceIds
  <2>2. /\ mapped' \in SequenceIds /\ seq' \in [Callers -> SequenceIds \cup {0}]
        /\ pc' \in [Callers -> CallStates]
    BY <1>3, <2>1 DEF TypeOK, PackCreates, CallStates
  <2>3. run' \in [SequenceIds -> RunStates] /\ cancelled' \in [SequenceIds -> BOOLEAN]
    BY <1>3, <2>1 DEF TypeOK, PackCreates, RunStates
  <2>4. tries' \in [Callers -> 0 .. 2]
    <3>1. tries[p] \in 0 .. 2 /\ tries[p] < 2
      BY <1>3, Zenon DEF TypeOK, PackCreates, LifecycleInv, CallOK
    <3>2. tries[p] + 1 \in 0 .. 2
      BY <3>1
    <3> QED
      BY <1>3, <3>2, Zenon DEF TypeOK, PackCreates
  <2> QED
    BY <1>3, <2>1, <2>2, <2>3, <2>4, Zenon DEF TypeOK, IdleTypeOK, PackCreates, idleVars
<1>4. ASSUME NEW p \in Callers, PackRejected(p) PROVE TypeOK'
  BY <1>4, <1>0, ZenonT(30) DEF TypeOK, IdleTypeOK, CallStates, idleVars, PackRejected,
     AfterFailure
<1>5. ASSUME NEW p \in Callers, PackEnters(p) PROVE TypeOK'
  BY <1>5, <1>0 DEF TypeOK, IdleTypeOK, CallStates, idleVars, PackEnters, UpdateOpen
<1>6. ASSUME NEW p \in Callers, GateOpens(p) PROVE TypeOK'
  BY <1>6, <1>0 DEF TypeOK, IdleTypeOK, CallStates, idleVars, GateOpens
<1>7. ASSUME NEW p \in Callers, GateRefuses(p) PROVE TypeOK'
  BY <1>7, <1>0 DEF TypeOK, IdleTypeOK, CallStates, idleVars, GateRefuses, Leaves,
     UpdateClose
<1>8. ASSUME NEW p \in Callers, PackEnqueues(p) PROVE TypeOK'
  <2>1. Append(packs[seq[p]], p) \in Seq(Callers)
    BY <1>8, <1>0 DEF TypeOK, PackEnqueues
  <2>2. packs' \in [SequenceIds -> Seq(Callers)]
    BY <1>8, <2>1, Zenon DEF TypeOK, PackEnqueues
  <2>3. panicked' \in BOOLEAN
    BY <1>8, Zenon DEF TypeOK, PackEnqueues
  <2>4. pc' \in [Callers -> CallStates]
    BY <1>8 DEF TypeOK, PackEnqueues, Leaves, CallStates
  <2>5. \A s \in SequenceIds : Len(packs'[s]) <= BufferSize
    <3>1. CASE UNCHANGED packs
      BY <3>1 DEF TypeOK
    <3>2. CASE /\ packs' = [packs EXCEPT ![seq[p]] = Append(@, p)]
               /\ HasRoom(seq[p])
      <4>1. Len(Append(packs[seq[p]], p)) = Len(packs[seq[p]]) + 1
        BY <1>8, <1>0 DEF TypeOK, PackEnqueues
      <4>2. Len(packs[seq[p]]) \in Nat
        BY <1>8, <1>0 DEF TypeOK, PackEnqueues
      <4>3. Len(Append(packs[seq[p]], p)) <= BufferSize
        BY <3>2, <4>1, <4>2 DEF HasRoom
      <4> QED
        BY <3>2, <4>3 DEF TypeOK
    <3> QED
      BY <1>8, <3>1, <3>2 DEF PackEnqueues
  <2> QED
    BY <1>8, <1>0, <2>2, <2>3, <2>4, <2>5, Zenon
       DEF TypeOK, IdleTypeOK, PackEnqueues, Leaves, UpdateClose
<1>9. ASSUME NEW p \in Callers, PackTimesOut(p) PROVE TypeOK'
  BY <1>9, <1>0 DEF TypeOK, IdleTypeOK, CallStates, idleVars, PackTimesOut, Leaves,
     UpdateClose
<1>10. ASSUME NEW p \in Callers, PackInterrupted(p) PROVE TypeOK'
  BY <1>10, <1>0 DEF TypeOK, IdleTypeOK, CallStates, idleVars, PackInterrupted,
     Leaves, UpdateClose, AfterFailure
<1>11. ASSUME NEW s \in SequenceIds, Checkpoint(s) PROVE TypeOK'
  BY <1>11 DEF TypeOK, IdleTypeOK, RunStates, callVars, idleVars, Checkpoint,
     TakeCheckpoint, LoopUnchanged
<1>12. ASSUME NEW s \in SequenceIds, Acked(s) PROVE TypeOK'
  <2>1. releases' \in [Callers -> Nat]
    BY <1>12, ReleaseType DEF TypeOK, Acked
  <2> QED
    BY <1>12, <2>1
    DEF TypeOK, IdleTypeOK, Acked, LoopUnchanged, RunStates, idleVars, callVars
<1>13. ASSUME NEW s \in SequenceIds, AckTimeout(s) PROVE TypeOK'
  <2>1. releases' \in [Callers -> Nat]
    BY <1>13, ReleaseType DEF TypeOK, AckTimeout, RunReturns
  <2> QED
    BY <1>13, <2>1
    DEF TypeOK, IdleTypeOK, AckTimeout, RunReturns, LoopUnchanged, RunStates, idleVars, callVars
<1>14. ASSUME NEW s \in SequenceIds, TakePack(s) PROVE TypeOK'
  <2>1. releases' \in [Callers -> Nat]
    BY <1>14, ReleaseType DEF TypeOK, TakePack, RunReturns
  <2>2. packs[s] \in Seq(Callers) /\ packs[s] # <<>>
    BY <1>14 DEF TypeOK, TakePack
  <2>3. Head(packs[s]) \in Callers /\ Tail(packs[s]) \in Seq(Callers)
    BY <2>2
  <2>4. packs' \in [SequenceIds -> Seq(Callers)]
    BY <1>14, <2>3 DEF TypeOK, TakePack
  <2>5. resend' \in [SequenceIds -> SUBSET Callers]
    <3>1. CASE UNCHANGED resend
      BY <3>1 DEF TypeOK
    <3>2. CASE resend' = [resend EXCEPT ![s] = @ \cup {Head(packs[s])}]
      BY <2>3, <3>2 DEF TypeOK
    <3>3. CASE resend' = [resend EXCEPT ![s] = {}]
      BY <3>3 DEF TypeOK
    <3> QED
      BY <1>14, <3>1, <3>2, <3>3 DEF TakePack, RunReturns
  <2>6. run' \in [SequenceIds -> RunStates] /\ cancelled' \in [SequenceIds -> BOOLEAN]
    BY <1>14, Zenon DEF TypeOK, TakePack, RunReturns, RunStates
  <2> QED
    BY <1>14, <2>1, <2>4, <2>5, <2>6
    DEF TypeOK, IdleTypeOK, TakePack, LoopUnchanged, idleVars, callVars
<1>15. ASSUME NEW s \in SequenceIds, RunCancelled(s) PROVE TypeOK'
  <2>1. releases' \in [Callers -> Nat]
    BY <1>15, ReleaseType DEF TypeOK, RunCancelled, RunReturns
  <2> QED
    BY <1>15, <2>1
    DEF TypeOK, IdleTypeOK, RunCancelled, RunReturns, LoopUnchanged, RunStates, idleVars, callVars
<1>16. ASSUME NEW s \in SequenceIds, IdleFires(s) PROVE TypeOK'
  BY <1>16 DEF TypeOK, IdleTypeOK, RunStates, callVars, idleVars, IdleFires,
     LoopUnchanged
<1>17. ASSUME NEW s \in SequenceIds, IdleLocks(s) PROVE TypeOK'
  BY <1>17 DEF TypeOK, IdleTypeOK, RunStates, callVars, idleVars, IdleLocks,
     LoopUnchanged
<1>18. ASSUME NEW s \in SequenceIds, IdleCloses(s) PROVE TypeOK'
  <2>1. releases' \in [Callers -> Nat]
    BY <1>18, ReleaseType DEF TypeOK, IdleCloses, RunReturns
  <2>2. IdleTypeOK'
    BY <1>18, Zenon DEF TypeOK, IdleTypeOK, IdleCloses, CloseIdle, idleVars
  <2>3. run' \in [SequenceIds -> RunStates] /\ cancelled' \in [SequenceIds -> BOOLEAN]
    BY <1>18, Zenon DEF TypeOK, IdleCloses, RunReturns, RunStates
  <2>4. resend' \in [SequenceIds -> SUBSET Callers]
    BY <1>18, Zenon DEF TypeOK, IdleCloses, RunReturns
  <2> QED
    BY <1>18, <2>1, <2>2, <2>3, <2>4, ZenonT(30) DEF TypeOK, IdleCloses, LoopUnchanged, callVars
<1>19. ASSUME NEW s \in SequenceIds, CleanupLocks(s) PROVE TypeOK'
  BY <1>19 DEF TypeOK, IdleTypeOK, RunStates, callVars, idleVars, CleanupLocks
<1>20. ASSUME NEW s \in SequenceIds, CleanupCloses(s) PROVE TypeOK'
  <2>1. releases' \in [Callers -> Nat]
    BY <1>20, ReleaseType DEF TypeOK, CleanupCloses, CloseDrains
  <2>2. <<>> \in Seq(Callers)
    OBVIOUS
  <2>3. [packs EXCEPT ![s] = <<>>] \in [SequenceIds -> Seq(Callers)]
    BY <2>2 DEF TypeOK
  <2>4. packs' \in [SequenceIds -> Seq(Callers)]
    BY <1>20, <2>3, Zenon DEF TypeOK, CleanupCloses, CloseDrains
  <2>5. \A t \in SequenceIds : Len(packs'[t]) <= BufferSize
    <3>1. \A t \in SequenceIds : packs'[t] = packs[t] \/ packs'[t] = <<>>
      BY <1>20 DEF TypeOK, CleanupCloses, CloseDrains
    <3> QED
      BY <3>1 DEF TypeOK
  <2> QED
    BY <1>20, <2>1, <2>4, <2>5, Zenon
       DEF TypeOK, IdleTypeOK, CleanupCloses, Unmaps, RunStates, idleVars, callVars
<1>21. CASE CancelMapped
  BY <1>21 DEF TypeOK, IdleTypeOK, callVars, idleVars, CancelMapped
<1>22. CASE ClientDone
  BY <1>22 DEF TypeOK, IdleTypeOK, callVars, idleVars, ClientDone
<1>23. CASE Establish
  BY <1>23 DEF TypeOK, IdleTypeOK, callVars, idleVars, Establish
<1>24. CASE UNCHANGED vars
  BY <1>24, ZenonT(30) DEF TypeOK, IdleTypeOK, SequenceIds, RunStates, CallStates, vars, callVars, idleVars
<1> QED
  BY <1>1, <1>2, <1>3, <1>4, <1>5, <1>6, <1>7, <1>8, <1>9, <1>10, <1>11, <1>12,
     <1>13, <1>14, <1>15, <1>16, <1>17, <1>18, <1>19, <1>20, <1>21, <1>22, <1>23,
     <1>24 DEF Next, Progress, Call, Run

\* Every step keeps the strengthening.
LEMMA LifecyclePreserved == TypeOK /\ LifecycleInv /\ [Next]_vars => LifecycleInv'
<1> SUFFICES ASSUME TypeOK, LifecycleInv, [Next]_vars PROVE LifecycleInv'
  OBVIOUS
<1> USE IdleAssumption, LifecycleAssumption
<1>1. ASSUME NEW p \in Callers, PackBufferDone(p) PROVE LifecycleInv'
  <2>1. ASSUME NEW q \in Callers PROVE CallOK(q)'
    BY <1>1, ZenonT(30) DEF TypeOK, IdleTypeOK, callVars, idleVars, PackBufferDone,
       LifecycleInv, BufferOK, CallOK
  <2>2. /\ BufferOK'
        /\ \A t \in SequenceIds : RunOK(t)'
        /\ \A t \in SequenceIds : IdleOK(t)'
        /\ \A t \in SequenceIds : OrphanOK(t)'
    BY <1>1 DEF callVars, idleVars, PackBufferDone, LifecycleInv, Over, Done,
       BufferOK, RunOK, IdleOK, OrphanOK
  <2> QED
    BY <2>1, <2>2 DEF LifecycleInv
<1>2. ASSUME NEW p \in Callers, PackFound(p) PROVE LifecycleInv'
  <2>1. ASSUME NEW q \in Callers PROVE CallOK(q)'
    BY <1>2 DEF TypeOK, IdleTypeOK, callVars, idleVars, PackFound, LifecycleInv,
       BufferOK, CallOK
  <2>2. /\ BufferOK'
        /\ \A t \in SequenceIds : RunOK(t)'
        /\ \A t \in SequenceIds : IdleOK(t)'
        /\ \A t \in SequenceIds : OrphanOK(t)'
    BY <1>2 DEF callVars, idleVars, PackFound, LifecycleInv, Over, Done, BufferOK,
       RunOK, IdleOK, OrphanOK
  <2> QED
    BY <2>1, <2>2 DEF LifecycleInv
<1>3. ASSUME NEW p \in Callers, PackCreates(p) PROVE LifecycleInv'
  <2>1. BufferOK'
    BY <1>3 DEF TypeOK, IdleTypeOK, SequenceIds, callVars, idleVars, PackCreates,
       LifecycleInv, BufferOK, CallOK, RunOK, Over
  <2>2. ASSUME NEW q \in Callers PROVE CallOK(q)'
    BY <1>3 DEF TypeOK, IdleTypeOK, SequenceIds, callVars, idleVars, PackCreates,
       LifecycleInv, BufferOK, CallOK
  <2>3. ASSUME NEW t \in SequenceIds PROVE RunOK(t)'
    BY <1>3 DEF TypeOK, IdleTypeOK, SequenceIds, callVars, idleVars, PackCreates,
       LifecycleInv, BufferOK, CallOK, RunOK, IdleOK, Over
  <2>4. ASSUME NEW t \in SequenceIds PROVE IdleOK(t)'
    <3>1. created + 1 \in SequenceIds /\ run[created + 1] = "new"
      BY <1>3 DEF TypeOK, LifecycleInv, RunOK, PackCreates, SequenceIds
    <3>2. IdleOK(t) /\ UNCHANGED <<packs, resend, inPack, moved, opened, closed>>
      BY <1>3 DEF LifecycleInv, PackCreates, idleVars
    <3>3. run' = [run EXCEPT ![created + 1] = "top"] /\ run \in [SequenceIds -> RunStates]
      BY <1>3 DEF PackCreates, TypeOK
    <3> QED
      BY <3>1, <3>2, <3>3 DEF IdleOK, Over
  <2>5. ASSUME NEW t \in SequenceIds PROVE OrphanOK(t)'
    BY <1>3, SMTT(30) DEF TypeOK, IdleTypeOK, SequenceIds, callVars, idleVars, PackCreates,
       LifecycleInv, BufferOK, RunOK, OrphanOK, Over, Done
  <2> QED
    BY <2>1, <2>2, <2>3, <2>4, <2>5 DEF LifecycleInv
<1>4. ASSUME NEW p \in Callers, PackRejected(p) PROVE LifecycleInv'
  <2>1. ASSUME NEW q \in Callers PROVE CallOK(q)'
    BY <1>4, ZenonT(30) DEF TypeOK, IdleTypeOK, callVars, idleVars, PackRejected, AfterFailure,
       LifecycleInv, BufferOK, CallOK, Done
  <2>2. /\ BufferOK'
        /\ \A t \in SequenceIds : RunOK(t)'
        /\ \A t \in SequenceIds : IdleOK(t)'
        /\ \A t \in SequenceIds : OrphanOK(t)'
    BY <1>4 DEF callVars, idleVars, PackRejected, AfterFailure, LifecycleInv, Over,
       Done, BufferOK, RunOK, IdleOK, OrphanOK
  <2> QED
    BY <2>1, <2>2 DEF LifecycleInv
<1>5. ASSUME NEW p \in Callers, PackEnters(p) PROVE LifecycleInv'
  <2>1. BufferOK'
    BY <1>5 DEF TypeOK, IdleTypeOK, callVars, idleVars, PackEnters, UpdateOpen,
       LifecycleInv, BufferOK, CallOK, RunOK, Over, Done
  <2>2. ASSUME NEW q \in Callers PROVE CallOK(q)'
    BY <1>5 DEF TypeOK, IdleTypeOK, callVars, idleVars, PackEnters, UpdateOpen,
       LifecycleInv, BufferOK, CallOK, Done
  <2>3. ASSUME NEW t \in SequenceIds PROVE RunOK(t)'
    BY <1>5 DEF TypeOK, IdleTypeOK, callVars, idleVars, PackEnters, UpdateOpen,
       LifecycleInv, BufferOK, CallOK, RunOK, IdleOK, Over, Done
  <2>4. ASSUME NEW t \in SequenceIds PROVE IdleOK(t)'
    <3>1. CASE t = seq[p]
      BY <1>5, <3>1 DEF TypeOK, IdleTypeOK, callVars, idleVars, PackEnters,
         UpdateOpen, LifecycleInv, BufferOK, CallOK, RunOK, IdleOK, Over, Done
    <3>2. CASE t # seq[p]
      BY <1>5, <3>2, ZenonT(30) DEF TypeOK, IdleTypeOK, callVars, idleVars, PackEnters,
         UpdateOpen, LifecycleInv, BufferOK, CallOK, RunOK, IdleOK, Over, Done
    <3> QED
      BY <3>1, <3>2
  <2>5. \A t \in SequenceIds : OrphanOK(t)'
    BY <1>5 DEF callVars, idleVars, PackEnters, UpdateOpen, LifecycleInv, Over,
       Done, OrphanOK
  <2> QED
    BY <2>1, <2>2, <2>3, <2>4, <2>5 DEF LifecycleInv
<1>6. ASSUME NEW p \in Callers, GateOpens(p) PROVE LifecycleInv'
  <2>1. ASSUME NEW q \in Callers PROVE CallOK(q)'
    BY <1>6, ZenonT(30) DEF TypeOK, IdleTypeOK, callVars, idleVars, GateOpens, LifecycleInv,
       BufferOK, CallOK
  <2>2. /\ BufferOK'
        /\ \A t \in SequenceIds : RunOK(t)'
        /\ \A t \in SequenceIds : IdleOK(t)'
        /\ \A t \in SequenceIds : OrphanOK(t)'
    BY <1>6 DEF callVars, idleVars, GateOpens, LifecycleInv, Over, Done, BufferOK,
       RunOK, IdleOK, OrphanOK
  <2> QED
    BY <2>1, <2>2 DEF LifecycleInv
<1>7. ASSUME NEW p \in Callers, GateRefuses(p) PROVE LifecycleInv'
  <2>1. BufferOK'
    BY <1>7 DEF TypeOK, IdleTypeOK, callVars, idleVars, GateRefuses, Leaves,
       UpdateClose, LifecycleInv, BufferOK, CallOK, RunOK, Over
  <2>2. ASSUME NEW q \in Callers PROVE CallOK(q)'
    BY <1>7 DEF TypeOK, IdleTypeOK, callVars, idleVars, GateRefuses, Leaves,
       UpdateClose, LifecycleInv, BufferOK, CallOK
  <2>3. ASSUME NEW t \in SequenceIds PROVE RunOK(t)'
    BY <1>7 DEF TypeOK, IdleTypeOK, callVars, idleVars, GateRefuses, Leaves,
       UpdateClose, LifecycleInv, BufferOK, CallOK, RunOK, IdleOK, Over
  <2>4. ASSUME NEW t \in SequenceIds PROVE IdleOK(t)'
    <3>1. CASE t = seq[p]
      BY <1>7, <3>1 DEF TypeOK, IdleTypeOK, callVars, idleVars, GateRefuses,
         Leaves, UpdateClose, LifecycleInv, BufferOK, CallOK, RunOK, IdleOK, Over
    <3>2. CASE t # seq[p]
      BY <1>7, <3>2, SMTT(30) DEF TypeOK, IdleTypeOK, callVars, idleVars, GateRefuses,
         Leaves, UpdateClose, LifecycleInv, BufferOK, CallOK, RunOK, IdleOK, Over
    <3> QED
      BY <3>1, <3>2
  <2>5. \A t \in SequenceIds : OrphanOK(t)'
    BY <1>7 DEF callVars, idleVars, GateRefuses, Leaves, UpdateClose, LifecycleInv,
       Over, Done, OrphanOK
  <2> QED
    BY <2>1, <2>2, <2>3, <2>4, <2>5 DEF LifecycleInv
<1>8. ASSUME NEW p \in Callers, PackEnqueues(p) PROVE LifecycleInv'
  <2>1. BufferOK'
    BY <1>8 DEF TypeOK, IdleTypeOK, callVars, idleVars, PackEnqueues, Leaves,
       UpdateClose, ChanClosed, LifecycleInv, BufferOK, CallOK, RunOK, Over
  <2>2. ASSUME NEW q \in Callers PROVE CallOK(q)'
    BY <1>8 DEF TypeOK, IdleTypeOK, callVars, idleVars, PackEnqueues, Leaves,
       UpdateClose, ChanClosed, LifecycleInv, BufferOK, CallOK
  <2>3. ASSUME NEW t \in SequenceIds PROVE RunOK(t)'
    BY <1>8 DEF TypeOK, IdleTypeOK, callVars, idleVars, PackEnqueues, Leaves,
       UpdateClose, ChanClosed, LifecycleInv, BufferOK, CallOK, RunOK, IdleOK, Over
  <2>4. ASSUME NEW t \in SequenceIds PROVE IdleOK(t)'
    <3>1. CASE t = seq[p]
      BY <1>8, <3>1 DEF TypeOK, IdleTypeOK, callVars, idleVars, PackEnqueues,
         Leaves, UpdateClose, ChanClosed, LifecycleInv, BufferOK, CallOK, RunOK,
         IdleOK, Over
    <3>2. CASE t # seq[p]
      BY <1>8, <3>2, ZenonT(30) DEF TypeOK, IdleTypeOK, callVars, idleVars, PackEnqueues,
         Leaves, UpdateClose, ChanClosed, LifecycleInv, BufferOK, CallOK, RunOK,
         IdleOK, Over
    <3> QED
      BY <3>1, <3>2
  <2>5. \A t \in SequenceIds : OrphanOK(t)'
    BY <1>8 DEF callVars, idleVars, PackEnqueues, Leaves, UpdateClose, ChanClosed,
       LifecycleInv, Over, Done, OrphanOK
  <2> QED
    BY <2>1, <2>2, <2>3, <2>4, <2>5 DEF LifecycleInv
<1>9. ASSUME NEW p \in Callers, PackTimesOut(p) PROVE LifecycleInv'
  <2>1. BufferOK'
    BY <1>9 DEF TypeOK, IdleTypeOK, callVars, idleVars, PackTimesOut, Leaves,
       UpdateClose, LifecycleInv, BufferOK, CallOK, RunOK, Over
  <2>2. ASSUME NEW q \in Callers PROVE CallOK(q)'
    BY <1>9 DEF TypeOK, IdleTypeOK, callVars, idleVars, PackTimesOut, Leaves,
       UpdateClose, LifecycleInv, BufferOK, CallOK
  <2>3. ASSUME NEW t \in SequenceIds PROVE RunOK(t)'
    BY <1>9 DEF TypeOK, IdleTypeOK, callVars, idleVars, PackTimesOut, Leaves,
       UpdateClose, LifecycleInv, BufferOK, CallOK, RunOK, IdleOK, Over
  <2>4. ASSUME NEW t \in SequenceIds PROVE IdleOK(t)'
    <3>1. CASE t = seq[p]
      BY <1>9, <3>1 DEF TypeOK, IdleTypeOK, callVars, idleVars, PackTimesOut,
         Leaves, UpdateClose, LifecycleInv, BufferOK, CallOK, RunOK, IdleOK, Over
    <3>2. CASE t # seq[p]
      BY <1>9, <3>2, ZenonT(30) DEF TypeOK, IdleTypeOK, callVars, idleVars, PackTimesOut,
         Leaves, UpdateClose, LifecycleInv, BufferOK, CallOK, RunOK, IdleOK, Over
    <3> QED
      BY <3>1, <3>2
  <2>5. \A t \in SequenceIds : OrphanOK(t)'
    BY <1>9 DEF callVars, idleVars, PackTimesOut, Leaves, UpdateClose,
       LifecycleInv, Over, Done, OrphanOK
  <2> QED
    BY <2>1, <2>2, <2>3, <2>4, <2>5 DEF LifecycleInv
<1>10. ASSUME NEW p \in Callers, PackInterrupted(p) PROVE LifecycleInv'
  <2>1. BufferOK'
    BY <1>10 DEF TypeOK, IdleTypeOK, callVars, idleVars, PackInterrupted, Leaves,
       UpdateClose, AfterFailure, LifecycleInv, BufferOK, CallOK, RunOK, Over
  <2>2. ASSUME NEW q \in Callers PROVE CallOK(q)'
    BY <1>10 DEF TypeOK, IdleTypeOK, callVars, idleVars, PackInterrupted, Leaves,
       UpdateClose, AfterFailure, LifecycleInv, BufferOK, CallOK
  <2>3. ASSUME NEW t \in SequenceIds PROVE RunOK(t)'
    BY <1>10 DEF TypeOK, IdleTypeOK, callVars, idleVars, PackInterrupted, Leaves,
       UpdateClose, AfterFailure, LifecycleInv, BufferOK, CallOK, RunOK, IdleOK,
       Over
  <2>4. ASSUME NEW t \in SequenceIds PROVE IdleOK(t)'
    <3>1. CASE t = seq[p]
      BY <1>10, <3>1 DEF TypeOK, IdleTypeOK, callVars, idleVars, PackInterrupted,
         Leaves, UpdateClose, AfterFailure, LifecycleInv, BufferOK, CallOK, RunOK,
         IdleOK, Over
    <3>2. CASE t # seq[p]
      BY <1>10, <3>2, ZenonT(30) DEF TypeOK, IdleTypeOK, callVars, idleVars, PackInterrupted,
         Leaves, UpdateClose, AfterFailure, LifecycleInv, BufferOK, CallOK, RunOK,
         IdleOK, Over
    <3> QED
      BY <3>1, <3>2
  <2>5. \A t \in SequenceIds : OrphanOK(t)'
    BY <1>10 DEF callVars, idleVars, PackInterrupted, Leaves, UpdateClose,
       AfterFailure, LifecycleInv, Over, Done, OrphanOK
  <2> QED
    BY <2>1, <2>2, <2>3, <2>4, <2>5 DEF LifecycleInv
<1>11. ASSUME NEW s \in SequenceIds, Checkpoint(s) PROVE LifecycleInv'
  <2>1. ASSUME NEW t \in SequenceIds PROVE RunOK(t)'
    BY <1>11 DEF TypeOK, IdleTypeOK, callVars, idleVars, Checkpoint,
       TakeCheckpoint, LoopUnchanged, LifecycleInv, BufferOK, CallOK, RunOK,
       IdleOK, Over
  <2>2. ASSUME NEW t \in SequenceIds PROVE IdleOK(t)'
    <3>1. CASE t = s
      BY <1>11, <3>1, ZenonT(30) DEF TypeOK, IdleTypeOK, callVars, idleVars, Checkpoint,
         TakeCheckpoint, LoopUnchanged, LifecycleInv, BufferOK, CallOK, RunOK,
         IdleOK, Over
    <3>2. CASE t # s
      BY <1>11, <3>2 DEF TypeOK, IdleTypeOK, callVars, idleVars, Checkpoint,
         TakeCheckpoint, LoopUnchanged, LifecycleInv, BufferOK, CallOK, RunOK,
         IdleOK, Over
    <3> QED
      BY <3>1, <3>2
  <2>3. ASSUME NEW t \in SequenceIds PROVE OrphanOK(t)'
    BY <1>11 DEF TypeOK, IdleTypeOK, callVars, idleVars, Checkpoint,
       TakeCheckpoint, LoopUnchanged, LifecycleInv, BufferOK, RunOK, OrphanOK,
       Over, Done
  <2>4. /\ BufferOK'
        /\ \A q \in Callers : CallOK(q)'
    BY <1>11 DEF callVars, idleVars, Checkpoint, TakeCheckpoint, LoopUnchanged,
       LifecycleInv, Over, Done, BufferOK, CallOK
  <2> QED
    BY <2>1, <2>2, <2>3, <2>4 DEF LifecycleInv
<1>12. ASSUME NEW s \in SequenceIds, Acked(s) PROVE LifecycleInv'
  <2>1. ASSUME NEW t \in SequenceIds PROVE RunOK(t)'
    BY <1>12 DEF TypeOK, IdleTypeOK, callVars, idleVars, Acked, Release,
       LoopUnchanged, LifecycleInv, BufferOK, CallOK, RunOK, IdleOK, Over
  <2>2. ASSUME NEW t \in SequenceIds PROVE IdleOK(t)'
    <3>1. CASE t = s
      BY <1>12, <3>1 DEF TypeOK, IdleTypeOK, callVars, idleVars, Acked, Release,
         LoopUnchanged, LifecycleInv, BufferOK, CallOK, RunOK, IdleOK, Over
    <3>2. CASE t # s
      BY <1>12, <3>2 DEF TypeOK, IdleTypeOK, callVars, idleVars, Acked, Release,
         LoopUnchanged, LifecycleInv, BufferOK, CallOK, RunOK, IdleOK, Over
    <3> QED
      BY <3>1, <3>2
  <2>3. ASSUME NEW t \in SequenceIds PROVE OrphanOK(t)'
    BY <1>12, ZenonT(30) DEF TypeOK, IdleTypeOK, callVars, idleVars, Acked, Release,
       LoopUnchanged, LifecycleInv, BufferOK, RunOK, OrphanOK, Over, Done
  <2>4. /\ BufferOK'
        /\ \A q \in Callers : CallOK(q)'
    BY <1>12 DEF callVars, idleVars, Acked, Release, LoopUnchanged, LifecycleInv,
       Over, Done, BufferOK, CallOK
  <2> QED
    BY <2>1, <2>2, <2>3, <2>4 DEF LifecycleInv
<1>13. ASSUME NEW s \in SequenceIds, AckTimeout(s) PROVE LifecycleInv'
  <2>1. ASSUME NEW t \in SequenceIds PROVE RunOK(t)'
    BY <1>13 DEF TypeOK, IdleTypeOK, callVars, idleVars, AckTimeout, RunReturns,
       Release, LoopUnchanged, LifecycleInv, BufferOK, CallOK, RunOK, IdleOK, Over
  <2>2. ASSUME NEW t \in SequenceIds PROVE IdleOK(t)'
    <3>1. CASE t = s
      BY <1>13, <3>1 DEF TypeOK, IdleTypeOK, callVars, idleVars, AckTimeout,
         RunReturns, Release, LoopUnchanged, LifecycleInv, BufferOK, CallOK, RunOK,
         IdleOK, Over
    <3>2. CASE t # s
      BY <1>13, <3>2, SMTT(30) DEF TypeOK, IdleTypeOK, callVars, idleVars, AckTimeout,
         RunReturns, Release, LoopUnchanged, LifecycleInv, BufferOK, CallOK, RunOK,
         IdleOK, Over
    <3> QED
      BY <3>1, <3>2
  <2>3. ASSUME NEW t \in SequenceIds PROVE OrphanOK(t)'
    BY <1>13, ZenonT(30) DEF TypeOK, IdleTypeOK, callVars, idleVars, AckTimeout, RunReturns,
       Release, LoopUnchanged, LifecycleInv, BufferOK, RunOK, OrphanOK, Over, Done
  <2>4. /\ BufferOK'
        /\ \A q \in Callers : CallOK(q)'
    BY <1>13 DEF callVars, idleVars, AckTimeout, RunReturns, Release,
       LoopUnchanged, LifecycleInv, Over, Done, BufferOK, CallOK
  <2> QED
    BY <2>1, <2>2, <2>3, <2>4 DEF LifecycleInv
<1>14. ASSUME NEW s \in SequenceIds, TakePack(s) PROVE LifecycleInv'
  <2>1. ASSUME NEW t \in SequenceIds PROVE RunOK(t)'
    BY <1>14 DEF TypeOK, IdleTypeOK, callVars, idleVars, TakePack, RunReturns,
       Release, LoopUnchanged, LifecycleInv, BufferOK, CallOK, RunOK, IdleOK, Over
  <2>2. ASSUME NEW t \in SequenceIds PROVE IdleOK(t)'
    <3>1. CASE t = s
      <4>1. ~closed[t] /\ UNCHANGED closed /\ run'[t] \in {"top", "exited"}
        BY <1>14, <3>1, ZenonT(30) DEF TypeOK, TakePack, RunReturns, LifecycleInv, IdleOK, Over, idleVars
      <4> QED
        BY <4>1 DEF IdleOK
    <3>2. CASE t # s
      <4>1. /\ run'[t] = run[t] /\ packs'[t] = packs[t] /\ resend'[t] = resend[t]
            /\ UNCHANGED <<moved, closed, inPack>>
        BY <1>14, <3>2 DEF TypeOK, TakePack, RunReturns, LoopUnchanged, idleVars
      <4> QED
        BY <4>1, ZenonT(30) DEF LifecycleInv, IdleOK, Over
    <3> QED
      BY <3>1, <3>2
  <2>3. ASSUME NEW t \in SequenceIds PROVE OrphanOK(t)'
    BY <1>14, ZenonT(30) DEF TypeOK, IdleTypeOK, callVars, idleVars, TakePack, RunReturns,
       Release, LoopUnchanged, LifecycleInv, BufferOK, RunOK, OrphanOK, Over, Done
  <2>4. /\ BufferOK'
        /\ \A q \in Callers : CallOK(q)'
    BY <1>14 DEF callVars, idleVars, TakePack, RunReturns, Release, LoopUnchanged,
       LifecycleInv, Over, Done, BufferOK, CallOK
  <2> QED
    BY <2>1, <2>2, <2>3, <2>4 DEF LifecycleInv
<1>15. ASSUME NEW s \in SequenceIds, RunCancelled(s) PROVE LifecycleInv'
  <2>1. ASSUME NEW t \in SequenceIds PROVE RunOK(t)'
    BY <1>15 DEF TypeOK, IdleTypeOK, callVars, idleVars, RunCancelled, RunReturns,
       Release, LoopUnchanged, LifecycleInv, BufferOK, CallOK, RunOK, IdleOK, Over
  <2>2. ASSUME NEW t \in SequenceIds PROVE IdleOK(t)'
    <3>1. CASE t = s
      BY <1>15, <3>1 DEF TypeOK, IdleTypeOK, callVars, idleVars, RunCancelled,
         RunReturns, Release, LoopUnchanged, LifecycleInv, BufferOK, CallOK, RunOK,
         IdleOK, Over
    <3>2. CASE t # s
      BY <1>15, <3>2 DEF TypeOK, IdleTypeOK, callVars, idleVars, RunCancelled,
         RunReturns, Release, LoopUnchanged, LifecycleInv, BufferOK, CallOK, RunOK,
         IdleOK, Over
    <3> QED
      BY <3>1, <3>2
  <2>3. ASSUME NEW t \in SequenceIds PROVE OrphanOK(t)'
    BY <1>15, ZenonT(30) DEF TypeOK, IdleTypeOK, callVars, idleVars, RunCancelled, RunReturns,
       Release, LoopUnchanged, LifecycleInv, BufferOK, RunOK, OrphanOK, Over, Done
  <2>4. /\ BufferOK'
        /\ \A q \in Callers : CallOK(q)'
    BY <1>15 DEF callVars, idleVars, RunCancelled, RunReturns, Release,
       LoopUnchanged, LifecycleInv, Over, Done, BufferOK, CallOK
  <2> QED
    BY <2>1, <2>2, <2>3, <2>4 DEF LifecycleInv
<1>16. ASSUME NEW s \in SequenceIds, IdleFires(s) PROVE LifecycleInv'
  <2>1. ASSUME NEW t \in SequenceIds PROVE RunOK(t)'
    BY <1>16 DEF TypeOK, IdleTypeOK, callVars, idleVars, IdleFires, LoopUnchanged,
       LifecycleInv, BufferOK, CallOK, RunOK, IdleOK, Over
  <2>2. ASSUME NEW t \in SequenceIds PROVE IdleOK(t)'
    <3>1. CASE t = s
      BY <1>16, <3>1, Zenon DEF TypeOK, IdleTypeOK, callVars, idleVars, IdleFires,
         LoopUnchanged, LifecycleInv, BufferOK, CallOK, RunOK, IdleOK, Over
    <3>2. CASE t # s
      BY <1>16, <3>2, ZenonT(30) DEF TypeOK, IdleTypeOK, callVars, idleVars, IdleFires,
         LoopUnchanged, LifecycleInv, BufferOK, CallOK, RunOK, IdleOK, Over
    <3> QED
      BY <3>1, <3>2
  <2>3. ASSUME NEW t \in SequenceIds PROVE OrphanOK(t)'
    BY <1>16 DEF TypeOK, IdleTypeOK, callVars, idleVars, IdleFires, LoopUnchanged,
       LifecycleInv, BufferOK, RunOK, OrphanOK, Over, Done
  <2>4. /\ BufferOK'
        /\ \A q \in Callers : CallOK(q)'
    BY <1>16 DEF callVars, idleVars, IdleFires, LoopUnchanged, LifecycleInv, Over,
       Done, BufferOK, CallOK
  <2> QED
    BY <2>1, <2>2, <2>3, <2>4 DEF LifecycleInv
<1>17. ASSUME NEW s \in SequenceIds, IdleLocks(s) PROVE LifecycleInv'
  <2>1. ASSUME NEW t \in SequenceIds PROVE RunOK(t)'
    BY <1>17 DEF TypeOK, IdleTypeOK, callVars, idleVars, IdleLocks, LoopUnchanged,
       LifecycleInv, BufferOK, CallOK, RunOK, IdleOK, Over
  <2>2. ASSUME NEW t \in SequenceIds PROVE IdleOK(t)'
    <3>1. CASE t = s
      BY <1>17, <3>1, ZenonT(30) DEF TypeOK, IdleTypeOK, callVars, idleVars, IdleLocks,
         LoopUnchanged, LifecycleInv, BufferOK, CallOK, RunOK, IdleOK, Over
    <3>2. CASE t # s
      BY <1>17, <3>2 DEF TypeOK, IdleTypeOK, callVars, idleVars, IdleLocks,
         LoopUnchanged, LifecycleInv, BufferOK, CallOK, RunOK, IdleOK, Over
    <3> QED
      BY <3>1, <3>2
  <2>3. ASSUME NEW t \in SequenceIds PROVE OrphanOK(t)'
    BY <1>17, ZenonT(30) DEF TypeOK, IdleTypeOK, callVars, idleVars, IdleLocks, LoopUnchanged,
       LifecycleInv, BufferOK, RunOK, OrphanOK, Over, Done
  <2>4. /\ BufferOK'
        /\ \A q \in Callers : CallOK(q)'
    BY <1>17 DEF callVars, idleVars, IdleLocks, LoopUnchanged, LifecycleInv, Over,
       Done, BufferOK, CallOK
  <2> QED
    BY <2>1, <2>2, <2>3, <2>4 DEF LifecycleInv
<1>18. ASSUME NEW s \in SequenceIds, IdleCloses(s) PROVE LifecycleInv'
  <2>1. ASSUME NEW t \in SequenceIds PROVE RunOK(t)'
    BY <1>18, SMTT(30) DEF TypeOK, IdleTypeOK, callVars, idleVars, IdleCloses, CloseIdle,
       MayClose, RunReturns, Release, LoopUnchanged, LifecycleInv, BufferOK,
       CallOK, RunOK, IdleOK, Over
  <2>2. ASSUME NEW t \in SequenceIds PROVE IdleOK(t)'
    <3>1. /\ IdleOK(t) /\ IdleOK(s)
          /\ UNCHANGED <<packs, inPack, moved, opened>>
          /\ run[s] = "locking" /\ inPack[s] = {}
      BY <1>18, ZenonT(30) DEF LifecycleInv, IdleCloses, CloseIdle, LoopUnchanged, idleVars
    <3>2. /\ run \in [SequenceIds -> RunStates]
          /\ closed \in [SequenceIds -> BOOLEAN]
          /\ resend \in [SequenceIds -> SUBSET Callers]
      BY DEF TypeOK, IdleTypeOK
    <3>3. CASE CloseIdle(s) /\ RunReturns(s, {})
      BY <3>1, <3>2, <3>3 DEF IdleOK, Over, CloseIdle, MayClose, RunReturns
    <3>4. CASE /\ run' = [run EXCEPT ![s] = "top"]
               /\ UNCHANGED <<cancelled, resend, releases, idleVars>>
      BY <3>1, <3>2, <3>4 DEF IdleOK, Over, idleVars
    <3> QED
      BY <1>18, <3>3, <3>4, ZenonT(30) DEF IdleCloses
  <2>3. ASSUME NEW t \in SequenceIds PROVE OrphanOK(t)'
    BY <1>18, ZenonT(30) DEF TypeOK, IdleTypeOK, callVars, idleVars, IdleCloses, CloseIdle,
       MayClose, RunReturns, Release, LoopUnchanged, LifecycleInv, BufferOK, RunOK,
       OrphanOK, Over, Done
  <2>4. /\ BufferOK'
        /\ \A q \in Callers : CallOK(q)'
    BY <1>18, ZenonT(30) DEF callVars, idleVars, IdleCloses, CloseIdle, MayClose, RunReturns,
       Release, LoopUnchanged, LifecycleInv, Over, Done, BufferOK, CallOK
  <2> QED
    BY <2>1, <2>2, <2>3, <2>4 DEF LifecycleInv
<1>19. ASSUME NEW s \in SequenceIds, CleanupLocks(s) PROVE LifecycleInv'
  <2>1. ASSUME NEW t \in SequenceIds PROVE RunOK(t)'
    BY <1>19 DEF TypeOK, IdleTypeOK, callVars, idleVars, CleanupLocks,
       LifecycleInv, BufferOK, CallOK, RunOK, IdleOK, Over
  <2>2. ASSUME NEW t \in SequenceIds PROVE IdleOK(t)'
    <3>1. CASE t = s
      BY <1>19, <3>1 DEF TypeOK, IdleTypeOK, callVars, idleVars, CleanupLocks,
         LifecycleInv, BufferOK, CallOK, RunOK, IdleOK, Over
    <3>2. CASE t # s
      BY <1>19, <3>2 DEF TypeOK, IdleTypeOK, callVars, idleVars, CleanupLocks,
         LifecycleInv, BufferOK, CallOK, RunOK, IdleOK, Over
    <3> QED
      BY <3>1, <3>2
  <2>3. ASSUME NEW t \in SequenceIds PROVE OrphanOK(t)'
    BY <1>19, ZenonT(30) DEF TypeOK, IdleTypeOK, callVars, idleVars, CleanupLocks,
       LifecycleInv, BufferOK, RunOK, OrphanOK, Over, Done
  <2>4. /\ BufferOK'
        /\ \A q \in Callers : CallOK(q)'
    BY <1>19 DEF callVars, idleVars, CleanupLocks, LifecycleInv, Over, Done,
       BufferOK, CallOK
  <2> QED
    BY <2>1, <2>2, <2>3, <2>4 DEF LifecycleInv
<1>20. ASSUME NEW s \in SequenceIds, CleanupCloses(s) PROVE LifecycleInv'
  <2>1. BufferOK'
    BY <1>20 DEF TypeOK, IdleTypeOK, callVars, idleVars, CleanupCloses,
       CloseHasLock, CloseDrains, Unmaps, Release, LifecycleInv, BufferOK, CallOK,
       RunOK, Over
  <2>2. ASSUME NEW t \in SequenceIds PROVE RunOK(t)'
    BY <1>20 DEF TypeOK, IdleTypeOK, callVars, idleVars, CleanupCloses,
       CloseHasLock, CloseDrains, Unmaps, Release, LifecycleInv, BufferOK, CallOK,
       RunOK, IdleOK, Over
  <2>3. ASSUME NEW t \in SequenceIds PROVE IdleOK(t)'
    <3>1. CASE t = s
      BY <1>20, <3>1 DEF TypeOK, IdleTypeOK, callVars, idleVars, CleanupCloses,
         CloseHasLock, CloseDrains, Unmaps, Release, LifecycleInv, BufferOK,
         CallOK, RunOK, IdleOK, Over
    <3>2. CASE t # s
      BY <1>20, <3>2 DEF TypeOK, IdleTypeOK, callVars, idleVars, CleanupCloses,
         CloseHasLock, CloseDrains, Unmaps, Release, LifecycleInv, BufferOK,
         CallOK, RunOK, IdleOK, Over
    <3> QED
      BY <3>1, <3>2
  <2>4. ASSUME NEW t \in SequenceIds PROVE OrphanOK(t)'
    BY <1>20, ZenonT(30) DEF TypeOK, IdleTypeOK, callVars, idleVars, CleanupCloses,
       CloseHasLock, CloseDrains, Unmaps, Release, LifecycleInv, BufferOK, RunOK,
       OrphanOK, Over, Done
  <2>5. \A q \in Callers : CallOK(q)'
    BY <1>20, ZenonT(30) DEF callVars, idleVars, CleanupCloses, CloseHasLock, CloseDrains,
       Unmaps, Release, LifecycleInv, Over, Done, CallOK
  <2> QED
    BY <2>1, <2>2, <2>3, <2>4, <2>5 DEF LifecycleInv
<1>21. CASE CancelMapped
  <2>1. ASSUME NEW t \in SequenceIds PROVE RunOK(t)'
    BY <1>21 DEF TypeOK, IdleTypeOK, callVars, idleVars, CancelMapped,
       LifecycleInv, BufferOK, CallOK, RunOK, IdleOK, Over
  <2>2. ASSUME NEW t \in SequenceIds PROVE OrphanOK(t)'
    BY <1>21, ZenonT(30) DEF TypeOK, IdleTypeOK, callVars, idleVars, CancelMapped,
       LifecycleInv, BufferOK, RunOK, OrphanOK, Over, Done
  <2>3. /\ BufferOK'
        /\ \A q \in Callers : CallOK(q)'
        /\ \A t \in SequenceIds : IdleOK(t)'
    BY <1>21, ZenonT(30) DEF callVars, idleVars, CancelMapped, LifecycleInv, Over, Done,
       BufferOK, CallOK, IdleOK
  <2> QED
    BY <2>1, <2>2, <2>3 DEF LifecycleInv
<1>22. CASE ClientDone
  <2>1. ASSUME NEW t \in SequenceIds PROVE OrphanOK(t)'
    BY <1>22, ZenonT(30) DEF TypeOK, IdleTypeOK, callVars, idleVars, ClientDone, LifecycleInv,
       BufferOK, RunOK, OrphanOK, Over, Done
  <2>2. /\ BufferOK'
        /\ \A q \in Callers : CallOK(q)'
        /\ \A t \in SequenceIds : RunOK(t)'
        /\ \A t \in SequenceIds : IdleOK(t)'
    BY <1>22, ZenonT(30) DEF callVars, idleVars, ClientDone, LifecycleInv, Over, Done,
       BufferOK, CallOK, RunOK, IdleOK
  <2> QED
    BY <2>1, <2>2 DEF LifecycleInv
<1>23. CASE Establish
  BY <1>23, ZenonT(30) DEF callVars, idleVars, Establish, LifecycleInv, Over, Done, BufferOK,
     CallOK, RunOK, IdleOK, OrphanOK
<1>24. CASE UNCHANGED vars
  BY <1>24, ZenonT(30) DEF vars, callVars, idleVars, LifecycleInv, Over, Done, BufferOK,
     CallOK, RunOK, IdleOK, OrphanOK
<1> QED
  BY <1>1, <1>2, <1>3, <1>4, <1>5, <1>6, <1>7, <1>8, <1>9, <1>10, <1>11, <1>12,
     <1>13, <1>14, <1>15, <1>16, <1>17, <1>18, <1>19, <1>20, <1>21, <1>22, <1>23,
     <1>24 DEF Next, Progress, Call, Run

\* LifecycleInv is an invariant of the specification.
LEMMA LifecycleInvariant == Spec => [](TypeOK /\ LifecycleInv)
<1> USE IdleAssumption, LifecycleAssumption
<1>1. Init => TypeOK
  <2> SUFFICES ASSUME Init PROVE TypeOK
    OBVIOUS
  <2>1. packs \in [SequenceIds -> Seq(Callers)]
    BY DEF Init
  <2>2. IdleTypeOK
    BY DEF Init, IdleInit, IdleTypeOK
  <2>3. 0 \in 0 .. MaxSequences /\ 0 \in 0 .. MaxCancels /\ 0 \in 0 .. 2
    BY IdleAssumption, LifecycleAssumption
  <2>4. \A s \in SequenceIds : Len(packs[s]) <= BufferSize
    <3>1. \A s \in SequenceIds : packs[s] = <<>>
      BY DEF Init
    <3> QED
      BY <3>1
  <2> QED
    BY <2>1, <2>2, <2>3, <2>4, Zenon DEF Init, TypeOK, RunStates, CallStates
<1>2. Init => LifecycleInv
  BY DEF Init, IdleInit, LifecycleInv, BufferOK, CallOK, RunOK, IdleOK, OrphanOK, Over,
     SequenceIds
<1>3. TypeOK /\ LifecycleInv /\ [Next]_vars => (TypeOK /\ LifecycleInv)'
  BY TypePreserved, LifecyclePreserved
<1> QED
  BY <1>1, <1>2, <1>3, PTL DEF Spec

\* Whatever sequences come and go behind a key, no Pack call of SendSequence or
\* ForwardSequence sends on a channel that Close has closed.
THEOREM NeverSendsOnClosed == Spec => []NoSendOnClosed
<1>1. LifecycleInv => NoSendOnClosed
  BY DEF LifecycleInv, BufferOK, NoSendOnClosed
<1> QED
  BY <1>1, LifecycleInvariant, PTL

\* A sequence the buffer no longer maps has a done ctx while it runs.
THEOREM NoOrphanRuns == Spec => []OrphansStop
<1>1. LifecycleInv => OrphansStop
  BY DEF LifecycleInv, OrphanOK, OrphansStop
<1> QED
  BY <1>1, LifecycleInvariant, PTL

\* The types of the state of the sequences and of the calls are kept.
THEOREM TypeCorrect == Spec => []TypeOK
  BY LifecycleInvariant, PTL

-----------------------------------------------------------------------------
(* What the idle close may leave behind.  While the timer's branch goes for  *)
(* packMutex, a condition that has not moved since the checkpoint vouches    *)
(* that nobody entered: who is inside, or left a pack in the channel since,  *)
(* was inside when the timer fired.                                          *)

ResidentOK(s) ==
    /\ run[s] \in {"fired", "locking"} /\ ~moved[s] =>
          Queued(s) \cup inPack[s] \subseteq resident[s]
    /\ closed[s] => Queued(s) \subseteq resident[s]

\* A step that adds nothing to the channel, lets nobody in and leaves the rest.
LEMMA ResidentStays ==
    ASSUME NEW s \in SequenceIds, ResidentOK(s),
           Queued(s)' \subseteq Queued(s), inPack'[s] \subseteq inPack[s],
           resident'[s] = resident[s], moved'[s] = moved[s], closed'[s] = closed[s],
           run'[s] \in {"fired", "locking"} => run[s] \in {"fired", "locking"}
    PROVE  ResidentOK(s)'
  BY DEF ResidentOK

\* Every step keeps it.
LEMMA ResidentPreserved ==
    ASSUME TypeOK, LifecycleInv, \A s \in SequenceIds : ResidentOK(s), [Next]_vars
    PROVE  \A s \in SequenceIds : ResidentOK(s)'
<1> USE IdleAssumption, LifecycleAssumption
<1> SUFFICES ASSUME NEW t \in SequenceIds PROVE ResidentOK(t)'
  OBVIOUS
<1>0. \A p \in Callers : pc[p] \in {"gate", "enqueue"} => seq[p] \in SequenceIds /\ p \in inPack[seq[p]]
  BY DEF LifecycleInv, CallOK, TypeOK, SequenceIds
<1>1. ASSUME NEW p \in Callers,
             PackBufferDone(p) \/ PackFound(p) \/ PackRejected(p) \/ GateOpens(p)
      PROVE  ResidentOK(t)'
  <2>1. UNCHANGED <<packs, inPack, resident, moved, closed, run>>
    BY <1>1, Zenon DEF PackBufferDone, PackFound, PackRejected, GateOpens, idleVars
  <2> QED
    BY <2>1, ZenonT(30) DEF ResidentOK, Queued
<1>2. ASSUME NEW p \in Callers, PackCreates(p) PROVE ResidentOK(t)'
  <2>1. /\ UNCHANGED <<packs, inPack, resident, moved, closed>>
        /\ run' = [run EXCEPT ![created + 1] = "top"]
    BY <1>2, Zenon DEF PackCreates, idleVars
  <2>2. run'[t] = run[t] \/ run'[t] = "top"
    BY <2>1 DEF TypeOK
  <2>3. Queued(t)' = Queued(t)
    BY <2>1 DEF Queued
  <2> QED
    BY <2>1, <2>2, <2>3, ZenonT(30) DEF ResidentOK
<1>3. ASSUME NEW p \in Callers, PackEnters(p) PROVE ResidentOK(t)'
  <2>1. UNCHANGED <<packs, resident, closed, run>>
    BY <1>3, Zenon DEF PackEnters, UpdateOpen
  <2>2. Queued(t)' = Queued(t)
    BY <2>1 DEF Queued
  <2>3. moved'[t] \/ (moved'[t] = moved[t] /\ inPack'[t] = inPack[t])
    BY <1>3, ZenonT(30) DEF PackEnters, UpdateOpen, TypeOK, IdleTypeOK
  <2> QED
    BY <2>1, <2>2, <2>3, ZenonT(30) DEF ResidentOK
<1>4. ASSUME NEW p \in Callers, GateRefuses(p) \/ PackTimesOut(p) \/ PackInterrupted(p)
      PROVE  ResidentOK(t)'
  <2>1. /\ UNCHANGED <<packs, resident, moved, closed, run>>
        /\ inPack' = [inPack EXCEPT ![seq[p]] = @ \ {p}]
    BY <1>4, Zenon DEF GateRefuses, PackTimesOut, PackInterrupted, Leaves, UpdateClose
  <2>2. inPack'[t] \subseteq inPack[t]
    BY <2>1 DEF TypeOK
  <2>3. Queued(t)' = Queued(t)
    BY <2>1 DEF Queued
  <2> QED
    BY <2>1, <2>2, <2>3, ResidentStays
<1>5. ASSUME NEW p \in Callers, PackEnqueues(p) PROVE ResidentOK(t)'
  <2>1. /\ UNCHANGED <<resident, moved, closed, run>>
        /\ inPack' = [inPack EXCEPT ![seq[p]] = @ \ {p}]
        /\ packs' = packs \/ packs' = [packs EXCEPT ![seq[p]] = Append(@, p)]
    BY <1>5, Zenon DEF PackEnqueues, Leaves, UpdateClose
  <2>2. p \in inPack[seq[p]] /\ seq[p] \in SequenceIds
    BY <1>5, <1>0 DEF PackEnqueues
  <2>3. CASE t = seq[p]
    <3>1. packs[t] \in Seq(Callers)
      BY DEF TypeOK
    <3>2. packs'[t] = packs[t] \/ packs'[t] = Append(packs[t], p)
      BY <2>1, <2>3, ZenonT(30) DEF TypeOK
    <3>3. Queued(t)' \subseteq Queued(t) \cup {p}
      <4>1. /\ Len(Append(packs[t], p)) = Len(packs[t]) + 1
            /\ \A i \in 1 .. Len(packs[t]) + 1 :
                  Append(packs[t], p)[i] = IF i <= Len(packs[t]) THEN packs[t][i] ELSE p
        BY <3>1
      <4> QED
        BY <3>1, <3>2, <4>1 DEF Queued
    <3>4. inPack'[t] \subseteq inPack[t] /\ p \in inPack[t]
      BY <2>1, <2>2, <2>3, ZenonT(30) DEF TypeOK
    <3>5. ~closed[t]
      BY <3>4 DEF LifecycleInv, IdleOK
    <3> QED
      BY <2>1, <3>3, <3>4, <3>5 DEF ResidentOK
  <2>4. CASE t # seq[p]
    <3>1. packs'[t] = packs[t] /\ inPack'[t] = inPack[t]
      BY <2>1, <2>4 DEF TypeOK
    <3>2. Queued(t)' = Queued(t)
      BY <3>1 DEF Queued
    <3> QED
      BY <2>1, <3>1, <3>2, ResidentStays
  <2> QED
    BY <2>3, <2>4
<1>6. ASSUME NEW s \in SequenceIds, Checkpoint(s) PROVE ResidentOK(t)'
  <2>1. /\ UNCHANGED <<packs, inPack, resident, closed>>
        /\ moved' = [moved EXCEPT ![s] = FALSE] /\ run' = [run EXCEPT ![s] = "select"]
    BY <1>6, Zenon DEF Checkpoint, TakeCheckpoint, LoopUnchanged
  <2>2. run'[t] = "select" \/ (run'[t] = run[t] /\ moved'[t] = moved[t])
    BY <2>1, ZenonT(30) DEF TypeOK, IdleTypeOK
  <2>3. Queued(t)' = Queued(t)
    BY <2>1 DEF Queued
  <2> QED
    BY <2>1, <2>2, <2>3, ZenonT(30) DEF ResidentOK
<1>7. ASSUME NEW s \in SequenceIds, Acked(s) \/ AckTimeout(s) \/ RunCancelled(s)
      PROVE  ResidentOK(t)'
  <2>1. /\ UNCHANGED <<packs, inPack, resident, moved, closed>>
        /\ run' = [run EXCEPT ![s] = "top"] \/ run' = [run EXCEPT ![s] = "exited"]
    BY <1>7, Zenon DEF Acked, AckTimeout, RunCancelled, RunReturns, LoopUnchanged, idleVars
  <2>2. run'[t] \in {run[t], "top", "exited"}
    BY <2>1 DEF TypeOK
  <2>3. Queued(t)' = Queued(t)
    BY <2>1, ZenonT(30) DEF Queued
  <2> QED
    BY <2>1, <2>2, <2>3, ZenonT(30) DEF ResidentOK
<1>8. ASSUME NEW s \in SequenceIds, TakePack(s) PROVE ResidentOK(t)'
  <2>1. /\ UNCHANGED <<inPack, resident, moved, closed>>
        /\ packs[s] # <<>> /\ packs' = [packs EXCEPT ![s] = Tail(@)]
        /\ run' = [run EXCEPT ![s] = "top"] \/ run' = [run EXCEPT ![s] = "exited"]
    BY <1>8, Zenon DEF TakePack, RunReturns, LoopUnchanged, idleVars
  <2>2. run'[t] \in {run[t], "top", "exited"}
    BY <2>1 DEF TypeOK
  <2>3. packs[s] \in Seq(Callers)
    BY DEF TypeOK
  <2>4. Elements(Tail(packs[s])) \subseteq Elements(packs[s])
    <3>1. /\ Len(packs[s]) \in Nat \ {0} /\ Len(Tail(packs[s])) = Len(packs[s]) - 1
          /\ \A i \in 1 .. Len(packs[s]) - 1 : Tail(packs[s])[i] = packs[s][i + 1]
      BY <2>1, <2>3
    <3>2. \A i \in 1 .. Len(packs[s]) - 1 : i + 1 \in 1 .. Len(packs[s])
      BY <3>1
    <3> QED
      BY <3>1, <3>2 DEF Elements
  <2>5. packs'[t] = packs[t] \/ (t = s /\ packs'[t] = Tail(packs[s]))
    BY <2>1 DEF TypeOK
  <2>6. Queued(t)' \subseteq Queued(t)
    BY <2>4, <2>5, ZenonT(30) DEF Queued, Elements
  <2> QED
    BY <2>1, <2>2, <2>6, ResidentStays
<1>9. ASSUME NEW s \in SequenceIds, IdleFires(s) PROVE ResidentOK(t)'
  <2>1. /\ UNCHANGED <<packs, inPack, moved, closed>>
        /\ run[s] = "select" /\ packs[s] = <<>> /\ opened[s] = inPack[s]
        /\ run' = [run EXCEPT ![s] = "fired"]
        /\ resident' = [resident EXCEPT ![s] = IF moved[s] THEN {} ELSE opened[s]]
    BY <1>9, Zenon DEF IdleFires, LoopUnchanged, idleVars, LifecycleInv, BufferOK
  <2>2. Queued(t)' = Queued(t)
    BY <2>1 DEF Queued
  <2>3. CASE t = s
    <3>1. Queued(t) = {}
      BY <2>1, <2>3 DEF Queued
    <3>2. resident'[t] = IF moved[t] THEN {} ELSE inPack[t]
      BY <2>1, <2>3 DEF TypeOK
    <3> QED
      BY <2>1, <2>2, <3>1, <3>2 DEF ResidentOK
  <2>4. CASE t # s
    <3>1. run'[t] = run[t] /\ resident'[t] = resident[t]
      BY <2>1, <2>4 DEF TypeOK
    <3> QED
      BY <2>1, <2>2, <3>1, ResidentStays
  <2> QED
    BY <2>3, <2>4
<1>10. ASSUME NEW s \in SequenceIds, IdleLocks(s) PROVE ResidentOK(t)'
  <2>1. /\ UNCHANGED <<packs, inPack, resident, moved, closed>>
        /\ run[s] = "fired" /\ run' = [run EXCEPT ![s] = "locking"]
    BY <1>10, Zenon DEF IdleLocks, LoopUnchanged, idleVars
  <2>2. run'[t] = run[t] \/ run[t] = "fired"
    BY <2>1 DEF TypeOK
  <2>3. Queued(t)' = Queued(t)
    BY <2>1 DEF Queued
  <2> QED
    BY <2>1, <2>2, <2>3, ZenonT(30) DEF ResidentOK
<1>11. ASSUME NEW s \in SequenceIds, IdleCloses(s) PROVE ResidentOK(t)'
  <2>1. /\ UNCHANGED <<packs, inPack, moved>> /\ run[s] = "locking"
    BY <1>11, Zenon DEF IdleCloses, CloseIdle, LoopUnchanged, idleVars
  <2>2. Queued(t)' = Queued(t)
    BY <2>1 DEF Queued
  <2>3. CASE CloseIdle(s) /\ RunReturns(s, {}) /\ UNCHANGED resident
    <3>1. /\ ~moved[s] /\ run' = [run EXCEPT ![s] = "exited"]
          /\ closed' = [closed EXCEPT ![s] = TRUE]
      BY <2>3, Zenon DEF CloseIdle, MayClose, RunReturns
    <3>2. run'[t] \in {run[t], "exited"} /\ (t = s \/ closed'[t] = closed[t])
      BY <3>1, ZenonT(30) DEF TypeOK, IdleTypeOK
    <3>3. t = s => Queued(t) \subseteq resident[t]
      BY <2>1, <3>1 DEF ResidentOK
    <3> QED
      BY <2>1, <2>2, <2>3, <3>2, <3>3 DEF ResidentOK
  <2>4. CASE /\ run' = [run EXCEPT ![s] = "top"]
             /\ resident' = [resident EXCEPT ![s] = {}]
             /\ UNCHANGED closed
    <3>1. ~closed[s]
      BY <2>1 DEF LifecycleInv, IdleOK, Over
    <3>2. CASE t = s
      <4>1. run'[t] = "top" /\ ~closed'[t]
        BY <2>4, <3>1, <3>2 DEF TypeOK
      <4> QED
        BY <4>1, Zenon DEF ResidentOK
    <3>3. CASE t # s
      <4>1. run'[t] = run[t] /\ resident'[t] = resident[t]
        BY <2>4, <3>3 DEF TypeOK
      <4> QED
        BY <2>1, <2>2, <2>4, <4>1, ResidentStays
    <3> QED
      BY <3>2, <3>3
  <2> QED
    BY <1>11, <2>3, <2>4, Zenon DEF IdleCloses, idleVars
<1>12. ASSUME NEW s \in SequenceIds, CleanupLocks(s) PROVE ResidentOK(t)'
  <2>1. /\ UNCHANGED <<packs, inPack, resident, moved, closed>>
        /\ run' = [run EXCEPT ![s] = "closing"]
    BY <1>12, Zenon DEF CleanupLocks, idleVars
  <2>2. run'[t] \in {run[t], "closing"}
    BY <2>1 DEF TypeOK
  <2>3. Queued(t)' = Queued(t)
    BY <2>1 DEF Queued
  <2> QED
    BY <2>1, <2>2, <2>3, ZenonT(30) DEF ResidentOK
<1>13. ASSUME NEW s \in SequenceIds, CleanupCloses(s) PROVE ResidentOK(t)'
  <2>1. /\ UNCHANGED <<inPack, resident, moved, closed>>
        /\ run' = [run EXCEPT ![s] = "done"]
        /\ packs' = packs \/ packs' = [packs EXCEPT ![s] = <<>>]
    BY <1>13, Zenon DEF CleanupCloses, CloseDrains, idleVars
  <2>2. run'[t] \in {run[t], "done"} /\ packs'[t] \in {packs[t], <<>>}
    BY <2>1 DEF TypeOK
  <2>3. Queued(t)' \subseteq Queued(t)
    BY <2>2 DEF Queued
  <2> QED
    BY <2>1, <2>2, <2>3, ResidentStays
<1>14. CASE CancelMapped \/ ClientDone \/ Establish \/ UNCHANGED vars
  <2>1. UNCHANGED <<packs, inPack, resident, moved, closed, run>>
    BY <1>14, Zenon DEF CancelMapped, ClientDone, Establish, vars, idleVars
  <2> QED
    BY <2>1, ZenonT(30) DEF ResidentOK, Queued
<1> QED
  BY <1>1, <1>2, <1>3, <1>4, <1>5, <1>6, <1>7, <1>8, <1>9, <1>10, <1>11, <1>12,
     <1>13, <1>14 DEF Next, Progress, Call, Run

\* An idle close of Run finds no call inside and nothing in the resend queue, and
\* the packs it leaves in the channel are those of calls that were inside Pack for
\* the whole idle period.
THEOREM IdleCloseStrandsResident == Spec => []IdleStrandsOnlyResident
<1>1. Init => \A s \in SequenceIds : ResidentOK(s)
  BY DEF Init, IdleInit, ResidentOK
<1>2. TypeOK /\ LifecycleInv /\ (\A s \in SequenceIds : ResidentOK(s)) /\ [Next]_vars
         => (\A s \in SequenceIds : ResidentOK(s))'
  BY ResidentPreserved
<1>3. LifecycleInv /\ (\A s \in SequenceIds : ResidentOK(s)) => IdleStrandsOnlyResident
  BY DEF LifecycleInv, BufferOK, IdleOK, ResidentOK, IdleStrandsOnlyResident
<1> QED
  BY <1>1, <1>2, <1>3, LifecycleInvariant, PTL DEF Spec

-----------------------------------------------------------------------------
(* Where a pack is.  OwnedOnce counts places; the inductive form says that   *)
(* two places of a pack are the same one, which needs that a channel does    *)
(* not hold a pack twice: taking its head must leave none behind.            *)

\* The pack of p is in a channel or in a resend queue.
Placed(p) == \E s \in SequenceIds : p \in Queued(s) \/ p \in resend[s]

OnePlace(p) ==
    \A s, t \in SequenceIds :
        /\ p \in Queued(s) /\ p \in Queued(t) => s = t
        /\ p \in resend[s] /\ p \in resend[t] => s = t
        /\ ~(p \in Queued(s) /\ p \in resend[t])

\* A placed pack is accepted and not released, an accepted one that is placed no
\* more was released once, and one not accepted never.
Accounted(p) ==
    /\ Placed(p) => pc[p] = "accepted" /\ releases[p] = 0
    /\ pc[p] = "accepted" /\ ~Placed(p) => releases[p] = 1
    /\ pc[p] # "accepted" => releases[p] = 0

OwnInv ==
    /\ \A s \in SequenceIds : NoDup(packs[s])
    /\ \A p \in Callers : OnePlace(p) /\ Accounted(p)

\* A step that leaves the places and the releases, and accepts no pack.
LEMMA StaysOwned ==
    ASSUME OwnInv, UNCHANGED <<packs, resend, releases>>,
           \A p \in Callers : pc'[p] = "accepted" <=> pc[p] = "accepted"
    PROVE  OwnInv'
<1>1. \A s \in SequenceIds : Queued(s)' = Queued(s)
  BY ZenonT(30) DEF Queued
<1>2. ASSUME NEW p \in Callers PROVE OnePlace(p)' /\ Accounted(p)'
  <2>1. OnePlace(p)'
    BY <1>1 DEF OwnInv, OnePlace
  <2>2. Placed(p)' <=> Placed(p)
    BY <1>1 DEF Placed
  <2>3. Accounted(p)'
    BY <2>2, ZenonT(30) DEF OwnInv, Accounted
  <2> QED
    BY <2>1, <2>3
<1>3. \A s \in SequenceIds : NoDup(packs'[s])
  BY ZenonT(30) DEF OwnInv
<1> QED
  BY <1>2, <1>3, ZenonT(30) DEF OwnInv

\* A step that takes packs from their places and releases each once.
LEMMA ReleasedOwned ==
    ASSUME TypeOK, OwnInv, NEW P \in SUBSET Callers, \A p \in P : Placed(p),
           Release(P), pc' = pc,
           \A s \in SequenceIds : /\ Queued(s)' = Queued(s) \ P
                                  /\ resend'[s] = resend[s] \ P
                                  /\ NoDup(packs'[s])
    PROVE  OwnInv'
<1>1. ASSUME NEW p \in Callers PROVE OnePlace(p)'
  BY DEF OwnInv, OnePlace
<1>2. ASSUME NEW p \in Callers PROVE Accounted(p)'
  <2>1. CASE p \in P
    <3>1. ~Placed(p)' /\ Placed(p)
      BY <2>1 DEF Placed
    <3>2. releases'[p] = releases[p] + 1
      BY <2>1, ZenonT(30) DEF Release
    <3>3. pc[p] = "accepted" /\ releases[p] = 0
      BY <3>1, ZenonT(30) DEF OwnInv, Accounted
    <3>4. releases'[p] = 1
      BY <3>2, <3>3
    <3> QED
      BY <3>1, <3>3, <3>4, ZenonT(30) DEF Accounted
  <2>2. CASE p \notin P
    <3>1. Placed(p)' <=> Placed(p)
      BY <2>2, ZenonT(30) DEF Placed
    <3>2. releases'[p] = releases[p]
      BY <2>2, SMTT(30) DEF Release, TypeOK
    <3> QED
      BY <3>1, <3>2, ZenonT(30) DEF OwnInv, Accounted
  <2> QED
    BY <2>1, <2>2, ZenonT(30)
<1> QED
  BY <1>1, <1>2, ZenonT(30) DEF OwnInv

\* A run that returns with the packs P of its channel's head, or none, in hand.
LEMMA ReturnsOwned ==
    ASSUME TypeOK, OwnInv, NEW s \in SequenceIds, RunReturns(s, {}), packs' = packs, pc' = pc
    PROVE  OwnInv'
<1>1. \A t \in SequenceIds : Queued(t)' = Queued(t) \ resend[s]
  <2>1. \A t \in SequenceIds : Queued(t)' = Queued(t)
    BY DEF Queued
  <2>2. \A t \in SequenceIds : Queued(t) \cap resend[s] = {}
    BY DEF OwnInv, OnePlace, TypeOK
  <2> QED
    BY <2>1, <2>2
<1>2. \A t \in SequenceIds : resend'[t] = resend[t] \ resend[s]
  BY DEF RunReturns, OwnInv, OnePlace, TypeOK
<1>3. resend[s] \cup {} = resend[s] /\ resend[s] \in SUBSET Callers
  BY DEF TypeOK
<1>4. Release(resend[s]) /\ \A p \in resend[s] : Placed(p)
  BY <1>3 DEF RunReturns, Placed
<1>5. \A t \in SequenceIds : NoDup(packs'[t])
  BY DEF OwnInv
<1> QED
  BY <1>1, <1>2, <1>3, <1>4, <1>5, ReleasedOwned, ZenonT(30)

\* Every step keeps the places.
LEMMA OwnPreserved == TypeOK /\ LifecycleInv /\ OwnInv /\ [Next]_vars => OwnInv'
<1> SUFFICES ASSUME TypeOK, LifecycleInv, OwnInv, [Next]_vars PROVE OwnInv'
  OBVIOUS
<1>0. \A s \in SequenceIds : Queued(s) = Elements(packs[s]) /\ Queued(s)' = Elements(packs'[s])
  BY DEF Queued, Elements
<1>1. ASSUME NEW p \in Callers, Call(p), ~PackEnqueues(p) PROVE OwnInv'
  <2>1. UNCHANGED <<packs, resend, releases>>
    BY <1>1, ZenonT(30) DEF Call, PackBufferDone, PackFound, PackCreates, PackRejected, PackEnters,
       GateOpens, GateRefuses, PackTimesOut, PackInterrupted, Leaves
  <2>2. pc[p] # "accepted" /\ \E c \in CallStates \ {"accepted"} : pc' = [pc EXCEPT ![p] = c]
    BY <1>1 DEF Call, PackBufferDone, PackFound, PackCreates, PackRejected, PackEnters,
       GateOpens, GateRefuses, PackTimesOut, PackInterrupted, Leaves, AfterFailure, CallStates
  <2>3. \A q \in Callers : pc'[q] = "accepted" <=> pc[q] = "accepted"
    BY <2>2, ZenonT(30) DEF TypeOK
  <2> QED
    BY <2>1, <2>3, StaysOwned, ZenonT(30)
<1>2. ASSUME NEW p \in Callers, PackEnqueues(p) PROVE OwnInv'
  <2>0. PICK s : s = seq[p]
    BY ZenonT(30)
  <2>1. s \in SequenceIds /\ ~ChanClosed(s)
    BY <1>2, <2>0 DEF PackEnqueues, LifecycleInv, CallOK, RunOK, TypeOK, ChanClosed, SequenceIds
  <2>2. /\ packs' = [packs EXCEPT ![s] = Append(@, p)]
        /\ pc' = [pc EXCEPT ![p] = "accepted"]
        /\ pc[p] = "enqueue" /\ resend' = resend /\ releases' = releases
    BY <1>2, <2>0, <2>1 DEF PackEnqueues, Leaves
  <2>3. /\ ~Placed(p) /\ releases[p] = 0
    BY <2>2 DEF OwnInv, Accounted
  <2>4. packs[s] \in Seq(Callers) /\ NoDup(packs[s]) /\ p \notin Elements(packs[s])
    BY <2>1, <2>3, <1>0 DEF TypeOK, OwnInv, Placed
  <2>5. /\ packs'[s] = Append(packs[s], p)
        /\ \A t \in SequenceIds \ {s} : packs'[t] = packs[t]
    BY <2>1, <2>2 DEF TypeOK
  <2>6. Elements(packs'[s]) = Elements(packs[s]) \cup {p} /\ NoDup(packs'[s])
    <3>1. /\ Elements(Append(packs[s], p)) = Elements(packs[s]) \cup {p}
          /\ NoDup(Append(packs[s], p))
      BY <2>4, AppendAdds, ZenonT(30)
    <3> QED
      BY <2>5, <3>1
  <2>7. \A t \in SequenceIds : Queued(t)' = IF t = s THEN Queued(t) \cup {p} ELSE Queued(t)
    BY <2>5, <2>6, <1>0, ZenonT(30)
  <2>8. \A t \in SequenceIds : NoDup(packs'[t])
    BY <2>5, <2>6, ZenonT(30) DEF OwnInv
  <2>9. ASSUME NEW q \in Callers PROVE OnePlace(q)' /\ Accounted(q)'
    <3>1. CASE q = p
      <4>1. \A t \in SequenceIds : p \notin Queued(t) /\ p \notin resend[t]
        BY <2>3, ZenonT(30) DEF Placed
      <4>2. OnePlace(p)'
        BY <4>1, <2>7, <2>2 DEF OnePlace
      <4>3. Placed(p)'
        BY <2>1, <2>7 DEF Placed
      <4>4. pc'[p] = "accepted" /\ releases'[p] = 0
        BY <2>2, <2>3, ZenonT(30) DEF TypeOK
      <4> QED
        BY <3>1, <4>2, <4>3, <4>4 DEF Accounted
    <3>2. CASE q # p
      <4>1. \A t \in SequenceIds : (q \in Queued(t)' <=> q \in Queued(t)) /\ resend'[t] = resend[t]
        BY <3>2, <2>7, <2>2
      <4>2. pc'[q] = pc[q] /\ releases'[q] = releases[q]
        BY <3>2, <2>2 DEF TypeOK
      <4> QED
        BY <4>1, <4>2 DEF OwnInv, OnePlace, Accounted, Placed
    <3> QED
      BY <3>1, <3>2, ZenonT(30)
  <2> QED
    BY <2>8, <2>9, ZenonT(30) DEF OwnInv
<1>3. ASSUME NEW s \in SequenceIds,
             Checkpoint(s) \/ IdleFires(s) \/ IdleLocks(s) \/ CleanupLocks(s)
      PROVE  OwnInv'
  <2>1. UNCHANGED <<packs, resend, releases, pc>>
    BY <1>3, ZenonT(30) DEF Checkpoint, IdleFires, IdleLocks, CleanupLocks, LoopUnchanged, callVars
  <2> QED
    BY <2>1, StaysOwned, ZenonT(30)
<1>4. ASSUME NEW s \in SequenceIds, Acked(s) PROVE OwnInv'
  <2>1. PICK p \in resend[s] : resend' = [resend EXCEPT ![s] = @ \ {p}] /\ Release({p})
    BY <1>4, ZenonT(30) DEF Acked
  <2>2. packs' = packs /\ pc' = pc
    BY <1>4 DEF Acked, LoopUnchanged, callVars
  <2>3. p \in Callers /\ Placed(p)
    BY <2>1 DEF TypeOK, Placed
  <2>4. \A t \in SequenceIds : p \notin Queued(t) /\ (t # s => p \notin resend[t])
    BY <2>1, <2>3 DEF OwnInv, OnePlace
  <2>5. \A t \in SequenceIds : resend'[t] = resend[t] \ {p}
    BY <2>1, <2>4, ZenonT(30) DEF TypeOK
  <2>6. \A t \in SequenceIds : Queued(t)' = Queued(t) \ {p} /\ NoDup(packs'[t])
    BY <2>2, <2>4, <1>0 DEF OwnInv
  <2>7. {p} \in SUBSET Callers /\ \A q \in {p} : Placed(q)
    BY <2>3
  <2> QED
    BY <2>1, <2>2, <2>5, <2>6, <2>7, ReleasedOwned, ZenonT(30)
<1>5. ASSUME NEW s \in SequenceIds, AckTimeout(s) \/ RunCancelled(s) PROVE OwnInv'
  <2>1. RunReturns(s, {}) /\ packs' = packs /\ pc' = pc
    BY <1>5, ZenonT(30) DEF AckTimeout, RunCancelled, LoopUnchanged, callVars
  <2> QED
    BY <2>1, ReturnsOwned, ZenonT(30)
<1>6. ASSUME NEW s \in SequenceIds, IdleCloses(s) PROVE OwnInv'
  <2>1. packs' = packs /\ pc' = pc
    BY <1>6, ZenonT(30) DEF IdleCloses, LoopUnchanged, callVars
  <2>2. CASE RunReturns(s, {})
    BY <2>1, <2>2, ReturnsOwned
  <2>3. CASE UNCHANGED <<resend, releases>>
    BY <2>1, <2>3, StaysOwned
  <2> QED
    BY <1>6, <2>2, <2>3, ZenonT(30) DEF IdleCloses
<1>7. ASSUME NEW s \in SequenceIds, TakePack(s) PROVE OwnInv'
  <2>0. PICK h : h = Head(packs[s])
    BY ZenonT(30)
  <2>1. packs[s] \in Seq(Callers) /\ packs[s] # <<>> /\ NoDup(packs[s])
    BY <1>7, ZenonT(30) DEF TakePack, TypeOK, OwnInv
  <2>2. /\ h \in Queued(s)
        /\ Elements(Tail(packs[s])) = Queued(s) \ {h} /\ NoDup(Tail(packs[s]))
    BY <2>0, <2>1, <1>0, TailTakes, ZenonT(30)
  <2>3. h \in Callers
    BY <2>0, <2>1, SMTT(30)
  <2>4. /\ packs'[s] = Tail(packs[s]) /\ pc' = pc
        /\ \A t \in SequenceIds \ {s} : packs'[t] = packs[t]
    BY <1>7 DEF TakePack, TypeOK, LoopUnchanged, callVars
  <2>5. \/ Release({h}) /\ resend' = resend
        \/ resend' = [resend EXCEPT ![s] = @ \cup {h}] /\ releases' = releases
        \/ RunReturns(s, {h})
    BY <1>7, <2>0, ZenonT(30) DEF TakePack
  <2>6. /\ \A t \in SequenceIds : h \notin resend[t] /\ (t # s => h \notin Queued(t))
        /\ Placed(h)
    BY <2>2, <2>3, ZenonT(30) DEF OwnInv, OnePlace, Placed
  <2>7. \A t \in SequenceIds : Queued(t)' = Queued(t) \ {h} /\ NoDup(packs'[t])
    BY <2>2, <2>4, <2>6, <1>0, ZenonT(30) DEF OwnInv
  <2>8. CASE Release({h}) /\ resend' = resend
    <3>1. {h} \in SUBSET Callers /\ \A q \in {h} : Placed(q)
      BY <2>3, <2>6
    <3>2. \A t \in SequenceIds : resend'[t] = resend[t] \ {h}
      BY <2>8, <2>6, ZenonT(30)
    <3> QED
      BY <2>4, <2>7, <2>8, <3>1, <3>2, ReleasedOwned, ZenonT(30)
  <2>9. CASE resend' = [resend EXCEPT ![s] = @ \cup {h}] /\ releases' = releases
    <3>1. \A t \in SequenceIds : resend'[t] = IF t = s THEN resend[t] \cup {h} ELSE resend[t]
      BY <2>9, ZenonT(30) DEF TypeOK
    <3>2. ASSUME NEW q \in Callers PROVE OnePlace(q)' /\ Accounted(q)'
      <4>1. CASE q = h
        <5>1. \A t \in SequenceIds : h \notin Queued(t)' /\ (h \in resend'[t] <=> t = s)
          BY <2>6, <2>7, <3>1, ZenonT(30)
        <5>2. OnePlace(h)' /\ Placed(h)'
          BY <5>1 DEF OnePlace, Placed
        <5>3. pc[h] = "accepted" /\ releases[h] = 0
          BY <2>3, <2>6, ZenonT(30) DEF OwnInv, Accounted
        <5> QED
          BY <4>1, <5>2, <5>3, <2>4, <2>9, ZenonT(30) DEF Accounted
      <4>2. CASE q # h
        <5>1. \A t \in SequenceIds : /\ q \in Queued(t)' <=> q \in Queued(t)
                                     /\ q \in resend'[t] <=> q \in resend[t]
          BY <4>2, <2>7, <3>1, ZenonT(30)
        <5> QED
          BY <5>1, <2>4, <2>9, ZenonT(30) DEF OwnInv, OnePlace, Accounted, Placed
      <4> QED
        BY <4>1, <4>2, ZenonT(30)
    <3> QED
      BY <2>7, <3>2 DEF OwnInv
  <2>10. CASE RunReturns(s, {h})
    <3> DEFINE P == resend[s] \cup {h}
    <3>1. P \in SUBSET Callers /\ \A q \in P : Placed(q)
      BY <2>3, <2>6, ZenonT(30) DEF TypeOK, Placed
    <3>2. \A t \in SequenceIds : resend'[t] = resend[t] \ P
      <4>1. \A t \in SequenceIds : resend'[t] = IF t = s THEN {} ELSE resend[t]
        BY <2>10 DEF RunReturns, TypeOK
      <4>2. \A t \in SequenceIds \ {s} : resend[t] \cap resend[s] = {}
        BY ZenonT(30) DEF OwnInv, OnePlace, TypeOK
      <4> QED
        BY <4>1, <4>2, <2>6, ZenonT(30)
    <3>3. \A t \in SequenceIds : Queued(t)' = Queued(t) \ P
      <4>1. \A t \in SequenceIds : Queued(t) \cap resend[s] = {}
        BY DEF OwnInv, OnePlace, TypeOK
      <4> QED
        BY <4>1, <2>7
    <3>4. Release(P)
      BY <2>10 DEF RunReturns
    <3> HIDE DEF P
    <3> QED
      BY <2>4, <2>7, <3>1, <3>2, <3>3, <3>4, ReleasedOwned, ZenonT(30)
  <2> QED
    BY <2>5, <2>8, <2>9, <2>10
<1>8. ASSUME NEW s \in SequenceIds, CleanupCloses(s) PROVE OwnInv'
  <2>1. resend' = resend /\ pc' = pc
    BY <1>8 DEF CleanupCloses, callVars
  <2>2. CASE UNCHANGED <<releases, packs>>
    BY <2>1, <2>2, StaysOwned, ZenonT(30)
  <2>3. CASE Release(Queued(s)) /\ packs' = [packs EXCEPT ![s] = <<>>]
    <3>1. /\ packs'[s] = <<>>
          /\ \A t \in SequenceIds \ {s} : packs'[t] = packs[t]
      BY <2>3 DEF TypeOK
    <3>2. Elements(<<>>) = {} /\ NoDup(<<>>)
      BY EmptyHasNone, ZenonT(30)
    <3>3. Queued(s) \in SUBSET Callers
      BY SMTT(30) DEF Queued, TypeOK
    <3>4. /\ \A q \in Queued(s) : Placed(q)
          /\ \A t \in SequenceIds : resend[t] \cap Queued(s) = {}
          /\ \A t \in SequenceIds \ {s} : Queued(t) \cap Queued(s) = {}
      BY <3>3, ZenonT(30) DEF OwnInv, OnePlace, Placed
    <3>5. \A t \in SequenceIds : /\ Queued(t)' = Queued(t) \ Queued(s)
                                 /\ resend'[t] = resend[t] \ Queued(s)
                                 /\ NoDup(packs'[t])
      BY <1>0, <2>1, <3>1, <3>2, <3>4, ZenonT(30) DEF OwnInv
    <3> QED
      BY <2>1, <2>3, <3>3, <3>4, <3>5, ReleasedOwned
  <2> QED
    BY <1>8, <2>2, <2>3 DEF CleanupCloses, CloseDrains
<1>9. CASE CancelMapped \/ ClientDone \/ Establish \/ UNCHANGED vars
  <2>1. UNCHANGED <<packs, resend, releases, pc>>
    BY <1>9, ZenonT(30) DEF CancelMapped, ClientDone, Establish, vars, callVars
  <2> QED
    BY <2>1, StaysOwned
<1> QED
  BY <1>1, <1>2, <1>3, <1>4, <1>5, <1>6, <1>7, <1>8, <1>9 DEF Next, Progress, Call, Run

\* One place, or none and one release.
LEMMA OwnCounts == TypeOK /\ OwnInv => OwnedOnce
<1> SUFFICES ASSUME TypeOK, OwnInv, NEW p \in Callers
             PROVE  Cardinality({s \in SequenceIds : p \in Queued(s)})
                    + Cardinality({s \in SequenceIds : p \in resend[s]})
                    + releases[p] = IF pc[p] = "accepted" THEN 1 ELSE 0
  BY ZenonT(30) DEF OwnedOnce
<1> DEFINE Q == {s \in SequenceIds : p \in Queued(s)}
           R == {s \in SequenceIds : p \in resend[s]}
<1>1. OnePlace(p) /\ Accounted(p)
  BY DEF OwnInv
<1>2. Cardinality({}) = 0
  BY FS_EmptySet, ZenonT(30)
<1>3. CASE \E s \in SequenceIds : p \in Queued(s)
  <2>1. PICK s \in SequenceIds : p \in Queued(s)
    BY <1>3, ZenonT(30)
  <2>2. Q = {s} /\ R = {}
    BY <2>1, <1>1 DEF OnePlace
  <2>3. Cardinality({s}) = 1
    BY FS_Singleton, ZenonT(30)
  <2>4. pc[p] = "accepted" /\ releases[p] = 0
    BY <2>1, <1>1 DEF Accounted, Placed
  <2>5. Cardinality(Q) = 1 /\ Cardinality(R) = 0
    BY <2>2, <2>3, <1>2, ZenonT(30)
  <2> HIDE DEF Q, R
  <2>6. Cardinality(Q) + Cardinality(R) + releases[p] = 1
    BY <2>4, <2>5
  <2> QED
    BY <2>4, <2>6 DEF Q, R
<1>4. CASE \E s \in SequenceIds : p \in resend[s]
  <2>1. PICK s \in SequenceIds : p \in resend[s]
    BY <1>4, ZenonT(30)
  <2>2. R = {s} /\ Q = {}
    BY <2>1, <1>1 DEF OnePlace
  <2>3. Cardinality({s}) = 1
    BY FS_Singleton
  <2>4. pc[p] = "accepted" /\ releases[p] = 0
    BY <2>1, <1>1 DEF Accounted, Placed
  <2>5. Cardinality(R) = 1 /\ Cardinality(Q) = 0
    BY <2>2, <2>3, <1>2, ZenonT(30)
  <2> HIDE DEF Q, R
  <2>6. Cardinality(Q) + Cardinality(R) + releases[p] = 1
    BY <2>4, <2>5
  <2> QED
    BY <2>4, <2>6 DEF Q, R
<1>5. CASE ~Placed(p)
  <2>1. Q = {} /\ R = {}
    BY <1>5 DEF Placed
  <2>2. Cardinality(Q) = 0 /\ Cardinality(R) = 0
    BY <2>1, <1>2, ZenonT(30)
  <2>3. releases[p] = IF pc[p] = "accepted" THEN 1 ELSE 0
    BY <1>1, <1>5 DEF Accounted
  <2> QED
    BY <2>2, <2>3
<1> QED
  BY <1>3, <1>4, <1>5, ZenonT(30) DEF Placed

\* A pack that a Pack call accepted is in one channel, in one resend queue, or
\* released exactly once; one that was refused or failed stays with the caller.
THEOREM PacksOwnedOnce == Spec => []OwnedOnce
<1>1. Init => OwnInv
  <2> SUFFICES ASSUME Init PROVE OwnInv
    OBVIOUS
  <2>1. \A s \in SequenceIds : packs[s] = <<>> /\ resend[s] = {}
    BY DEF Init
  <2>2. \A s \in SequenceIds : Queued(s) = {} /\ NoDup(packs[s])
    BY <2>1 DEF Queued, NoDup
  <2>3. \A p \in Callers : pc[p] = "start" /\ releases[p] = 0
    BY ZenonT(30) DEF Init
  <2> QED
    BY <2>1, <2>2, <2>3 DEF OwnInv, OnePlace, Accounted, Placed
<1>2. TypeOK /\ LifecycleInv /\ OwnInv /\ [Next]_vars => OwnInv'
  BY OwnPreserved
<1>3. TypeOK /\ OwnInv => OwnedOnce
  BY OwnCounts
<1> QED
  BY <1>1, <1>2, <1>3, LifecycleInvariant, PTL DEF Spec
=============================================================================
