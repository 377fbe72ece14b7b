------------------------ MODULE ReceiveBufferProofs ------------------------
(***************************************************************************)
(* The safety of the ReceiveBuffer, for any number of packs, versions and  *)
(* sequences.  The argument: only the head is mapped, so what is mapped is *)
(* one sequence; a sequence is unmapped only when its Run has exited or    *)
(* its cleanup runs, and replaced in the map only after it turned a pack   *)
(* away, which without Flush it does only when its loop has ended.  So     *)
(* without Flush no sequence but the mapped one is in its loop.  A pack is *)
(* with the receive loop, in one channel, with one Run, or let go of.      *)
(***************************************************************************)
EXTENDS ReceiveBuffer, TLAPS

ProofTypes ==
    /\ live \in [Versions -> SequenceIds \cup {0}]
    /\ head \in Versions \cup {0}
    /\ mutex \in SequenceIds \cup {0}
    /\ pc \in {"idle", "route", "wait", "lock", "enqueue"}
    /\ pack \in Packs \cup {None}
    /\ seq \in SequenceIds \cup {0}
    /\ created \in 0 .. MaxSequences
    /\ version \in [SequenceIds -> Versions \cup {0}]
    /\ run \in [SequenceIds -> RunStates]
    /\ cancelled \in [SequenceIds -> BOOLEAN]
    /\ closed \in [SequenceIds -> BOOLEAN]
    /\ flushes \in Nat

\* The goroutine of s is in the loop of Run.
Active(s) == run[s] \in {"top", "select", "deliver", "locking"}

\* Sequences are made in order.
Made ==
    \A s \in SequenceIds :
        /\ s > created => run[s] = "new" /\ ~cancelled[s]
        /\ s <= created => run[s] # "new" /\ version[s] \in Versions

\* The sequence of a version is one that was made for it.
Mapped ==
    \A v \in Versions : live[v] # 0 => live[v] <= created /\ version[live[v]] = v

\* What a call of Pack has in its hands, and who has the mutex.
Calls ==
    /\ pc # "idle" => pack \in Packs
    /\ seq <= created
    /\ pc = "idle" => seq = 0
    /\ pc \in {"lock", "enqueue"} => seq # 0
    /\ pc = "wait" => head # 0 /\ mutex = 0 /\ head < Version[pack]
    /\ \A s \in SequenceIds : run[s] = "closing" => mutex = s

\* A sequence out of its loop is cancelled; one whose condition closed is out.
Stopped ==
    \A s \in SequenceIds :
        /\ run[s] \in {"leaving", "exited", "closing", "done"} => cancelled[s]
        /\ closed[s] => run[s] \in {"leaving", "exited", "closing", "done"}

\* The channel that Pack sends on is open.
Sending ==
    /\ ~panicked
    /\ pc = "enqueue" => run[seq] # "done"

\* Without Flush, a sequence in its loop is mapped, it is cancelled only for the
\* version that waits for it, and the one to skip is not in its loop.
Alive ==
    flushes = 0 =>
        /\ \A s \in SequenceIds :
              Active(s) => /\ live[version[s]] = s
                           /\ cancelled[s] => pc = "wait" /\ version[s] = head
        /\ pc = "route" /\ seq # 0 => clientDone \/ ~Active(seq)

BufferInv ==
    ProofTypes /\ Made /\ Mapped /\ HeadExact /\ Calls /\ Stopped /\ Sending /\ Alive

\* Versions are positive, and 0 stands for none.
LEMMA VersionFacts ==
    /\ \A p \in Packs : Version[p] \in Versions
    /\ \A v \in Versions : v \in Nat \ {0}
    /\ 0 \notin Versions
BY ReceiveBufferAssumption DEF Versions, Packs

\* The numbers of sequences.
LEMMA SequenceFacts ==
    /\ MaxSequences \in Nat
    /\ \A s : s \in SequenceIds <=> s \in Nat /\ 1 <= s /\ s <= MaxSequences
BY IdleAssumption, SMTT(30) DEF SequenceIds

\* Every step of the receive loop, of a sequence or of the client keeps the invariant.
LEMMA InvariantPreserved == BufferInv /\ [Next]_vars => BufferInv'
<1>. SUFFICES ASSUME BufferInv, [Next]_vars
              PROVE  BufferInv'
    OBVIOUS
<1>. USE VersionFacts, SequenceFacts DEF BufferInv
<1>1. ASSUME NEW p \in Packs, Arrives(p)
      PROVE  BufferInv'
  <2>1. ProofTypes'
    BY <1>1 DEF Arrives, bufferVars, idleVars, ProofTypes, RunStates, Calls
  <2>2. Made'
    BY <1>1 DEF Arrives, Made, bufferVars
  <2>3. Mapped'
    BY <1>1 DEF Arrives, Mapped, bufferVars
  <2>4. HeadExact'
    BY <1>1 DEF Arrives, HeadExact, bufferVars
  <2>5. Calls'
    BY <1>1 DEF Arrives, bufferVars, idleVars, ProofTypes, Made, Mapped, Calls, HeadExact
  <2>6. Stopped'
    BY <1>1 DEF Arrives, Stopped, idleVars
  <2>7. Sending'
    BY <1>1 DEF Arrives, bufferVars, idleVars, ProofTypes, Made, Calls, Stopped, Sending
  <2>8. Alive'
    BY <1>1 DEF Arrives, bufferVars, idleVars, ProofTypes, Made, Mapped, HeadExact, Calls,
                Stopped, Alive, Active
  <2>. QED
    BY <2>1, <2>2, <2>3, <2>4, <2>5, <2>6, <2>7, <2>8
<1>2. ASSUME RouteDone
      PROVE  BufferInv'
  <2>1. ProofTypes'
    BY <1>2 DEF RouteDone, Returns, bufferVars, idleVars, ProofTypes, RunStates, Calls
  <2>2. Made'
    BY <1>2 DEF RouteDone, Returns, Made, bufferVars
  <2>3. Mapped'
    BY <1>2 DEF RouteDone, Returns, Mapped, bufferVars
  <2>4. HeadExact'
    BY <1>2 DEF RouteDone, Returns, HeadExact, bufferVars
  <2>5. Calls'
    BY <1>2 DEF RouteDone, Returns, bufferVars, idleVars, ProofTypes, Made, Mapped, Calls,
                HeadExact
  <2>6. Stopped'
    BY <1>2 DEF RouteDone, Returns, Stopped, idleVars
  <2>7. Sending'
    BY <1>2 DEF RouteDone, Returns, bufferVars, idleVars, ProofTypes, Made, Calls, Stopped,
                Sending
  <2>8. Alive'
    BY <1>2 DEF RouteDone, Returns, bufferVars, idleVars, ProofTypes, Made, Mapped, HeadExact,
                Calls, Stopped, Alive, Active
  <2>. QED
    BY <2>1, <2>2, <2>3, <2>4, <2>5, <2>6, <2>7, <2>8
<1>3. ASSUME RouteFound
      PROVE  BufferInv'
  <2>1. ProofTypes'
    BY <1>3 DEF RouteFound, bufferVars, idleVars, ProofTypes, RunStates, Calls
  <2>2. Made'
    BY <1>3 DEF RouteFound, Made, bufferVars
  <2>3. Mapped'
    BY <1>3 DEF RouteFound, Mapped, bufferVars
  <2>4. HeadExact'
    BY <1>3 DEF RouteFound, HeadExact, bufferVars
  <2>5. Calls'
    BY <1>3 DEF RouteFound, bufferVars, idleVars, ProofTypes, Made, Mapped, Calls, HeadExact
  <2>6. Stopped'
    BY <1>3 DEF RouteFound, Stopped, idleVars
  <2>7. Sending'
    BY <1>3 DEF RouteFound, bufferVars, idleVars, ProofTypes, Made, Calls, Stopped, Sending
  <2>8. Alive'
    BY <1>3 DEF RouteFound, bufferVars, idleVars, ProofTypes, Made, Mapped, HeadExact, Calls,
                Stopped, Alive, Active
  <2>. QED
    BY <2>1, <2>2, <2>3, <2>4, <2>5, <2>6, <2>7, <2>8
<1>4. ASSUME RouteOlder
      PROVE  BufferInv'
  <2>1. ProofTypes'
    BY <1>4 DEF RouteOlder, Returns, bufferVars, idleVars, ProofTypes, RunStates, Calls
  <2>2. Made'
    BY <1>4 DEF RouteOlder, Returns, Made, bufferVars
  <2>3. Mapped'
    BY <1>4 DEF RouteOlder, Returns, Mapped, bufferVars
  <2>4. HeadExact'
    BY <1>4 DEF RouteOlder, Returns, HeadExact, bufferVars
  <2>5. Calls'
    BY <1>4 DEF RouteOlder, Returns, bufferVars, idleVars, ProofTypes, Made, Mapped, Calls,
                HeadExact
  <2>6. Stopped'
    BY <1>4 DEF RouteOlder, Returns, Stopped, idleVars
  <2>7. Sending'
    BY <1>4 DEF RouteOlder, Returns, bufferVars, idleVars, ProofTypes, Made, Calls, Stopped,
                Sending
  <2>8. Alive'
    BY <1>4 DEF RouteOlder, Returns, bufferVars, idleVars, ProofTypes, Made, Mapped, HeadExact,
                Calls, Stopped, Alive, Active
  <2>. QED
    BY <2>1, <2>2, <2>3, <2>4, <2>5, <2>6, <2>7, <2>8
<1>5. ASSUME RouteCreates
      PROVE  BufferInv'
  <2>a. /\ pc = "route" /\ Version[pack] \in Versions
        /\ \A v \in Versions : live[v] = 0
    BY <1>5 DEF RouteCreates, ProofTypes, HeadExact, Calls
  <2>b. Creates(live) /\ UNCHANGED <<cancelled, releases, idleVars>>
    BY <1>5 DEF RouteCreates
  <2>1. ProofTypes'
    BY <2>a, <2>b DEF Creates, idleVars, ProofTypes, RunStates, Calls
  <2>2. Made'
    BY <2>a, <2>b DEF Creates, idleVars, ProofTypes, Made, Calls, Mapped
  <2>3. Mapped'
    BY <2>a, <2>b DEF Creates, idleVars, ProofTypes, Made, Mapped, HeadExact, Calls
  <2>4. HeadExact'
    BY <2>a, <2>b DEF Creates, idleVars, ProofTypes, Made, Mapped, HeadExact, Calls
  <2>5. Calls'
    BY <2>a, <2>b DEF Creates, idleVars, ProofTypes, Made, Mapped, Calls, HeadExact
  <2>6. Stopped'
    BY <2>a, <2>b DEF Creates, idleVars, ProofTypes, Made, Mapped, Calls, Stopped, HeadExact,
                      Active
  <2>7. Sending'
    BY <2>a, <2>b DEF Creates, idleVars, ProofTypes, Made, Calls, Stopped, Sending
  <2>8. Alive'
    BY <2>a, <2>b DEF Creates, idleVars, ProofTypes, Made, Mapped, HeadExact, Calls, Stopped,
                      Alive, Active
  <2>. QED
    BY <2>1, <2>2, <2>3, <2>4, <2>5, <2>6, <2>7, <2>8
<1>6. ASSUME RouteSkips
      PROVE  BufferInv'
  <2>a. /\ pc = "route" /\ ~clientDone /\ Version[pack] \in Versions
        /\ head = Version[pack] /\ live[Version[pack]] = seq /\ seq # 0
        /\ cancelled' = [cancelled EXCEPT ![seq] = TRUE]
    BY <1>6 DEF RouteSkips, HeadExact, Calls
  <2>b. Creates(live) /\ UNCHANGED idleVars
    BY <1>6, <2>a DEF RouteSkips
  <2>1. ProofTypes'
    BY <2>a, <2>b DEF Creates, bufferVars, idleVars, ProofTypes, RunStates, Calls
  <2>2. Made'
    BY <2>a, <2>b DEF Creates, bufferVars, idleVars, ProofTypes, Made, Calls, Mapped
  <2>3. Mapped'
    BY <2>a, <2>b DEF Creates, bufferVars, idleVars, ProofTypes, Made, Mapped, HeadExact, Calls
  <2>4. HeadExact'
    BY <2>a, <2>b DEF Creates, bufferVars, idleVars, ProofTypes, Made, Mapped, HeadExact, Calls
  <2>5. Calls'
    BY <2>a, <2>b DEF Creates, bufferVars, idleVars, ProofTypes, Made, Mapped, Calls, HeadExact
  <2>6. Stopped'
    BY <2>a, <2>b DEF Creates, bufferVars, idleVars, ProofTypes, Made, Mapped, Calls, Stopped,
                      HeadExact, Active
  <2>7. Sending'
    BY <2>a, <2>b DEF Creates, bufferVars, idleVars, ProofTypes, Made, Calls, Stopped, Sending
  <2>8. Alive'
    BY <2>a, <2>b DEF Creates, bufferVars, idleVars, ProofTypes, Made, Mapped, HeadExact, Calls,
                      Stopped, Alive, Active
  <2>. QED
    BY <2>1, <2>2, <2>3, <2>4, <2>5, <2>6, <2>7, <2>8
<1>7. ASSUME RouteNewer
      PROVE  BufferInv'
  <2>1. ProofTypes'
    BY <1>7 DEF RouteNewer, bufferVars, idleVars, ProofTypes, RunStates, Calls
  <2>2. Made'
    BY <1>7 DEF RouteNewer, bufferVars, idleVars, ProofTypes, Made, Calls, Mapped
  <2>3. Mapped'
    BY <1>7 DEF RouteNewer, Mapped, bufferVars
  <2>4. HeadExact'
    BY <1>7 DEF RouteNewer, HeadExact, bufferVars
  <2>5. Calls'
    BY <1>7 DEF RouteNewer, bufferVars, idleVars, ProofTypes, Made, Mapped, Calls, HeadExact
  <2>6. Stopped'
    BY <1>7 DEF RouteNewer, bufferVars, idleVars, ProofTypes, Made, Mapped, Calls, Stopped,
                HeadExact, Active
  <2>7. Sending'
    BY <1>7 DEF RouteNewer, bufferVars, idleVars, ProofTypes, Made, Calls, Stopped, Sending
  <2>8. Alive'
    BY <1>7 DEF RouteNewer, bufferVars, idleVars, ProofTypes, Made, Mapped, HeadExact, Calls,
                Stopped, Alive, Active
  <2>. QED
    BY <2>1, <2>2, <2>3, <2>4, <2>5, <2>6, <2>7, <2>8
<1>8. ASSUME WaitReturns
      PROVE  BufferInv'
  <2>a. /\ pc = "wait" /\ Version[pack] \in Versions /\ head \in Versions
        /\ live[head] \in SequenceIds
        /\ run[live[head]] \in {"exited", "closing", "done"}
        /\ \A v \in Versions \ {head} : live[v] = 0
    BY <1>8 DEF WaitReturns, Exited, ProofTypes, HeadExact, Calls
  <2>b. Creates([live EXCEPT ![head] = 0]) /\ UNCHANGED <<cancelled, releases, idleVars>>
    BY <1>8 DEF WaitReturns
  <2>1. ProofTypes'
    BY <2>a, <2>b DEF Creates, Exited, idleVars, ProofTypes, RunStates, Calls
  <2>2. Made'
    BY <2>a, <2>b DEF Creates, Exited, idleVars, ProofTypes, Made, Calls, Mapped
  <2>3. Mapped'
    BY <2>a, <2>b DEF Creates, Exited, idleVars, ProofTypes, Made, Mapped, HeadExact, Calls
  <2>4. HeadExact'
    BY <2>a, <2>b DEF Creates, Exited, idleVars, ProofTypes, Made, Mapped, HeadExact, Calls
  <2>5. Calls'
    BY <2>a, <2>b DEF Creates, Exited, idleVars, ProofTypes, Made, Mapped, Calls, HeadExact
  <2>6. Stopped'
    BY <2>a, <2>b DEF Creates, Exited, idleVars, ProofTypes, Made, Mapped, Calls, Stopped,
                      HeadExact, Active
  <2>7. Sending'
    BY <2>a, <2>b DEF Creates, Exited, idleVars, ProofTypes, Made, Calls, Stopped, Sending
  <2>8. Alive'
    BY <2>a, <2>b DEF Creates, Exited, idleVars, ProofTypes, Made, Mapped, HeadExact, Calls,
                      Stopped, Alive, Active
  <2>. QED
    BY <2>1, <2>2, <2>3, <2>4, <2>5, <2>6, <2>7, <2>8
<1>9. ASSUME PackRejected
      PROVE  BufferInv'
  <2>1. ProofTypes'
    BY <1>9 DEF PackRejected, PackFails, Returns, Done, bufferVars, idleVars, ProofTypes,
                RunStates, Calls
  <2>2. Made'
    BY <1>9 DEF PackRejected, PackFails, Returns, Done, Made, bufferVars
  <2>3. Mapped'
    BY <1>9 DEF PackRejected, PackFails, Returns, Done, Mapped, bufferVars
  <2>4. HeadExact'
    BY <1>9 DEF PackRejected, PackFails, Returns, Done, HeadExact, bufferVars
  <2>5. Calls'
    BY <1>9 DEF PackRejected, PackFails, Returns, Done, bufferVars, idleVars, ProofTypes, Made,
                Mapped, Calls, HeadExact
  <2>6. Stopped'
    BY <1>9 DEF PackRejected, PackFails, Returns, Done, Stopped, idleVars
  <2>7. Sending'
    BY <1>9 DEF PackRejected, PackFails, Returns, Done, bufferVars, idleVars, ProofTypes, Made,
                Calls, Stopped, Sending
  <2>8. Alive'
    BY <1>9 DEF PackRejected, PackFails, Returns, Done, bufferVars, idleVars, ProofTypes, Made,
                Mapped, HeadExact, Calls, Stopped, Alive, Active
  <2>. QED
    BY <2>1, <2>2, <2>3, <2>4, <2>5, <2>6, <2>7, <2>8
<1>10. ASSUME PackEnters
      PROVE  BufferInv'
  <2>1. ProofTypes'
    BY <1>10 DEF PackEnters, UpdateOpen, Done, bufferVars, ProofTypes, RunStates, Calls
  <2>2. Made'
    BY <1>10 DEF PackEnters, UpdateOpen, Done, Made, bufferVars
  <2>3. Mapped'
    BY <1>10 DEF PackEnters, UpdateOpen, Done, Mapped, bufferVars
  <2>4. HeadExact'
    BY <1>10 DEF PackEnters, UpdateOpen, Done, HeadExact, bufferVars
  <2>5. Calls'
    BY <1>10 DEF PackEnters, UpdateOpen, Done, bufferVars, ProofTypes, Made, Mapped, Calls,
                 HeadExact
  <2>6. Stopped'
    BY <1>10 DEF PackEnters, UpdateOpen, Done, Stopped
  <2>7. Sending'
    BY <1>10 DEF PackEnters, UpdateOpen, Done, bufferVars, ProofTypes, Made, Calls, Stopped,
                 Sending
  <2>8. Alive'
    BY <1>10 DEF PackEnters, UpdateOpen, Done, bufferVars, ProofTypes, Made, Mapped, HeadExact,
                 Calls, Stopped, Alive, Active
  <2>. QED
    BY <2>1, <2>2, <2>3, <2>4, <2>5, <2>6, <2>7, <2>8
<1>11. ASSUME PackEnqueues
      PROVE  BufferInv'
  <2>1. ProofTypes'
    BY <1>11 DEF PackEnqueues, Returns, UpdateClose, bufferVars, ProofTypes, RunStates, Calls
  <2>2. Made'
    BY <1>11 DEF PackEnqueues, Returns, UpdateClose, Made, bufferVars
  <2>3. Mapped'
    BY <1>11 DEF PackEnqueues, Returns, UpdateClose, Mapped, bufferVars
  <2>4. HeadExact'
    BY <1>11 DEF PackEnqueues, Returns, UpdateClose, HeadExact, bufferVars
  <2>5. Calls'
    BY <1>11 DEF PackEnqueues, Returns, UpdateClose, bufferVars, ProofTypes, Made, Mapped, Calls,
                 HeadExact
  <2>6. Stopped'
    BY <1>11 DEF PackEnqueues, Returns, UpdateClose, Stopped
  <2>7. Sending'
    BY <1>11 DEF PackEnqueues, Returns, UpdateClose, bufferVars, ProofTypes, Made, Calls, Stopped,
                 Sending
  <2>8. Alive'
    BY <1>11 DEF PackEnqueues, Returns, UpdateClose, bufferVars, ProofTypes, Made, Mapped,
                 HeadExact, Calls, Stopped, Alive, Active
  <2>. QED
    BY <2>1, <2>2, <2>3, <2>4, <2>5, <2>6, <2>7, <2>8
<1>12. ASSUME PackTimesOut
      PROVE  BufferInv'
  <2>1. ProofTypes'
    BY <1>12 DEF PackTimesOut, Returns, UpdateClose, bufferVars, ProofTypes, RunStates, Calls
  <2>2. Made'
    BY <1>12 DEF PackTimesOut, Returns, UpdateClose, Made, bufferVars
  <2>3. Mapped'
    BY <1>12 DEF PackTimesOut, Returns, UpdateClose, Mapped, bufferVars
  <2>4. HeadExact'
    BY <1>12 DEF PackTimesOut, Returns, UpdateClose, HeadExact, bufferVars
  <2>5. Calls'
    BY <1>12 DEF PackTimesOut, Returns, UpdateClose, bufferVars, ProofTypes, Made, Mapped, Calls,
                 HeadExact
  <2>6. Stopped'
    BY <1>12 DEF PackTimesOut, Returns, UpdateClose, Stopped
  <2>7. Sending'
    BY <1>12 DEF PackTimesOut, Returns, UpdateClose, bufferVars, ProofTypes, Made, Calls, Stopped,
                 Sending
  <2>8. Alive'
    BY <1>12, ZenonT(30) DEF PackTimesOut, Returns, UpdateClose, bufferVars, ProofTypes, Made, Mapped,
                 HeadExact, Calls, Stopped, Alive, Active
  <2>. QED
    BY <2>1, <2>2, <2>3, <2>4, <2>5, <2>6, <2>7, <2>8
<1>13. ASSUME PackInterrupted
      PROVE  BufferInv'
  <2>1. ProofTypes'
    BY <1>13 DEF PackInterrupted, PackFails, Returns, UpdateClose, Done, bufferVars, ProofTypes,
                 RunStates, Calls
  <2>2. Made'
    BY <1>13 DEF PackInterrupted, PackFails, Returns, UpdateClose, Done, Made, bufferVars
  <2>3. Mapped'
    BY <1>13 DEF PackInterrupted, PackFails, Returns, UpdateClose, Done, Mapped, bufferVars
  <2>4. HeadExact'
    BY <1>13 DEF PackInterrupted, PackFails, Returns, UpdateClose, Done, HeadExact, bufferVars
  <2>5. Calls'
    BY <1>13 DEF PackInterrupted, PackFails, Returns, UpdateClose, Done, bufferVars, ProofTypes,
                 Made, Mapped, Calls, HeadExact
  <2>6. Stopped'
    BY <1>13 DEF PackInterrupted, PackFails, Returns, UpdateClose, Done, Stopped
  <2>7. Sending'
    BY <1>13 DEF PackInterrupted, PackFails, Returns, UpdateClose, Done, bufferVars, ProofTypes,
                 Made, Calls, Stopped, Sending
  <2>8. Alive'
    BY <1>13 DEF PackInterrupted, PackFails, Returns, UpdateClose, Done, bufferVars, ProofTypes,
                 Made, Mapped, HeadExact, Calls, Stopped, Alive, Active
  <2>. QED
    BY <2>1, <2>2, <2>3, <2>4, <2>5, <2>6, <2>7, <2>8
<1>14. ASSUME NEW s \in SequenceIds, Checkpoint(s)
      PROVE  BufferInv'
  <2>1. ProofTypes'
    BY <1>14 DEF Checkpoint, Goes, TakeCheckpoint, loopVars, bufferVars, ProofTypes, RunStates,
                 Calls
  <2>2. Made'
    BY <1>14 DEF Checkpoint, Goes, TakeCheckpoint, loopVars, bufferVars, ProofTypes, Made, Calls,
                 Mapped
  <2>3. Mapped'
    BY <1>14 DEF Checkpoint, Goes, TakeCheckpoint, Mapped, bufferVars
  <2>4. HeadExact'
    BY <1>14 DEF Checkpoint, Goes, TakeCheckpoint, HeadExact, bufferVars
  <2>5. Calls'
    BY <1>14 DEF Checkpoint, Goes, TakeCheckpoint, loopVars, bufferVars, ProofTypes, Made, Mapped,
                 Calls, HeadExact
  <2>6. Stopped'
    BY <1>14 DEF Checkpoint, Goes, TakeCheckpoint, loopVars, bufferVars, ProofTypes, Made, Mapped,
                 Calls, Stopped, HeadExact, Active
  <2>7. Sending'
    BY <1>14 DEF Checkpoint, Goes, TakeCheckpoint, loopVars, ProofTypes, Sending
  <2>8. Alive'
    BY <1>14 DEF Checkpoint, Goes, TakeCheckpoint, loopVars, bufferVars, ProofTypes, Made, Mapped,
                 HeadExact, Calls, Stopped, Alive, Active
  <2>. QED
    BY <2>1, <2>2, <2>3, <2>4, <2>5, <2>6, <2>7, <2>8
<1>15. ASSUME NEW s \in SequenceIds, TakePack(s)
      PROVE  BufferInv'
  <2>1. ProofTypes'
    BY <1>15 DEF TakePack, Goes, loopVars, bufferVars, idleVars, ProofTypes, RunStates, Calls
  <2>2. Made'
    BY <1>15 DEF TakePack, Goes, loopVars, bufferVars, idleVars, ProofTypes, Made, Calls, Mapped
  <2>3. Mapped'
    BY <1>15 DEF TakePack, Goes, Mapped, bufferVars
  <2>4. HeadExact'
    BY <1>15 DEF TakePack, Goes, HeadExact, bufferVars
  <2>5. Calls'
    BY <1>15 DEF TakePack, Goes, loopVars, bufferVars, idleVars, ProofTypes, Made, Mapped, Calls,
                 HeadExact
  <2>6. Stopped'
    BY <1>15 DEF TakePack, Goes, idleVars, ProofTypes, Stopped, Active
  <2>7. Sending'
    BY <1>15 DEF TakePack, Goes, loopVars, ProofTypes, Sending
  <2>8. Alive'
    BY <1>15 DEF TakePack, Goes, loopVars, bufferVars, idleVars, ProofTypes, Made, Mapped,
                 HeadExact, Calls, Stopped, Alive, Active
  <2>. QED
    BY <2>1, <2>2, <2>3, <2>4, <2>5, <2>6, <2>7, <2>8
<1>16. ASSUME NEW s \in SequenceIds, Settles(s)
      PROVE  BufferInv'
  <2>1. ProofTypes'
    BY <1>16, Zenon DEF Settles, Goes, RunReturns, loopVars, bufferVars, idleVars, ProofTypes, RunStates,
                 Calls
  <2>2. Made'
    BY <1>16, SMTT(30) DEF Settles, Goes, RunReturns, loopVars, bufferVars, idleVars, ProofTypes, Made,
                 Calls, Mapped
  <2>3. Mapped'
    BY <1>16 DEF Settles, Goes, RunReturns, Mapped, bufferVars
  <2>4. HeadExact'
    BY <1>16 DEF Settles, Goes, RunReturns, HeadExact, bufferVars
  <2>5. Calls'
    BY <1>16 DEF Settles, Goes, RunReturns, loopVars, bufferVars, idleVars, ProofTypes, Made,
                 Mapped, Calls, HeadExact
  <2>6. Stopped'
    BY <1>16 DEF Settles, Goes, RunReturns, loopVars, bufferVars, idleVars, ProofTypes, Made,
                 Mapped, Calls, Stopped, HeadExact, Active
  <2>7. Sending'
    <3>1. /\ UNCHANGED <<pc, seq, panicked>>
          /\ run' = [run EXCEPT ![s] = "top"] \/ run' = [run EXCEPT ![s] = "leaving"]
      BY <1>16, ZenonT(30) DEF Settles, Goes, RunReturns, loopVars
    <3>2. pc = "enqueue" => run'[seq] # "done"
      BY <3>1 DEF ProofTypes, Calls, Sending
    <3>. QED
      BY <3>1, <3>2, ZenonT(30) DEF Sending
  <2>8. Alive'
    BY <1>16, SMTT(30) DEF Settles, Goes, RunReturns, loopVars, bufferVars, idleVars, ProofTypes, Made,
                 Mapped, HeadExact, Calls, Stopped, Alive, Active
  <2>. QED
    BY <2>1, <2>2, <2>3, <2>4, <2>5, <2>6, <2>7, <2>8
<1>r. ASSUME NEW s \in SequenceIds, run[s] \in {"top", "select"}, RunReturns(s),
             UNCHANGED idleVars
      PROVE  BufferInv'
  <2>1. ProofTypes'
    BY <1>r DEF Goes, RunReturns, loopVars, bufferVars, idleVars, ProofTypes,
                 RunStates, Calls
  <2>2. Made'
    BY <1>r DEF Goes, RunReturns, loopVars, bufferVars, idleVars, ProofTypes, Made,
                 Calls, Mapped
  <2>3. Mapped'
    BY <1>r DEF Goes, RunReturns, Mapped, bufferVars
  <2>4. HeadExact'
    BY <1>r DEF Goes, RunReturns, HeadExact, bufferVars
  <2>5. Calls'
    BY <1>r DEF Goes, RunReturns, loopVars, bufferVars, idleVars, ProofTypes, Made,
                 Mapped, Calls, HeadExact
  <2>6. Stopped'
    BY <1>r DEF Goes, RunReturns, loopVars, bufferVars, idleVars, ProofTypes, Made,
                 Mapped, Calls, Stopped, HeadExact, Active
  <2>7. Sending'
    BY <1>r, SMTT(30) DEF Goes, RunReturns, loopVars, ProofTypes, Sending
  <2>8. Alive'
    BY <1>r, SMTT(30) DEF Goes, RunReturns, loopVars, bufferVars, idleVars, ProofTypes, Made,
                 Mapped, HeadExact, Calls, Stopped, Alive, Active
  <2>. QED
    BY <2>1, <2>2, <2>3, <2>4, <2>5, <2>6, <2>7, <2>8
<1>17. ASSUME NEW s \in SequenceIds, RunCancelled(s) \/ GapTimeout(s)
      PROVE  BufferInv'
  <2>1. run[s] \in {"top", "select"} /\ RunReturns(s) /\ UNCHANGED idleVars
    BY <1>17, Zenon DEF RunCancelled, GapTimeout
  <2>. QED
    BY <1>r, <2>1
<1>18. ASSUME NEW s \in SequenceIds, IdleFires(s)
      PROVE  BufferInv'
  <2>1. ProofTypes'
    BY <1>18, ZenonT(30) DEF IdleFires, Goes, loopVars, bufferVars, idleVars, ProofTypes, RunStates, Calls
  <2>2. Made'
    BY <1>18, SMTT(30) DEF IdleFires, Goes, loopVars, bufferVars, idleVars, ProofTypes, Made, Calls, Mapped
  <2>3. Mapped'
    BY <1>18 DEF IdleFires, Goes, Mapped, bufferVars
  <2>4. HeadExact'
    BY <1>18, ZenonT(30) DEF IdleFires, Goes, HeadExact, bufferVars
  <2>5. Calls'
    BY <1>18, SMTT(30) DEF IdleFires, Goes, loopVars, bufferVars, idleVars, ProofTypes, Made, Mapped, Calls,
                 HeadExact
  <2>6. Stopped'
    BY <1>18, SMTT(30) DEF IdleFires, Goes, loopVars, bufferVars, idleVars, ProofTypes, Made, Mapped, Calls,
                 Stopped, HeadExact, Active
  <2>7. Sending'
    BY <1>18, SMTT(30) DEF IdleFires, Goes, loopVars, ProofTypes, Sending
  <2>8. Alive'
    BY <1>18 DEF IdleFires, Goes, loopVars, bufferVars, idleVars, ProofTypes, Made, Mapped,
                 HeadExact, Calls, Stopped, Alive, Active
  <2>. QED
    BY <2>1, <2>2, <2>3, <2>4, <2>5, <2>6, <2>7, <2>8
<1>19. ASSUME NEW s \in SequenceIds, IdleCloses(s)
      PROVE  BufferInv'
  <2>1. ProofTypes'
    BY <1>19, Zenon DEF IdleCloses, Goes, RunReturns, CloseIdle, loopVars, bufferVars, idleVars,
                 ProofTypes, RunStates, Calls
  <2>2. Made'
    BY <1>19 DEF IdleCloses, Goes, RunReturns, CloseIdle, loopVars, bufferVars, idleVars,
                 ProofTypes, Made, Calls, Mapped
  <2>3. Mapped'
    BY <1>19 DEF IdleCloses, Goes, RunReturns, CloseIdle, Mapped, bufferVars
  <2>4. HeadExact'
    BY <1>19 DEF IdleCloses, Goes, RunReturns, CloseIdle, HeadExact, bufferVars
  <2>5. Calls'
    BY <1>19, SMTT(30) DEF IdleCloses, Goes, RunReturns, CloseIdle, loopVars, bufferVars, idleVars,
                 ProofTypes, Made, Mapped, Calls, HeadExact
  <2>6. Stopped'
    BY <1>19 DEF IdleCloses, Goes, RunReturns, CloseIdle, loopVars, bufferVars, idleVars,
                 ProofTypes, Made, Mapped, Calls, Stopped, HeadExact, Active
  <2>7. Sending'
    <3>1. /\ UNCHANGED <<pc, seq, panicked>>
          /\ run' = [run EXCEPT ![s] = "top"] \/ run' = [run EXCEPT ![s] = "leaving"]
      BY <1>19, ZenonT(30) DEF IdleCloses, Goes, RunReturns, loopVars
    <3>2. pc = "enqueue" => run'[seq] # "done"
      BY <3>1 DEF ProofTypes, Calls, Sending
    <3>. QED
      BY <3>1, <3>2 DEF Sending
  <2>8. Alive'
    BY <1>19, SMTT(30) DEF IdleCloses, Goes, RunReturns, CloseIdle, loopVars, bufferVars, idleVars,
                 ProofTypes, Made, Mapped, HeadExact, Calls, Stopped, Alive, Active
  <2>. QED
    BY <2>1, <2>2, <2>3, <2>4, <2>5, <2>6, <2>7, <2>8
<1>20. ASSUME NEW s \in SequenceIds, RunExits(s)
      PROVE  BufferInv'
  <2>1. ProofTypes'
    BY <1>20 DEF RunExits, Goes, loopVars, bufferVars, idleVars, ProofTypes, RunStates, Calls
  <2>2. Made'
    BY <1>20 DEF RunExits, Goes, loopVars, bufferVars, idleVars, ProofTypes, Made, Calls, Mapped
  <2>3. Mapped'
    BY <1>20 DEF RunExits, Goes, Mapped, bufferVars
  <2>4. HeadExact'
    BY <1>20, ZenonT(30) DEF RunExits, Goes, HeadExact, bufferVars
  <2>5. Calls'
    BY <1>20, SMTT(30) DEF RunExits, Goes, loopVars, bufferVars, idleVars, ProofTypes, Made, Mapped, Calls,
                 HeadExact
  <2>6. Stopped'
    BY <1>20 DEF RunExits, Goes, loopVars, bufferVars, idleVars, ProofTypes, Made, Mapped, Calls,
                 Stopped, HeadExact, Active
  <2>7. Sending'
    BY <1>20, SMTT(30) DEF RunExits, Goes, loopVars, ProofTypes, Sending
  <2>8. Alive'
    BY <1>20, SMTT(30) DEF RunExits, Goes, loopVars, bufferVars, idleVars, ProofTypes, Made, Mapped,
                 HeadExact, Calls, Stopped, Alive, Active
  <2>. QED
    BY <2>1, <2>2, <2>3, <2>4, <2>5, <2>6, <2>7, <2>8
<1>21. ASSUME NEW s \in SequenceIds, CleanupLocks(s)
      PROVE  BufferInv'
  <2>1. ProofTypes'
    BY <1>21 DEF CleanupLocks, MutexFree, loopVars, idleVars, ProofTypes, RunStates, Calls
  <2>2. Made'
    BY <1>21 DEF CleanupLocks, MutexFree, loopVars, idleVars, ProofTypes, Made, Calls, Mapped
  <2>3. Mapped'
    BY <1>21 DEF CleanupLocks, MutexFree, Mapped
  <2>4. HeadExact'
    BY <1>21 DEF CleanupLocks, MutexFree, HeadExact
  <2>5. Calls'
    BY <1>21, SMTT(30) DEF CleanupLocks, MutexFree, loopVars, idleVars, ProofTypes, Made, Mapped, Calls,
                 HeadExact
  <2>6. Stopped'
    BY <1>21 DEF CleanupLocks, MutexFree, loopVars, idleVars, ProofTypes, Made, Mapped, Calls,
                 Stopped, HeadExact, Active
  <2>7. Sending'
    BY <1>21, SMTT(30) DEF CleanupLocks, MutexFree, loopVars, ProofTypes, Sending
  <2>8. Alive'
    BY <1>21 DEF CleanupLocks, MutexFree, loopVars, idleVars, ProofTypes, Made, Mapped, HeadExact,
                 Calls, Stopped, Alive, Active
  <2>. QED
    BY <2>1, <2>2, <2>3, <2>4, <2>5, <2>6, <2>7, <2>8
<1>22. ASSUME NEW s \in SequenceIds, CleanupCloses(s)
      PROVE  BufferInv'
  <2>1. ProofTypes'
    BY <1>22, Zenon DEF CleanupCloses, CloseHasLock, HoldsPackMutex, Unmaps, loopVars, idleVars,
                 ProofTypes, RunStates, Calls
  <2>2. Made'
    BY <1>22 DEF CleanupCloses, CloseHasLock, HoldsPackMutex, Unmaps, ProofTypes, Made, Mapped
  <2>3. Mapped'
    BY <1>22, SMTT(30) DEF CleanupCloses, CloseHasLock, HoldsPackMutex, Unmaps, loopVars, idleVars,
                 ProofTypes, Made, Mapped, HeadExact, Calls
  <2>4. HeadExact'
    BY <1>22 DEF CleanupCloses, CloseHasLock, HoldsPackMutex, Unmaps, loopVars, idleVars,
                 ProofTypes, Made, Mapped, HeadExact, Calls
  <2>5. Calls'
    BY <1>22, SMTT(30) DEF CleanupCloses, CloseHasLock, HoldsPackMutex, Unmaps, loopVars, idleVars,
                 ProofTypes, Made, Mapped, Calls, HeadExact
  <2>6. Stopped'
    BY <1>22 DEF CleanupCloses, CloseHasLock, HoldsPackMutex, Unmaps, loopVars, idleVars,
                 ProofTypes, Made, Mapped, Calls, Stopped, HeadExact, Active
  <2>7. Sending'
    BY <1>22, ZenonT(30) DEF CleanupCloses, CloseHasLock, HoldsPackMutex, Unmaps, loopVars, idleVars,
                 ProofTypes, Made, Calls, Stopped, Sending
  <2>8. Alive'
    BY <1>22, SMTT(30) DEF CleanupCloses, CloseHasLock, HoldsPackMutex, Unmaps, loopVars, idleVars,
                 ProofTypes, Made, Mapped, HeadExact, Calls, Stopped, Alive, Active
  <2>. QED
    BY <2>1, <2>2, <2>3, <2>4, <2>5, <2>6, <2>7, <2>8
<1>23. ASSUME Flush
      PROVE  BufferInv'
  <2>1. ProofTypes'
    BY <1>23 DEF Flush, MutexFree, loopVars, idleVars, ProofTypes, RunStates, Calls
  <2>2. Made'
    BY <1>23 DEF Flush, MutexFree, ProofTypes, Made, Mapped
  <2>3. Mapped'
    BY <1>23 DEF Flush, MutexFree, Mapped
  <2>4. HeadExact'
    BY <1>23 DEF Flush, MutexFree, HeadExact
  <2>5. Calls'
    BY <1>23 DEF Flush, MutexFree, Calls, loopVars
  <2>6. Stopped'
    BY <1>23 DEF Flush, MutexFree, loopVars, idleVars, ProofTypes, Made, Mapped, Calls, Stopped,
                 HeadExact, Active
  <2>7. Sending'
    BY <1>23, ZenonT(30) DEF Flush, MutexFree, Sending, loopVars
  <2>8. Alive'
    BY <1>23 DEF Flush, MutexFree, loopVars, idleVars, ProofTypes, Made, Mapped, HeadExact, Calls,
                 Stopped, Alive, Active
  <2>. QED
    BY <2>1, <2>2, <2>3, <2>4, <2>5, <2>6, <2>7, <2>8
<1>24. ASSUME Close
      PROVE  BufferInv'
  <2>1. ProofTypes'
    BY <1>24 DEF Close, ProofTypes, loopVars, idleVars
  <2>2. Made'
    BY <1>24 DEF Close, Made
  <2>3. Mapped'
    BY <1>24 DEF Close, Mapped
  <2>4. HeadExact'
    BY <1>24 DEF Close, HeadExact
  <2>5. Calls'
    BY <1>24 DEF Close, Calls, loopVars
  <2>6. Stopped'
    BY <1>24 DEF Close, Stopped, idleVars
  <2>7. Sending'
    BY <1>24, ZenonT(30) DEF Close, Sending, loopVars
  <2>8. Alive'
    BY <1>24, ZenonT(30) DEF Close, loopVars, idleVars, ProofTypes, Made, Mapped, HeadExact, Calls, Stopped,
                 Alive, Active
  <2>. QED
    BY <2>1, <2>2, <2>3, <2>4, <2>5, <2>6, <2>7, <2>8
<1>25. CASE UNCHANGED vars
    BY <1>25 DEF vars, loopVars, bufferVars, idleVars, ProofTypes, Made, Mapped, HeadExact, Calls,
                Stopped, Sending, Alive, Active
<1>. QED
    BY <1>1, <1>2, <1>3, <1>4, <1>5, <1>6, <1>7, <1>8, <1>9, <1>10, <1>11, <1>12, <1>13,
       <1>14, <1>15, <1>16, <1>17, <1>18, <1>19, <1>20, <1>21, <1>22, <1>23, <1>24, <1>25
    DEF Next, Progress, Route, Call, Run

\* The inductive invariant holds throughout.
LEMMA BufferInvariant == Spec => []BufferInv
<1>1. Init => BufferInv
  <2>. SUFFICES ASSUME Init
                PROVE  BufferInv
      OBVIOUS
  <2>1. ProofTypes
      BY SequenceFacts DEF Init, IdleInit, ProofTypes, RunStates
  <2>2. Made /\ Mapped /\ HeadExact
      BY VersionFacts, SequenceFacts DEF Init, Made, Mapped, HeadExact
  <2>3. Calls /\ Stopped /\ Sending /\ Alive
      BY SequenceFacts DEF Init, IdleInit, Calls, Stopped, Sending, Alive, Active
  <2>. QED
      BY <2>1, <2>2, <2>3 DEF BufferInv
<1>. QED
    BY <1>1, InvariantPreserved, PTL DEF Spec

\* The map of sequences and the map of heads agree whatever packs arrive, and
\* whenever sequences end: a version is mapped exactly while it is the head.
THEOREM HeadAgrees == Spec => []HeadExact
BY BufferInvariant, PTL DEF BufferInv

\* Pack never sends on the closed channel of a sequence.
THEOREM ReceiveNeverSendsOnClosed == Spec => []NoSendOnClosed
<1>1. BufferInv => NoSendOnClosed
    BY DEF BufferInv, Sending, NoSendOnClosed
<1>. QED
    BY <1>1, BufferInvariant, PTL

\* Without Flush, no sequence of an older version delivers while one of a newer
\* version runs.
THEOREM VersionsStayOrdered == Spec => []OrderedUnlessFlushed
<1>1. BufferInv => OrderedUnlessFlushed
  <2>. SUFFICES ASSUME BufferInv, flushes = 0,
                       NEW s \in SequenceIds, NEW t \in SequenceIds,
                       run[s] = "deliver",
                       run[t] \in {"top", "select", "deliver", "locking"}
                PROVE  version[s] >= version[t]
      BY DEF OrderedUnlessFlushed, Ordered
  <2>1. Active(s) /\ Active(t)
      BY DEF Active
  <2>2. version[s] \in Versions /\ version[t] \in Versions
      BY <2>1, SMTT(30) DEF BufferInv, Made, Active, ProofTypes, SequenceIds
  <2>3. live[version[s]] = s /\ live[version[t]] = t
      BY <2>1, ZenonT(30) DEF BufferInv, Alive
  <2>4. version[s] = head /\ version[t] = head
    <3>1. s # 0 /\ t # 0
        BY SequenceFacts
    <3>2. live[version[s]] # 0 /\ live[version[t]] # 0
        BY <2>3, <3>1
    <3>3. \A v \in Versions : live[v] # 0 => head = v
        BY Zenon DEF BufferInv, HeadExact
    <3>. QED
        BY <2>2, <3>2, <3>3, ZenonT(30)
  <2>. QED
      BY <2>2, <2>4, VersionFacts
<1>. QED
    BY <1>1, BufferInvariant, PTL

-----------------------------------------------------------------------------
(* The types of the state that the argument above leaves open.  *)

RestTypes ==
    /\ clientDone \in BOOLEAN
    /\ flushes \in 0 .. MaxFlushes
    /\ retried \in BOOLEAN
    /\ packs \in [SequenceIds -> Seq(Packs)]
    /\ \A s \in SequenceIds : Len(packs[s]) <= BufferSize
    /\ inRun \in [SequenceIds -> Packs \cup {None}]
    /\ came \subseteq Packs
    /\ releases \in [Packs -> Nat]
    /\ panicked \in BOOLEAN
    /\ IdleTypeOK

\* Counting a release keeps the counts' type.
LEMMA ReleasedType ==
    ASSUME releases \in [Packs -> Nat], NEW P
    PROVE  Released(P) \in [Packs -> Nat]
  BY DEF Released

\* Every step keeps them.
LEMMA RestPreserved == BufferInv /\ RestTypes /\ [Next]_vars => RestTypes'
<1>. SUFFICES ASSUME BufferInv, RestTypes, [Next]_vars PROVE RestTypes'
    OBVIOUS
<1>. USE ReceiveBufferAssumption
<1>0. /\ releases \in [Packs -> Nat] /\ Released({pack}) \in [Packs -> Nat]
      /\ Dropped \in [Packs -> Nat]
      /\ \A s \in SequenceIds : /\ Released({inRun[s]}) \in [Packs -> Nat]
                                /\ Released(Queued(s)) \in [Packs -> Nat]
    BY ReleasedType DEF RestTypes, Dropped
<1>1. ASSUME NEW p \in Packs, Arrives(p) PROVE RestTypes'
    BY <1>1, ZenonT(30) DEF Arrives, RestTypes, IdleTypeOK, bufferVars, idleVars
<1>2. ASSUME RouteDone \/ RouteOlder PROVE RestTypes'
  <2>1. /\ releases' \in [Packs -> Nat] /\ retried' = FALSE /\ came' = came
        /\ UNCHANGED <<bufferVars, packs, inRun, panicked, idleVars>>
      BY <1>0, <1>2, ZenonT(30) DEF RouteDone, RouteOlder, Returns
  <2>. QED
      BY <2>1, ZenonT(30) DEF RestTypes, IdleTypeOK, bufferVars, idleVars
<1>3. ASSUME RouteFound \/ RouteCreates \/ RouteNewer \/ WaitReturns PROVE RestTypes'
  <2>1. UNCHANGED <<clientDone, flushes, retried, packs, inRun, came, releases, panicked, idleVars>>
      BY <1>3 DEF RouteFound, RouteCreates, RouteNewer, WaitReturns, Creates, bufferVars
  <2>. QED
      BY <2>1 DEF RestTypes, IdleTypeOK, idleVars
<1>4. ASSUME RouteSkips PROVE RestTypes'
  <2>1. /\ UNCHANGED <<clientDone, flushes, packs, inRun, came, panicked, idleVars>>
        /\ retried' \in BOOLEAN /\ releases' \in [Packs -> Nat]
      BY <1>0, <1>4, ZenonT(30) DEF RouteSkips, Creates, Returns, bufferVars, RestTypes
  <2>. QED
      BY <2>1 DEF RestTypes, IdleTypeOK, idleVars
<1>5. ASSUME PackRejected PROVE RestTypes'
  <2>1. /\ UNCHANGED <<clientDone, flushes, packs, inRun, came, panicked, idleVars>>
        /\ retried' \in BOOLEAN /\ releases' \in [Packs -> Nat]
      BY <1>0, <1>5, ZenonT(30) DEF PackRejected, PackFails, Returns, bufferVars, RestTypes
  <2>. QED
      BY <2>1 DEF RestTypes, IdleTypeOK, idleVars
<1>6. ASSUME PackEnters PROVE RestTypes'
  <2>1. pack \in Packs /\ seq \in SequenceIds
      BY <1>6 DEF PackEnters, BufferInv, Calls, ProofTypes
  <2>2. IdleTypeOK'
      BY <1>6, <2>1 DEF PackEnters, UpdateOpen, RestTypes, IdleTypeOK, Packs
  <2>. QED
      BY <1>6, <2>2 DEF PackEnters, RestTypes, bufferVars
<1>7. ASSUME UpdateClose(seq, pack) PROVE IdleTypeOK'
    BY <1>7, ZenonT(30) DEF UpdateClose, RestTypes, IdleTypeOK
<1>8. ASSUME PackEnqueues PROVE RestTypes'
  <2>1. pack \in Packs /\ seq \in SequenceIds /\ run[seq] # "done"
      BY <1>8 DEF PackEnqueues, BufferInv, Calls, ProofTypes, Sending
  <2>2. /\ packs' = [packs EXCEPT ![seq] = Append(@, pack)]
        /\ Len(packs[seq]) < BufferSize
      BY <1>8, <2>1 DEF PackEnqueues, HasRoom
  <2>3. packs[seq] \in Seq(Packs)
      BY <2>1 DEF RestTypes
  <2>4. Append(packs[seq], pack) \in Seq(Packs) /\ Len(Append(packs[seq], pack)) <= BufferSize
      BY <2>1, <2>2, <2>3
  <2>5. /\ packs' \in [SequenceIds -> Seq(Packs)]
        /\ \A s \in SequenceIds : Len(packs'[s]) <= BufferSize
      BY <2>1, <2>2, <2>4 DEF RestTypes
  <2>6. /\ UNCHANGED <<clientDone, flushes, inRun, came, panicked, releases>>
        /\ retried' = FALSE /\ UpdateClose(seq, pack)
      BY <1>8, <2>1 DEF PackEnqueues, Returns, bufferVars
  <2>. QED
      BY <1>7, <2>5, <2>6, ZenonT(30) DEF RestTypes
<1>9. ASSUME PackTimesOut \/ PackInterrupted PROVE RestTypes'
  <2>1. /\ UNCHANGED <<clientDone, flushes, packs, inRun, came, panicked>>
        /\ retried' \in BOOLEAN /\ releases' \in [Packs -> Nat] /\ UpdateClose(seq, pack)
      BY <1>0, <1>9, ZenonT(30) DEF PackTimesOut, PackInterrupted, PackFails, Returns, bufferVars, RestTypes
  <2>. QED
      BY <1>7, <2>1 DEF RestTypes
<1>10. ASSUME NEW s \in SequenceIds, Checkpoint(s) PROVE RestTypes'
  <2>1. UNCHANGED <<clientDone, flushes, retried, packs, inRun, came, releases, panicked>>
      BY <1>10 DEF Checkpoint, Goes, loopVars, bufferVars
  <2>2. IdleTypeOK'
      BY <1>10 DEF Checkpoint, TakeCheckpoint, RestTypes, IdleTypeOK
  <2>. QED
      BY <2>1, <2>2 DEF RestTypes
<1>11. ASSUME NEW s \in SequenceIds, TakePack(s) PROVE RestTypes'
  <2>1. packs[s] \in Seq(Packs) /\ packs[s] # <<>> /\ Len(packs[s]) <= BufferSize
      BY <1>11 DEF TakePack, RestTypes
  <2>2. /\ Head(packs[s]) \in Packs /\ Tail(packs[s]) \in Seq(Packs)
        /\ Len(Tail(packs[s])) <= BufferSize
      BY <2>1
  <2>3. /\ packs' = [packs EXCEPT ![s] = Tail(packs[s])]
        /\ inRun' = [inRun EXCEPT ![s] = Head(packs[s])]
        /\ UNCHANGED <<clientDone, flushes, retried, came, releases, panicked, idleVars>>
      BY <1>11 DEF TakePack, Goes, loopVars, bufferVars
  <2>4. /\ packs' \in [SequenceIds -> Seq(Packs)]
        /\ \A t \in SequenceIds : Len(packs'[t]) <= BufferSize
        /\ inRun' \in [SequenceIds -> Packs \cup {None}]
      BY <2>2, <2>3 DEF RestTypes
  <2>. QED
      BY <2>3, <2>4 DEF RestTypes, IdleTypeOK, idleVars
<1>12. ASSUME NEW s \in SequenceIds, Settles(s) PROVE RestTypes'
  <2>1. /\ UNCHANGED <<clientDone, flushes, retried, packs, came, panicked, idleVars>>
        /\ releases' \in [Packs -> Nat] /\ inRun' = [inRun EXCEPT ![s] = None]
      BY <1>0, <1>12, ZenonT(30) DEF Settles, RunReturns, Goes, loopVars, bufferVars
  <2>. QED
      BY <2>1 DEF RestTypes, IdleTypeOK, idleVars
<1>13. ASSUME NEW s \in SequenceIds,
              RunCancelled(s) \/ GapTimeout(s) \/ IdleFires(s) \/ RunExits(s)
              \/ CleanupLocks(s)
       PROVE  RestTypes'
  <2>1. UNCHANGED <<clientDone, flushes, retried, packs, inRun, came, releases, panicked, idleVars>>
      BY <1>13 DEF RunCancelled, GapTimeout, IdleFires, RunExits, CleanupLocks, RunReturns, Goes, loopVars,
         bufferVars
  <2>. QED
      BY <2>1, ZenonT(30) DEF RestTypes, IdleTypeOK, idleVars
<1>14. ASSUME NEW s \in SequenceIds, IdleCloses(s) PROVE RestTypes'
  <2>1. UNCHANGED <<clientDone, flushes, retried, packs, inRun, came, releases, panicked>>
      BY <1>14 DEF IdleCloses, RunReturns, Goes, loopVars, bufferVars
  <2>2. IdleTypeOK'
      BY <1>14, ZenonT(30) DEF IdleCloses, CloseIdle, RestTypes, IdleTypeOK, idleVars
  <2>. QED
      BY <2>1, <2>2 DEF RestTypes
<1>15. ASSUME NEW s \in SequenceIds, CleanupCloses(s) PROVE RestTypes'
  <2>1. /\ packs' = [packs EXCEPT ![s] = <<>>] /\ releases' \in [Packs -> Nat]
        /\ UNCHANGED <<clientDone, flushes, retried, inRun, came, panicked, idleVars>>
      BY <1>0, <1>15, ZenonT(30) DEF CleanupCloses, Drains, loopVars
  <2>2. /\ packs' \in [SequenceIds -> Seq(Packs)]
        /\ \A t \in SequenceIds : Len(packs'[t]) <= BufferSize
      BY <2>1 DEF RestTypes
  <2>. QED
      BY <2>1, <2>2 DEF RestTypes, IdleTypeOK, idleVars
<1>16. ASSUME Flush PROVE RestTypes'
  <2>1. /\ UNCHANGED <<clientDone, retried, packs, inRun, came, releases, panicked, idleVars>>
        /\ flushes < MaxFlushes /\ flushes' = flushes + 1
      BY <1>16 DEF Flush, loopVars
  <2>. QED
      BY <2>1 DEF RestTypes, IdleTypeOK, idleVars
<1>17. ASSUME Close PROVE RestTypes'
    BY <1>17 DEF Close, loopVars, RestTypes, IdleTypeOK, idleVars
<1>18. CASE UNCHANGED vars
    BY <1>18 DEF vars, loopVars, bufferVars, RestTypes, IdleTypeOK, idleVars
<1>. QED
    BY <1>1, <1>2, <1>3, <1>4, <1>5, <1>6, <1>8, <1>9, <1>10, <1>11, <1>12, <1>13, <1>14,
       <1>15, <1>16, <1>17, <1>18 DEF Next, Progress, Route, Call, Run

\* The rest of the types is an invariant.
LEMMA RestInvariant == Spec => []RestTypes
<1>1. Init => RestTypes
  <2>. SUFFICES ASSUME Init PROVE RestTypes
      OBVIOUS
  <2>1. packs \in [SequenceIds -> Seq(Packs)] /\ \A s \in SequenceIds : packs[s] = <<>>
      BY DEF Init
  <2>2. \A s \in SequenceIds : Len(packs[s]) <= BufferSize
      BY <2>1, ReceiveBufferAssumption
  <2>3. IdleTypeOK /\ 0 \in 0 .. MaxFlushes
      BY ReceiveBufferAssumption DEF Init, IdleInit, IdleTypeOK
  <2>. QED
      BY <2>1, <2>2, <2>3, ZenonT(30) DEF Init, RestTypes
<1>. QED
    BY <1>1, RestPreserved, BufferInvariant, PTL DEF Spec

HoldingType == holding \in [SequenceIds -> BOOLEAN]

\* Whether the hold of a sequence is empty is a truth value.
LEMMA HoldingTyped == Spec => []HoldingType
<1>1. Init => HoldingType
    BY DEF Init, HoldingType
<1>2. HoldingType /\ [Next]_vars => HoldingType'
  <2>. SUFFICES ASSUME holding \in [SequenceIds -> BOOLEAN], [Next]_vars
                PROVE  holding' \in [SequenceIds -> BOOLEAN]
      BY DEF HoldingType
  <2>1. ASSUME NEW p \in Packs, Arrives(p) PROVE UNCHANGED holding
      BY <2>1 DEF Arrives
  <2>2. CASE Route \/ Call
      BY <2>2, ZenonT(30) DEF Route, Call, RouteDone, RouteFound, RouteOlder, RouteCreates, RouteSkips,
         RouteNewer, WaitReturns, Creates, PackRejected, PackEnters, PackEnqueues, PackTimesOut,
         PackInterrupted
  <2>3. ASSUME NEW s \in SequenceIds, Settles(s) PROVE holding' \in [SequenceIds -> BOOLEAN]
    <3>1. holding' = holding \/ \E empty \in BOOLEAN : holding' = [holding EXCEPT ![s] = ~empty]
        BY <2>3, Zenon DEF Settles
    <3>. QED
        BY <3>1, ZenonT(30)
  <2>4. ASSUME NEW s \in SequenceIds, Run(s), ~Settles(s) PROVE UNCHANGED holding
      BY <2>4, ZenonT(30) DEF Run, Checkpoint, TakePack, GapTimeout, RunCancelled, IdleFires,
         IdleCloses, RunExits, CleanupLocks, CleanupCloses
  <2>5. CASE Flush \/ Close \/ UNCHANGED vars
      BY <2>5, Zenon DEF Flush, Close, vars
  <2>. QED
      BY <2>1, <2>2, <2>3, <2>4, <2>5 DEF Next, Progress
<1>. QED
    BY <1>1, <1>2, PTL DEF Spec

\* The maps, the channels, the condition and the counts keep their types: no
\* channel holds more than BufferSize packs.
THEOREM ReceiveBufferTypes == Spec => []TypeOK
<1>1. BufferInv /\ RestTypes /\ HoldingType => TypeOK
    BY ZenonT(30) DEF BufferInv, ProofTypes, RestTypes, HoldingType, TypeOK
<1>. QED
    BY <1>1, BufferInvariant, RestInvariant, HoldingTyped, PTL

-----------------------------------------------------------------------------
(* Where a pack is: in the hands of the receive loop, in one channel, in the *)
(* hands of one Run, or let go of.                                           *)

LOCAL INSTANCE DataTheorems

Placed(p) ==
    \/ pack = p
    \/ \E s \in SequenceIds : p \in Queued(s) \/ inRun[s] = p

OnePlace(p) ==
    \A s, t \in SequenceIds :
        /\ p \in Queued(s) /\ p \in Queued(t) => s = t
        /\ inRun[s] = p /\ inRun[t] = p => s = t
        /\ ~(p \in Queued(s) /\ inRun[t] = p)
        /\ pack = p => p \notin Queued(s) /\ inRun[s] # p

\* A pack that came is in a place or was let go of once; one that did not is
\* nowhere.
Accounted(p) ==
    /\ Placed(p) => p \in came /\ releases[p] = 0
    /\ p \in came /\ ~Placed(p) => releases[p] = 1
    /\ p \notin came => releases[p] = 0

\* Hands are free when a pack is taken into them.
Hands ==
    /\ pack = None <=> pc = "idle"
    /\ \A s \in SequenceIds : inRun[s] = None <=> run[s] # "deliver"

OwnInv ==
    /\ Hands
    /\ \A s \in SequenceIds : NoDup(packs[s])
    /\ \A p \in Packs : OnePlace(p) /\ Accounted(p)

\* A step that moves no pack.
LEMMA StaysOwned ==
    ASSUME OwnInv, UNCHANGED <<packs, inRun, pack, came, releases>>,
           pc' = "idle" <=> pc = "idle",
           \A s \in SequenceIds : run'[s] = "deliver" <=> run[s] = "deliver"
    PROVE  OwnInv'
<1>1. \A s \in SequenceIds : Queued(s)' = Queued(s)
    BY DEF Queued
<1>2. Hands'
    BY ZenonT(30) DEF OwnInv, Hands
<1>3. ASSUME NEW p \in Packs PROVE OnePlace(p)' /\ Accounted(p)'
  <2>1. OnePlace(p)'
      BY <1>1 DEF OwnInv, OnePlace
  <2>2. Placed(p)' <=> Placed(p)
      BY <1>1 DEF Placed
  <2>3. Accounted(p)'
      BY <2>2, ZenonT(30) DEF OwnInv, Accounted
  <2>. QED
      BY <2>1, <2>3, ZenonT(30)
<1>. QED
    BY <1>2, <1>3, ZenonT(30) DEF OwnInv

\* A step that takes the packs P from their places and lets go of each once.
LEMMA LetGo ==
    ASSUME RestTypes, OwnInv, NEW P \in SUBSET Packs, \A p \in P : Placed(p),
           releases' = Released(P), came' = came,
           \A p \in Packs :
              /\ pack' = p <=> pack = p /\ p \notin P
              /\ \A s \in SequenceIds : /\ p \in Queued(s)' <=> p \in Queued(s) /\ p \notin P
                                        /\ inRun'[s] = p <=> inRun[s] = p /\ p \notin P
    PROVE  \A p \in Packs : OnePlace(p)' /\ Accounted(p)'
<1>1. ASSUME NEW p \in Packs PROVE OnePlace(p)'
    BY ZenonT(30) DEF OwnInv, OnePlace
<1>2. ASSUME NEW p \in Packs PROVE Accounted(p)'
  <2>1. CASE p \in P
    <3>1. ~Placed(p)' /\ Placed(p)
        BY <2>1, ZenonT(30) DEF Placed
    <3>2. releases'[p] = releases[p] + 1
        BY <2>1, ZenonT(30) DEF Released
    <3>3. p \in came /\ releases[p] = 0
        BY <3>1, ZenonT(30) DEF OwnInv, Accounted
    <3>4. releases'[p] = 1
        BY <3>2, <3>3
    <3>. QED
        BY <3>1, <3>3, <3>4, ZenonT(30) DEF Accounted
  <2>2. CASE p \notin P
    <3>1. Placed(p)' <=> Placed(p)
        BY <2>2 DEF Placed
    <3>2. releases'[p] = releases[p]
        BY <2>2 DEF Released, RestTypes
    <3>. QED
        BY <3>1, <3>2, ZenonT(30) DEF OwnInv, Accounted
  <2>. QED
      BY <2>1, <2>2, ZenonT(30)
<1>. QED
    BY <1>1, <1>2, ZenonT(30)

\* Pack returns with the pack let go of, and nothing else moves.
LEMMA ReturnsOwned ==
    ASSUME RestTypes, OwnInv, pack \in Packs, Returns(Released({pack})),
           UNCHANGED <<packs, inRun, run>>
    PROVE  OwnInv'
<1>0. PICK h \in Packs : h = pack
    OBVIOUS
<1>1. pack' = None /\ None \notin Packs /\ pc' = "idle" /\ came' = came
    BY ReceiveBufferAssumption, ZenonT(30) DEF Returns, Packs
<1>2. \A s \in SequenceIds : Queued(s)' = Queued(s) /\ h \notin Queued(s) /\ inRun[s] # h
    BY <1>0, ZenonT(30) DEF OwnInv, OnePlace, Queued
<1>3. (\A p \in {h} : Placed(p)) /\ releases' = Released({h}) /\ {h} \in SUBSET Packs
    BY <1>0 DEF Placed, Returns
<1>4. \A p \in Packs :
         /\ pack' = p <=> pack = p /\ p \notin {h}
         /\ \A s \in SequenceIds : /\ p \in Queued(s)' <=> p \in Queued(s) /\ p \notin {h}
                                   /\ inRun'[s] = p <=> inRun[s] = p /\ p \notin {h}
    BY <1>0, <1>1, <1>2
<1>5. \A p \in Packs : OnePlace(p)' /\ Accounted(p)'
    BY <1>1, <1>3, <1>4, LetGo, ZenonT(30)
<1>6. Hands'
    BY <1>1, ZenonT(30) DEF OwnInv, Hands
<1>. QED
    BY <1>5, <1>6 DEF OwnInv

\* Every step keeps the places.
LEMMA OwnPreserved == BufferInv /\ RestTypes /\ OwnInv /\ [Next]_vars => OwnInv'
<1>. SUFFICES ASSUME BufferInv, RestTypes, OwnInv, [Next]_vars PROVE OwnInv'
    OBVIOUS
<1>0. \A s \in SequenceIds : Queued(s) = Elements(packs[s]) /\ Queued(s)' = Elements(packs'[s])
    BY ZenonT(30) DEF Queued, Elements
<1>1. ASSUME NEW p \in Packs, Arrives(p) PROVE OwnInv'
  <2>1. /\ pc = "idle" /\ pc' = "route" /\ p \notin came /\ came' = came \cup {p} /\ pack' = p
        /\ UNCHANGED <<packs, inRun, run, releases>>
      BY <1>1, ZenonT(30) DEF Arrives
  <2>2. pack = None /\ None \notin Packs
      BY <2>1, ReceiveBufferAssumption DEF OwnInv, Hands, Packs
  <2>3. ~Placed(p) /\ releases[p] = 0
      BY <2>1 DEF OwnInv, Accounted
  <2>4. Hands'
      BY <2>1, <2>2, ZenonT(30) DEF OwnInv, Hands
  <2>5. \A s \in SequenceIds : Queued(s)' = Queued(s)
      BY <2>1, ZenonT(30) DEF Queued
  <2>6. OnePlace(p)' /\ Accounted(p)'
      BY <2>1, <2>3, <2>5, ZenonT(30) DEF OnePlace, Accounted, Placed
  <2>7. ASSUME NEW q \in Packs, q # p PROVE OnePlace(q)' /\ Accounted(q)'
    <3>1. /\ pack # q /\ pack' # q /\ (q \in came' <=> q \in came) /\ releases' = releases
          /\ \A s \in SequenceIds : Queued(s)' = Queued(s) /\ inRun'[s] = inRun[s]
        BY <2>1, <2>2, <2>5, <2>7
    <3>2. OnePlace(q) /\ Accounted(q)
        BY DEF OwnInv
    <3>. QED
        BY <3>1, <3>2 DEF OnePlace, Accounted, Placed
  <2>8. \A s \in SequenceIds : NoDup(packs'[s])
      BY <2>1 DEF OwnInv
  <2>. QED
      BY <2>4, <2>6, <2>7, <2>8 DEF OwnInv
<1>2. ASSUME RouteDone \/ RouteOlder PROVE OwnInv'
  <2>1. /\ pack \in Packs /\ Returns(Released({pack}))
        /\ UNCHANGED <<packs, inRun, run>>
      BY <1>2 DEF RouteDone, RouteOlder, Dropped, BufferInv, Calls
  <2>. QED
      BY <2>1, ReturnsOwned
<1>3. ASSUME UNCHANGED <<packs, inRun, pack, came, releases>>, Creates(live) \/ Creates([live EXCEPT ![head] = 0]),
             pc # "idle"
      PROVE  OwnInv'
  <2>1. /\ pc' = "lock" /\ created + 1 \in SequenceIds
        /\ run' = [run EXCEPT ![created + 1] = "top"]
      BY <1>3 DEF Creates
  <2>2. run[created + 1] = "new"
    <3>1. created + 1 > created
        BY DEF BufferInv, ProofTypes
    <3>. QED
        BY <2>1, <3>1 DEF BufferInv, Made
  <2>3. \A s \in SequenceIds : run'[s] = "deliver" <=> run[s] = "deliver"
      BY <2>1, <2>2 DEF BufferInv, ProofTypes
  <2>. QED
      BY <1>3, <2>1, <2>3, StaysOwned, ZenonT(30)
<1>4. ASSUME RouteCreates \/ WaitReturns PROVE OwnInv'
  <2>1. UNCHANGED <<packs, inRun, pack, came, releases>> /\ pc # "idle"
      BY <1>4 DEF RouteCreates, WaitReturns, Creates
  <2>2. Creates(live) \/ Creates([live EXCEPT ![head] = 0])
      BY <1>4 DEF RouteCreates, WaitReturns
  <2>. QED
      BY <1>3, <2>1, <2>2, ZenonT(30)
<1>5. ASSUME RouteFound \/ RouteNewer PROVE OwnInv'
  <2>1. UNCHANGED <<packs, inRun, pack, came, releases, run>> /\ pc # "idle" /\ pc' # "idle"
      BY <1>5 DEF RouteFound, RouteNewer
  <2>. QED
      BY <2>1, StaysOwned
<1>6. ASSUME RouteSkips PROVE OwnInv'
  <2>1. CASE head = Version[pack]
    <3>1. UNCHANGED <<packs, inRun, pack, came, releases>> /\ pc # "idle" /\ Creates(live)
        BY <1>6, <2>1, ZenonT(30) DEF RouteSkips, Creates
    <3>. QED
        BY <1>3, <3>1, ZenonT(30)
  <2>2. CASE head # Version[pack]
    <3>1. /\ pack \in Packs /\ Returns(Released({pack}))
          /\ UNCHANGED <<packs, inRun, run>>
        BY <1>6, <2>2, ZenonT(30) DEF RouteSkips, Dropped, BufferInv, Calls
    <3>. QED
        BY <3>1, ReturnsOwned
  <2>. QED
      BY <2>1, <2>2
<1>7. ASSUME PackRejected \/ PackTimesOut \/ PackInterrupted PROVE OwnInv'
  <2>1. pack \in Packs /\ pc # "idle" /\ UNCHANGED <<packs, inRun, run>>
      BY <1>7 DEF PackRejected, PackTimesOut, PackInterrupted, BufferInv, Calls
  <2>2. CASE Returns(Released({pack}))
      BY <2>1, <2>2, ReturnsOwned
  <2>3. CASE UNCHANGED <<pack, came, releases>> /\ pc' = "route"
      BY <2>1, <2>3, StaysOwned, ZenonT(30)
  <2>. QED
      BY <1>7, <2>2, <2>3, ZenonT(30) DEF PackRejected, PackTimesOut, PackInterrupted, PackFails
<1>8. ASSUME PackEnters PROVE OwnInv'
  <2>1. UNCHANGED <<packs, inRun, pack, came, releases, run>> /\ pc # "idle" /\ pc' # "idle"
      BY <1>8, ZenonT(30) DEF PackEnters
  <2>. QED
      BY <2>1, StaysOwned
<1>9. ASSUME PackEnqueues PROVE OwnInv'
  <2>1. pack \in Packs /\ seq \in SequenceIds /\ run[seq] # "done"
      BY <1>9 DEF PackEnqueues, BufferInv, Calls, ProofTypes, Sending
  <2>2. PICK h \in Packs, s \in SequenceIds : h = pack /\ s = seq
      BY <2>1
  <2>3. /\ packs' = [packs EXCEPT ![s] = Append(@, h)]
        /\ pack' = None /\ pc' = "idle" /\ None \notin Packs
        /\ UNCHANGED <<came, releases, inRun, run>>
      BY <1>9, <2>1, <2>2, ReceiveBufferAssumption, ZenonT(30) DEF PackEnqueues, Returns, Packs
  <2>4. /\ \A t \in SequenceIds : h \notin Queued(t) /\ inRun[t] # h
        /\ h \in came /\ releases[h] = 0
      BY <2>2, ZenonT(30) DEF OwnInv, OnePlace, Accounted, Placed
  <2>5. packs[s] \in Seq(Packs) /\ NoDup(packs[s]) /\ h \notin Elements(packs[s])
      BY <2>4, <1>0 DEF RestTypes, OwnInv
  <2>6. /\ packs'[s] = Append(packs[s], h)
        /\ \A t \in SequenceIds \ {s} : packs'[t] = packs[t]
      BY <2>3 DEF RestTypes
  <2>7. /\ Elements(Append(packs[s], h)) = Elements(packs[s]) \cup {h}
        /\ NoDup(Append(packs[s], h))
      BY <2>5, AppendAdds, ZenonT(30)
  <2>8. \A t \in SequenceIds : Queued(t)' = IF t = s THEN Queued(t) \cup {h} ELSE Queued(t)
      BY <2>6, <2>7, <1>0, ZenonT(30)
  <2>9. \A t \in SequenceIds : NoDup(packs'[t])
      BY <2>6, <2>7, ZenonT(30) DEF OwnInv
  <2>10. OnePlace(h)' /\ Accounted(h)'
    <3>1. \A t \in SequenceIds : (h \in Queued(t)' <=> t = s) /\ inRun'[t] # h
        BY <2>3, <2>4, <2>8
    <3>2. pack' # h
        BY <2>3
    <3>3. OnePlace(h)' /\ Placed(h)'
        BY <3>1, <3>2, ZenonT(30) DEF OnePlace, Placed
    <3>. QED
        BY <3>3, <2>3, <2>4, ZenonT(30) DEF Accounted
  <2>11. ASSUME NEW q \in Packs, q # h PROVE OnePlace(q)' /\ Accounted(q)'
    <3>1. /\ \A t \in SequenceIds : (q \in Queued(t)' <=> q \in Queued(t)) /\ inRun'[t] = inRun[t]
          /\ pack # q /\ pack' # q
        BY <2>2, <2>3, <2>8, <2>11
    <3>2. OnePlace(q) /\ Accounted(q)
        BY ZenonT(30) DEF OwnInv
    <3>3. OnePlace(q)'
        BY <3>1, <3>2, ZenonT(30) DEF OnePlace
    <3>4. Placed(q)' <=> Placed(q)
        BY <3>1, ZenonT(30) DEF Placed
    <3>. QED
        BY <3>2, <3>3, <3>4, <2>3, ZenonT(30) DEF Accounted
  <2>12. Hands'
      BY <2>3, ZenonT(30) DEF OwnInv, Hands
  <2>. QED
      BY <2>9, <2>10, <2>11, <2>12, ZenonT(30) DEF OwnInv
<1>10. ASSUME NEW s \in SequenceIds,
              Checkpoint(s) \/ RunCancelled(s) \/ GapTimeout(s) \/ IdleFires(s) \/ IdleCloses(s)
              \/ RunExits(s) \/ CleanupLocks(s)
       PROVE  OwnInv'
  <2>1. UNCHANGED <<packs, inRun, pack, came, releases, pc>>
      BY <1>10, ZenonT(30) DEF Checkpoint, RunCancelled, GapTimeout, IdleFires, IdleCloses, RunExits,
         CleanupLocks, RunReturns, Goes, loopVars
  <2>2. /\ run[s] # "deliver"
        /\ \E r \in RunStates \ {"deliver"} : run' = [run EXCEPT ![s] = r]
      BY <1>10, ZenonT(30) DEF Checkpoint, RunCancelled, GapTimeout, IdleFires, IdleCloses, RunExits,
         CleanupLocks, RunReturns, Goes, RunStates
  <2>3. \A t \in SequenceIds : run'[t] = "deliver" <=> run[t] = "deliver"
      BY <2>2, ZenonT(30) DEF BufferInv, ProofTypes
  <2>. QED
      BY <2>1, <2>3, StaysOwned, ZenonT(30)
<1>11. ASSUME NEW s \in SequenceIds, TakePack(s) PROVE OwnInv'
  <2>1. packs[s] \in Seq(Packs) /\ packs[s] # <<>> /\ NoDup(packs[s])
      BY <1>11 DEF TakePack, RestTypes, OwnInv
  <2>2. PICK h \in Packs : h = Head(packs[s])
      BY <2>1, SMTT(30)
  <2>3. /\ h \in Queued(s)
        /\ Elements(Tail(packs[s])) = Queued(s) \ {h} /\ NoDup(Tail(packs[s]))
      BY <2>1, <2>2, <1>0, TailTakes, ZenonT(30)
  <2>4. /\ packs'[s] = Tail(packs[s]) /\ \A t \in SequenceIds \ {s} : packs'[t] = packs[t]
        /\ \A t \in SequenceIds : inRun'[t] = IF t = s THEN h ELSE inRun[t]
        /\ \A t \in SequenceIds : run'[t] = IF t = s THEN "deliver" ELSE run[t]
        /\ run[s] = "select" /\ UNCHANGED <<pc, pack, came, releases>>
      BY <1>11, <2>2, ZenonT(30) DEF TakePack, Goes, loopVars, RestTypes, BufferInv, ProofTypes
  <2>5. /\ \A t \in SequenceIds : inRun[t] # h /\ (t # s => h \notin Queued(t))
        /\ pack # h /\ h \in came /\ releases[h] = 0 /\ inRun[s] = None /\ h # None
      BY <2>3, <2>4, ReceiveBufferAssumption, ZenonT(30) DEF OwnInv, OnePlace, Accounted, Placed, Hands, Packs
  <2>6. \A t \in SequenceIds : Queued(t)' = Queued(t) \ {h} /\ NoDup(packs'[t])
    <3>1. Queued(s)' = Queued(s) \ {h} /\ NoDup(packs'[s])
        BY <2>3, <2>4, <1>0, ZenonT(30)
    <3>2. ASSUME NEW t \in SequenceIds, t # s
          PROVE  Queued(t)' = Queued(t) \ {h} /\ NoDup(packs'[t])
      <4>1. packs'[t] = packs[t] /\ NoDup(packs[t]) /\ Queued(t)' = Queued(t)
          BY <2>4, <3>2, <1>0, ZenonT(30) DEF OwnInv
      <4>2. h \notin Queued(t)
          BY <2>5, <3>2, ZenonT(30)
      <4>. QED
          BY <4>1, <4>2, ZenonT(30)
    <3>. QED
        BY <3>1, <3>2, ZenonT(30)
  <2>7. OnePlace(h)' /\ Accounted(h)'
    <3>1. \A t \in SequenceIds : h \notin Queued(t)' /\ (inRun'[t] = h <=> t = s)
        BY <2>4, <2>5, <2>6, ZenonT(30)
    <3>2. OnePlace(h)' /\ Placed(h)'
        BY <3>1, <2>4, <2>5, ZenonT(30) DEF OnePlace, Placed
    <3>. QED
        BY <3>2, <2>4, <2>5, ZenonT(30) DEF Accounted
  <2>8. ASSUME NEW q \in Packs, q # h PROVE OnePlace(q)' /\ Accounted(q)'
    <3>1. q # None
        BY ReceiveBufferAssumption DEF Packs
    <3>2. /\ \A t \in SequenceIds : /\ q \in Queued(t)' <=> q \in Queued(t)
                                    /\ inRun'[t] = q <=> inRun[t] = q
        BY <2>4, <2>5, <2>6, <2>8, <3>1, ZenonT(30)
    <3>. QED
        BY <3>2, <2>4, ZenonT(30) DEF OwnInv, OnePlace, Accounted, Placed
  <2>9. Hands'
      BY <2>4, <2>5, ZenonT(30) DEF OwnInv, Hands
  <2>. QED
      BY <2>6, <2>7, <2>8, <2>9, ZenonT(30) DEF OwnInv
<1>12. ASSUME NEW s \in SequenceIds, Settles(s) PROVE OwnInv'
  <2>1. run[s] = "deliver" /\ inRun[s] \in Packs
      BY <1>12 DEF Settles, OwnInv, Hands, RestTypes
  <2>2. PICK h \in Packs : h = inRun[s]
      BY <2>1, ZenonT(30)
  <2>3. /\ releases' = Released({h}) /\ UNCHANGED <<packs, pc, pack, came>>
        /\ \A t \in SequenceIds : inRun'[t] = IF t = s THEN None ELSE inRun[t]
        /\ None \notin Packs
      BY <1>12, <2>2, ReceiveBufferAssumption, ZenonT(30) DEF Settles, RunReturns, Goes, loopVars, RestTypes, Packs
  <2>4. run'[s] # "deliver" /\ \A t \in SequenceIds \ {s} : run'[t] = run[t]
      BY <1>12, ZenonT(30) DEF Settles, RunReturns, Goes, BufferInv, ProofTypes
  <2>5. /\ \A t \in SequenceIds : h \notin Queued(t) /\ (t # s => inRun[t] # h)
        /\ pack # h /\ Placed(h)
      BY <2>2, ZenonT(30) DEF OwnInv, OnePlace, Placed
  <2>6. \A p \in Packs :
           /\ pack' = p <=> pack = p /\ p \notin {h}
           /\ \A t \in SequenceIds : /\ p \in Queued(t)' <=> p \in Queued(t) /\ p \notin {h}
                                     /\ inRun'[t] = p <=> inRun[t] = p /\ p \notin {h}
    <3>1. \A t \in SequenceIds : Queued(t)' = Queued(t)
        BY <2>3, <1>0, ZenonT(30)
    <3>. QED
        BY <2>2, <2>3, <2>5, <3>1, ZenonT(30)
  <2>7. {h} \in SUBSET Packs /\ \A p \in {h} : Placed(p)
      BY <2>5, ZenonT(30)
  <2>8. \A p \in Packs : OnePlace(p)' /\ Accounted(p)'
      BY <2>3, <2>6, <2>7, LetGo, ZenonT(30)
  <2>9. Hands'
      BY <2>3, <2>4, ZenonT(30) DEF OwnInv, Hands
  <2>. QED
      BY <2>3, <2>8, <2>9, ZenonT(30) DEF OwnInv
<1>13. ASSUME NEW s \in SequenceIds, CleanupCloses(s) PROVE OwnInv'
  <2>1. /\ run[s] = "closing" /\ releases' = Released(Queued(s))
        /\ UNCHANGED <<pc, pack, came, inRun>>
        /\ packs'[s] = <<>> /\ \A t \in SequenceIds \ {s} : packs'[t] = packs[t]
        /\ \A t \in SequenceIds : run'[t] = IF t = s THEN "done" ELSE run[t]
      BY <1>13, ZenonT(30) DEF CleanupCloses, Drains, loopVars, RestTypes, BufferInv, ProofTypes
  <2>2. Queued(s) \in SUBSET Packs
      BY DEF Queued, RestTypes
  <2>3. Elements(<<>>) = {} /\ NoDup(<<>>)
      BY EmptyHasNone
  <2>4. \A t \in SequenceIds : NoDup(packs'[t])
      BY <2>1, <2>3, ZenonT(30) DEF OwnInv
  <2>5. /\ \A p \in Queued(s) : Placed(p) /\ pack # p
        /\ \A t \in SequenceIds : \A p \in Queued(s) : inRun[t] # p /\ (t # s => p \notin Queued(t))
      BY <2>2, ZenonT(30) DEF OwnInv, OnePlace, Placed
  <2>6. PICK P : P = Queued(s)
      BY ZenonT(30)
  <2>7. \A p \in Packs :
           /\ pack' = p <=> pack = p /\ p \notin P
           /\ \A t \in SequenceIds : /\ p \in Queued(t)' <=> p \in Queued(t) /\ p \notin P
                                     /\ inRun'[t] = p <=> inRun[t] = p /\ p \notin P
    <3>1. \A t \in SequenceIds : Queued(t)' = IF t = s THEN {} ELSE Queued(t)
        BY <2>1, <2>3, <1>0, ZenonT(30)
    <3>. QED
        BY <2>1, <2>5, <2>6, <3>1, ZenonT(30)
  <2>8. \A p \in Packs : OnePlace(p)' /\ Accounted(p)'
    <3>1. P \in SUBSET Packs /\ (\A p \in P : Placed(p)) /\ releases' = Released(P) /\ came' = came
        BY <2>1, <2>2, <2>5, <2>6, ZenonT(30)
    <3>. QED
        BY <2>7, <3>1, LetGo, ZenonT(30)
  <2>9. Hands'
      BY <2>1, ZenonT(30) DEF OwnInv, Hands
  <2>. QED
      BY <2>4, <2>8, <2>9, ZenonT(30) DEF OwnInv
<1>14. CASE Flush \/ Close \/ UNCHANGED vars
  <2>1. UNCHANGED <<packs, inRun, pack, came, releases, pc, run>>
      BY <1>14 DEF Flush, Close, vars, loopVars
  <2>. QED
      BY <2>1, StaysOwned, ZenonT(30)
<1>. QED
    BY <1>1, <1>2, <1>4, <1>5, <1>6, <1>7, <1>8, <1>9, <1>10, <1>11, <1>12, <1>13, <1>14, ZenonT(30)
       DEF Next, Progress, Route, Call, Run

\* The bytes of a pack are given back or passed on once at most: the pack is
\* always with one of the receive loop, a channel and a Run, or let go of once.
THEOREM PacksLetGoOnce == Spec => []ReleasedOnce
<1>1. Init => OwnInv
  <2>. SUFFICES ASSUME Init PROVE OwnInv
      OBVIOUS
  <2>1. /\ \A s \in SequenceIds : packs[s] = <<>> /\ inRun[s] = None /\ run[s] = "new"
        /\ pack = None /\ pc = "idle" /\ came = {} /\ None \notin Packs
        /\ \A p \in Packs : releases[p] = 0
      BY ReceiveBufferAssumption, ZenonT(30) DEF Init, Packs
  <2>2. \A s \in SequenceIds : Queued(s) = {} /\ NoDup(packs[s])
    <3>1. \A s \in SequenceIds : Queued(s) = Elements(packs[s])
        BY Zenon DEF Queued, Elements
    <3>. QED
        BY <2>1, <3>1, EmptyHasNone, Zenon
  <2>. QED
      BY <2>1, <2>2, ZenonT(30) DEF OwnInv, Hands, OnePlace, Accounted, Placed
<1>2. OwnInv => ReleasedOnce
    BY DEF OwnInv, Accounted, ReleasedOnce
<1>. QED
    BY <1>1, <1>2, OwnPreserved, RestInvariant, BufferInvariant, PTL DEF Spec
=============================================================================
