------------------------- MODULE DurableHeadProofs -------------------------
(***************************************************************************)
(* What no sequence of publications, kills, failed calls and power losses  *)
(* can do to a durable head, for any number of publications and for every  *)
(* kind of storage; and, on storage that keeps the order of changes, that  *)
(* Reconcile refuses only what cannot be finished.                         *)
(***************************************************************************)
EXTENDS DurableHead, TLAPS

\* The checkpoints and the entries of the file that the directory has now or that a
\* power loss may bring back, in any combination.
Heads == {disk.head, stable.head}

Names == {disk.name, stable.name}

\* Every combination of them shows complete bytes of the committed or pending generation.
Whole ==
    \A h \in Heads, i \in Names :
        \/ i = 0 /\ h.committed = 0
        \/ i # 0 /\ i \in {h.committed, h.pending} /\ stable.data[i] = "full"

\* Bytes on stable storage were written.
Written ==
    \A g \in Generations :
        /\ stable.data[g] = "full" => disk.data[g] = "full"
        /\ stable.data[g] # "empty" => disk.data[g] # "empty"

\* No checkpoint forgets a generation that has bytes.
Known ==
    \A h \in Heads, g \in Generations :
        disk.data[g] # "empty" => g <= h.committed \/ g = h.pending

\* A pending generation has bytes only after its checkpoint was synced.
Anchored ==
    \A g \in Generations :
        disk.head.pending = g /\ disk.data[g] # "empty" => stable.head = disk.head

\* Generations are committed in the order of their publications.
InOrder ==
    \A h \in Heads :
        /\ h.committed <= issued /\ h.pending <= issued
        /\ h.pending # 0 => h.committed < h.pending

\* What the application was given is complete on stable storage.
ServedStable == served # 0 => stable.data[served] = "full"

\* The owner's copy of the checkpoint is the one in the directory, except between a
\* write of it and the sync.
Mirrors ==
    pc \notin {"down", "failed", "refused", "anchorSync", "commitSync", "abandoned"} => cp = disk.head

\* What is known of the checkpoint at each step of a call.
AtStep ==
    /\ pc = "ready" => disk.head.pending = 0
    /\ pc \in {"census", "mark", "markSync", "create", "anchor"} /\ op = "publish" /\ ~finishing
           => disk.head.pending = 0 /\ disk.head.committed < issued
    /\ pc \in {"mark", "markSync", "create", "anchor", "anchorSync", "write", "fileSync"}
           => op = "publish" /\ ~finishing
    /\ pc = "anchorSync" => disk.head.pending = issued /\ disk.data[issued] = "empty"
    /\ pc \in {"write", "fileSync"} => disk.head.pending = issued /\ stable.head = disk.head
    /\ pc = "write" => disk.data[issued] # "full"
    /\ pc = "fileSync" => disk.data[issued] = "full"
    /\ op = "publish" => issued # 0
    /\ pc = "census" /\ finishing => cp.pending # 0
    /\ pc \in {"settle", "rename", "directorySync", "unlink", "unlinkSync", "commit"}
           => cp.pending # 0
    /\ pc = "rename" => disk.temp[cp.pending] = cp.pending /\ stable.data[cp.pending] = "full"
    /\ pc \in {"unlink", "unlinkSync", "commit"}
           => disk.name = cp.pending /\ stable.name = cp.pending
    /\ pc \in {"commitSync", "abandoned", "unmark", "unmarkSync"} => disk.head.pending = 0
    /\ pc \in {"pairSync", "pairUnmark", "abandonSync", "abandon", "abandoned", "abandonUnmark",
              "abandonEnd"}
           => AllowReconcile
    /\ pc \in {"abandonSync", "abandon"}
           => cp.pending # 0 /\ disk.data[cp.pending] = "empty"

\* The part of the invariant that does not speak of the owner.
Core == Whole /\ Written /\ Known /\ Anchored /\ InOrder /\ ServedStable

HeadInv == TypeOK /\ Core /\ Mirrors /\ AtStep

-----------------------------------------------------------------------------

\* The application is given nothing, or a generation that is complete on stable storage.
Serves == served' \in Inodes /\ (served' # 0 => stable.data[served'] = "full")

\* A step that leaves name, checkpoint and bytes alone, and at most brings more of them
\* to stable storage: a sync of any kind, a write-back, or no I/O on them at all.
StorageStep ==
    /\ disk'.name = disk.name /\ disk'.head = disk.head /\ disk'.data = disk.data
    /\ stable'.name \in Names /\ stable'.head \in Heads
    /\ \A g \in Generations :
          \/ stable'.data[g] \in {stable.data[g], disk.data[g]}
          \/ /\ stable'.data[g] = "partial"
             /\ disk.data[g] # "empty" /\ stable.data[g] # "full"
    /\ issued <= issued' /\ (served' = served \/ Serves)

\* Generations and inodes are numbers.
LEMMA Numbers ==
    /\ Generations \subseteq Inodes /\ Inodes \subseteq Nat
    /\ 0 \in Inodes /\ 0 \notin Generations
    /\ \A i \in Inodes : i # 0 => i \in Generations
BY PublicationsAssumption DEF Generations, Inodes

\* The types of the parts of the two directories.
LEMMA Parts ==
    ASSUME TypeOK
    PROVE  /\ disk.name \in Inodes /\ stable.name \in Inodes
           /\ disk.head \in Checkpoints /\ stable.head \in Checkpoints
           /\ disk.temp \in [Generations -> Inodes] /\ stable.temp \in [Generations -> Inodes]
           /\ disk.data \in [Generations -> Bytes] /\ stable.data \in [Generations -> Bytes]
           /\ \A h \in Heads : h.committed \in Inodes /\ h.pending \in Inodes
BY DEF TypeOK, Directories, Heads, Checkpoints

\* Bringing more to stable storage keeps the core, in whatever order it is done.
LEMMA StorageKeepsCore ==
    ASSUME TypeOK, TypeOK', Core, StorageStep
    PROVE  Core'
<1>. USE Numbers, Parts DEF Core
<1>1. Heads' \subseteq Heads /\ Names' \subseteq Names
    BY DEF StorageStep, Heads, Names
<1>2. \A g \in Generations :
          /\ stable.data[g] = "full" => stable'.data[g] = "full"
          /\ stable'.data[g] = "full" => disk'.data[g] = "full"
          /\ stable'.data[g] # "empty" => disk'.data[g] # "empty"
    BY DEF StorageStep, Written
<1>3. Whole'
  <2>. SUFFICES ASSUME NEW h \in Heads', NEW i \in Names'
                PROVE  \/ i = 0 /\ h.committed = 0
                       \/ i # 0 /\ i \in {h.committed, h.pending} /\ stable'.data[i] = "full"
      BY DEF Whole
  <2>1. h \in Heads /\ i \in Names /\ i \in Inodes
      BY <1>1 DEF Names
  <2>. QED
      BY <1>2, <2>1 DEF Whole
<1>4. Written'
    BY <1>2 DEF Written
<1>5. Known'
    BY <1>1 DEF Known, StorageStep
<1>6. Anchored'
    BY DEF Anchored, StorageStep, Heads
<1>7. InOrder'
  <2>1. issued \in Nat /\ issued' \in Nat /\ issued <= issued'
      BY DEF TypeOK, StorageStep
  <2>2. ASSUME NEW h \in Heads'
        PROVE  /\ h.committed <= issued' /\ h.pending <= issued'
               /\ h.pending # 0 => h.committed < h.pending
    <3>1. h \in Heads
      BY <1>1
    <3>2. /\ h.committed \in Nat /\ h.pending \in Nat /\ h.committed <= issued
          /\ h.pending <= issued /\ (h.pending # 0 => h.committed < h.pending)
      BY <3>1, Zenon DEF InOrder
    <3>. QED
      BY <2>1, <3>2
  <2>. QED
      BY <2>2 DEF InOrder
<1>8. ServedStable'
    BY <1>2 DEF ServedStable, StorageStep, Serves, TypeOK
<1>. QED
    BY <1>3, <1>4, <1>5, <1>6, <1>7, <1>8

\* The variables of the owner have their types after Continue, Census and Rest.
LEMMA OwnerTypes ==
    ASSUME TypeOK, NEW next \in Steps, NEW call \in {"open", "reconcile", "publish"},
           NEW f \in BOOLEAN,
           \/ Continue(next)
           \/ Census(call, f) /\ UNCHANGED <<issued, served>>
           \/ Rest(next) /\ UNCHANGED served
    PROVE  /\ storage' \in Storages /\ pc' \in Steps /\ op' \in {"open", "reconcile", "publish"}
           /\ finishing' \in BOOLEAN /\ todo' \subseteq Generations /\ removed' \in BOOLEAN
           /\ nonce' \in Inodes /\ issued' = issued /\ served' = served
<1>1. disk.marker \subseteq Generations
    BY DEF TypeOK, Directories
<1>2. "census" \in Steps
    BY DEF Steps
<1>. QED
    BY <1>1, <1>2, Numbers, Zenon DEF TypeOK, Continue, Census, Rest

\* So they have after Refuse.
LEMMA RefuseTypes ==
    ASSUME TypeOK, Refuse
    PROVE  /\ storage' \in Storages /\ pc' \in Steps /\ op' \in {"open", "reconcile", "publish"}
           /\ finishing' \in BOOLEAN /\ todo' \subseteq Generations /\ removed' \in BOOLEAN
           /\ nonce' \in Inodes /\ issued' = issued /\ served' = served
           /\ cp' \in Checkpoints
<1>1. disk.head \in Checkpoints /\ cp \in Checkpoints
    BY DEF TypeOK, Directories
<1>2. "refused" \in Steps /\ "failed" \in Steps /\ FALSE \in BOOLEAN
    BY DEF Steps, Resting
<1>3. CASE Census("reconcile", FALSE) /\ UNCHANGED <<issued, served>> /\ cp' = disk.head
    BY <1>1, <1>2, <1>3, OwnerTypes, Zenon
<1>4. CASE Rest("refused") /\ UNCHANGED <<served, cp>>
    BY <1>1, <1>2, <1>4, OwnerTypes, Zenon
<1>5. CASE Rest("failed") /\ UNCHANGED <<served, cp>>
    BY <1>1, <1>2, <1>5, OwnerTypes, Zenon
<1>. QED
    BY <1>3, <1>4, <1>5, Zenon DEF Refuse

\* A sync of the directory is such a step, and keeps the types.
LEMMA SyncFacts ==
    ASSUME TypeOK, SyncDirectory, UNCHANGED <<disk, issued>>, served' = served \/ Serves
    PROVE  StorageStep /\ stable' \in Directories /\ stable'.head = disk.head /\ stable'.name = disk.name
<1>1. /\ stable'.name = disk.name /\ stable'.head = disk.head /\ stable'.data = stable.data
      /\ stable' \in Directories
    BY DEF SyncDirectory, TypeOK, Directories
<1>2. issued \in Nat
    BY Numbers DEF TypeOK
<1>. QED
    BY <1>1, <1>2 DEF StorageStep, Names, Heads

\* What an owner is returned with is complete on stable storage.
LEMMA AdmitFacts ==
    ASSUME TypeOK, Whole, cp = disk.head, Admit(cp)
    PROVE  /\ served' = served \/ Serves
           /\ served' \in Inodes /\ issued' = issued /\ storage' = storage
           /\ pc' \in {"ready", "refused"} /\ op' = "open" /\ finishing' = FALSE
           /\ todo' = {} /\ removed' = FALSE /\ nonce' = 0
<1>. USE Numbers, Parts
<1>1. disk.head.committed \in Inodes /\ disk.name \in Inodes /\ served \in Inodes
    BY DEF Heads, TypeOK
<1>2. disk.head.committed # 0 /\ matches(disk.name, disk.head.committed)
          => stable.data[disk.head.committed] = "full"
  <2>1. disk.head \in Heads /\ disk.name \in Names
      BY DEF Heads, Names
  <2>. QED
      BY <1>1, <2>1 DEF Whole, matches
<1>. QED
    BY <1>1, <1>2 DEF Admit, Rest, Serves

\* Every step keeps the invariant.
LEMMA HeadPreserved == HeadInv /\ [Next]_vars => HeadInv'
<1>. SUFFICES ASSUME HeadInv, [Next]_vars
              PROVE  HeadInv'
    OBVIOUS
<1>. USE Numbers, Parts DEF HeadInv
<1>1. ASSUME Open
      PROVE  HeadInv'
  <2>1. TypeOK'
      BY <1>1, Zenon DEF Open, Census, TypeOK, Directories, Checkpoints, Steps, Resting, Bytes
  <2>2. StorageStep
      BY <1>1 DEF Open, Census, TypeOK, Directories, StorageStep, Names, Heads
  <2>3. Core'
      BY <2>1, <2>2, StorageKeepsCore
  <2>4. Mirrors'
      BY <1>1 DEF Open, Census, TypeOK, Directories, Mirrors
  <2>5. AtStep'
      BY <1>1 DEF Open, Census, TypeOK, Directories, Mirrors, AtStep
  <2>. QED
      BY <2>1, <2>3, <2>4, <2>5
<1>2. ASSUME NEW m \in Generations, ClearMarker(m)
      PROVE  HeadInv'
  <2>1. TypeOK'
      BY <1>2 DEF ClearMarker, TypeOK, Directories, Checkpoints, Steps, Resting, Bytes
  <2>2. StorageStep
      BY <1>2 DEF ClearMarker, TypeOK, Directories, StorageStep, Names, Heads
  <2>3. Core'
      BY <2>1, <2>2, StorageKeepsCore
  <2>4. Mirrors'
      BY <1>2 DEF ClearMarker, TypeOK, Directories, Mirrors
  <2>5. AtStep'
      BY <1>2 DEF ClearMarker, TypeOK, Directories, Mirrors, AtStep
  <2>. QED
      BY <2>1, <2>3, <2>4, <2>5
<1>3. ASSUME NEW m \in Generations, KeepMarker(m)
      PROVE  HeadInv'
  <2>1. TypeOK'
      BY <1>3 DEF KeepMarker, TypeOK, Directories, Checkpoints, Steps, Resting, Bytes
  <2>2. StorageStep
      BY <1>3 DEF KeepMarker, TypeOK, Directories, StorageStep, Names, Heads
  <2>3. Core'
      BY <2>1, <2>2, StorageKeepsCore
  <2>4. Mirrors'
      BY <1>3 DEF KeepMarker, TypeOK, Directories, Mirrors
  <2>5. AtStep'
      BY <1>3 DEF KeepMarker, TypeOK, Directories, Mirrors, AtStep
  <2>. QED
      BY <2>1, <2>3, <2>4, <2>5
<1>4. ASSUME NEW m \in Generations, Abandon(m)
      PROVE  HeadInv'
  <2>1. TypeOK'
      BY <1>4 DEF Abandon, AllowReconcile, Unwritten, TypeOK, Directories, Checkpoints,
         Steps, Resting, Bytes
  <2>2. StorageStep
      BY <1>4 DEF Abandon, AllowReconcile, Unwritten, TypeOK, Directories, StorageStep,
         Names, Heads
  <2>3. Core'
      BY <2>1, <2>2, StorageKeepsCore
  <2>4. Mirrors'
      BY <1>4 DEF Abandon, AllowReconcile, Unwritten, TypeOK, Directories, Mirrors
  <2>5. AtStep'
      BY <1>4 DEF Abandon, AllowReconcile, Unwritten, TypeOK, Directories, Mirrors, AtStep
  <2>. QED
      BY <2>1, <2>3, <2>4, <2>5
<1>5. ASSUME NEW m \in Generations, ClearPair(m)
      PROVE  HeadInv'
  <2>1. TypeOK'
      BY <1>5 DEF ClearPair, AllowReconcile, TypeOK, Directories, Checkpoints, Steps,
         Resting, Bytes
  <2>2. StorageStep
      BY <1>5 DEF ClearPair, AllowReconcile, TypeOK, Directories, StorageStep, Names, Heads
  <2>3. Core'
      BY <2>1, <2>2, StorageKeepsCore
  <2>4. Mirrors'
      BY <1>5 DEF ClearPair, AllowReconcile, TypeOK, Directories, Mirrors
  <2>5. AtStep'
      BY <1>5 DEF ClearPair, AllowReconcile, TypeOK, Directories, Mirrors, AtStep
  <2>. QED
      BY <2>1, <2>3, <2>4, <2>5
<1>6. ASSUME AbandonUnmark
      PROVE  HeadInv'
  <2>1. TypeOK'
      BY <1>6 DEF AbandonUnmark, Continue, AllowReconcile, TypeOK, Directories,
         Checkpoints, Steps, Resting, Bytes
  <2>2. StorageStep
      BY <1>6 DEF AbandonUnmark, Continue, AllowReconcile, TypeOK, Directories,
         StorageStep, Names, Heads
  <2>3. Core'
      BY <2>1, <2>2, StorageKeepsCore
  <2>4. Mirrors'
      BY <1>6 DEF AbandonUnmark, Continue, AllowReconcile, TypeOK, Directories, Mirrors
  <2>5. AtStep'
      BY <1>6 DEF AbandonUnmark, Continue, AllowReconcile, TypeOK, Directories, Mirrors, AtStep
  <2>. QED
      BY <2>1, <2>3, <2>4, <2>5
<1>7. ASSUME PairUnmark
      PROVE  HeadInv'
  <2>1. TypeOK'
      BY <1>7 DEF PairUnmark, AllowReconcile, TypeOK, Directories, Checkpoints, Steps,
         Resting, Bytes
  <2>2. StorageStep
      BY <1>7 DEF PairUnmark, AllowReconcile, TypeOK, Directories, StorageStep, Names, Heads
  <2>3. Core'
      BY <2>1, <2>2, StorageKeepsCore
  <2>4. Mirrors'
      BY <1>7 DEF PairUnmark, AllowReconcile, TypeOK, Directories, Mirrors
  <2>5. AtStep'
      BY <1>7 DEF PairUnmark, AllowReconcile, TypeOK, Directories, Mirrors, AtStep
  <2>. QED
      BY <2>1, <2>3, <2>4, <2>5
<1>8. ASSUME CensusRefuses
      PROVE  HeadInv'
  <2>1. TypeOK'
      BY <1>8, Zenon DEF CensusRefuses, Refuse, Census, Rest, TypeOK, Directories, Checkpoints,
         Steps, Resting, Bytes
  <2>2. StorageStep
      BY <1>8 DEF CensusRefuses, Refuse, Census, Rest, TypeOK, Directories, StorageStep,
         Names, Heads
  <2>3. Core'
      BY <2>1, <2>2, StorageKeepsCore
  <2>4. Mirrors'
      BY <1>8 DEF CensusRefuses, Refuse, Census, Rest, TypeOK, Directories, Mirrors
  <2>5. AtStep'
      BY <1>8 DEF CensusRefuses, Refuse, Census, Rest, TypeOK, Directories, Mirrors, AtStep
  <2>. QED
      BY <2>1, <2>3, <2>4, <2>5
<1>9. ASSUME Publish
      PROVE  HeadInv'
  <2>a. /\ issued' = issued + 1 /\ issued \in Nat /\ issued' \in Inodes
      BY <1>9, PublicationsAssumption DEF Publish, TypeOK, Inodes
  <2>1. TypeOK'
      BY <1>9, <2>a, Zenon DEF Publish, Census, TypeOK, Directories, Steps
  <2>2. StorageStep
      BY <1>9, <2>a DEF Publish, Census, StorageStep, Names, Heads
  <2>3. Core'
      BY <2>1, <2>2, StorageKeepsCore
  <2>4. Mirrors'
      BY <1>9 DEF Publish, Census, Mirrors
  <2>5. AtStep'
    <3>1. disk.head.committed < issued'
      <4>1. disk.head.committed \in Nat /\ disk.head.committed <= issued
        BY Zenon DEF Core, InOrder, Heads
      <4>. QED
        BY <2>a, <4>1
    <3>2. disk.head.pending = 0 /\ issued' # 0
      BY <1>9, <2>a DEF Publish, AtStep
    <3>. QED
      BY <1>9, <3>1, <3>2 DEF Publish, Census, AtStep
  <2>. QED
      BY <2>1, <2>3, <2>4, <2>5
<1>10. ASSUME writeCreateMarker
      PROVE  HeadInv'
  <2>1. TypeOK'
      BY <1>10 DEF writeCreateMarker, Continue, AtStep, TypeOK, Directories, Checkpoints,
         Steps, Resting, Bytes
  <2>2. StorageStep
      BY <1>10 DEF writeCreateMarker, Continue, AtStep, TypeOK, Directories, StorageStep,
         Names, Heads
  <2>3. Core'
      BY <2>1, <2>2, StorageKeepsCore
  <2>4. Mirrors'
      BY <1>10 DEF writeCreateMarker, Continue, AtStep, TypeOK, Directories, Mirrors
  <2>5. AtStep'
      BY <1>10 DEF writeCreateMarker, Continue, AtStep, TypeOK, Directories, Mirrors, AtStep
  <2>. QED
      BY <2>1, <2>3, <2>4, <2>5
<1>11. ASSUME CreateTemporary
      PROVE  HeadInv'
  <2>1. TypeOK'
      BY <1>11 DEF CreateTemporary, Continue, TypeOK, Directories, Checkpoints, Steps,
         Resting, Bytes
  <2>2. StorageStep
      BY <1>11 DEF CreateTemporary, Continue, TypeOK, Directories, StorageStep, Names, Heads
  <2>3. Core'
      BY <2>1, <2>2, StorageKeepsCore
  <2>4. Mirrors'
      BY <1>11 DEF CreateTemporary, Continue, TypeOK, Directories, Mirrors
  <2>5. AtStep'
      BY <1>11 DEF CreateTemporary, Continue, TypeOK, Directories, Mirrors, AtStep
  <2>. QED
      BY <2>1, <2>3, <2>4, <2>5
<1>12. ASSUME Unlink
      PROVE  HeadInv'
  <2>1. TypeOK'
      BY <1>12 DEF Unlink, Continue, TypeOK, Directories, Checkpoints, Steps, Resting, Bytes
  <2>2. StorageStep
      BY <1>12 DEF Unlink, Continue, TypeOK, Directories, StorageStep, Names, Heads
  <2>3. Core'
      BY <2>1, <2>2, StorageKeepsCore
  <2>4. Mirrors'
      BY <1>12 DEF Unlink, Continue, TypeOK, Directories, Mirrors
  <2>5. AtStep'
      BY <1>12 DEF Unlink, Continue, TypeOK, Directories, Mirrors, AtStep
  <2>. QED
      BY <2>1, <2>3, <2>4, <2>5
<1>13. ASSUME removeCreateMarker
      PROVE  HeadInv'
  <2>1. TypeOK'
      BY <1>13 DEF removeCreateMarker, Continue, TypeOK, Directories, Checkpoints, Steps,
         Resting, Bytes
  <2>2. StorageStep
      BY <1>13 DEF removeCreateMarker, Continue, TypeOK, Directories, StorageStep, Names, Heads
  <2>3. Core'
      BY <2>1, <2>2, StorageKeepsCore
  <2>4. Mirrors'
      BY <1>13 DEF removeCreateMarker, Continue, TypeOK, Directories, Mirrors
  <2>5. AtStep'
      BY <1>13 DEF removeCreateMarker, Continue, TypeOK, Directories, Mirrors, AtStep
  <2>. QED
      BY <2>1, <2>3, <2>4, <2>5
<1>14. ASSUME Fail
      PROVE  HeadInv'
  <2>a. disk' = disk /\ stable' = stable /\ served' = served
      BY <1>14 DEF Fail
  <2>b. \/ Rest("down") /\ cp' = NoHead
        \/ Refuse
        \/ Rest("ready") /\ cp' = cp
        \/ Rest("failed") /\ cp' = cp
      BY <1>14 DEF Fail
  <2>c. issued' = issued
      BY <2>b DEF Refuse, Census, Rest
  <2>1. TypeOK'
    <3>1. CASE Refuse
      BY <2>a, <3>1, RefuseTypes DEF TypeOK
    <3>2. "down" \in Steps /\ "ready" \in Steps /\ "failed" \in Steps
      BY DEF Steps, Resting
    <3>3. cp \in Checkpoints /\ NoHead \in Checkpoints
      BY DEF NoHead, TypeOK, Checkpoints
    <3>4. ASSUME NEW next \in Steps, Rest(next), cp' \in Checkpoints
          PROVE  TypeOK'
      BY <2>a, <3>4, Zenon DEF Rest, TypeOK
    <3>. QED
      BY <2>b, <3>1, <3>2, <3>3, <3>4
  <2>2. StorageStep
      BY <2>a, <2>c DEF TypeOK, StorageStep, Names, Heads
  <2>3. Core'
      BY <2>1, <2>2, StorageKeepsCore
  <2>4. Mirrors'
      BY <1>14, <2>a DEF Fail, Refuse, Census, Rest, Mirrors
  <2>5. AtStep'
      BY <1>14, <2>a, <2>c DEF Fail, Refuse, Census, Rest, Mirrors, AtStep
  <2>. QED
      BY <2>1, <2>3, <2>4, <2>5
<1>15. ASSUME Stop
      PROVE  HeadInv'
  <2>1. TypeOK'
      BY <1>15, Zenon DEF Stop, Rest, NoHead, TypeOK, Directories, Checkpoints, Steps, Resting, Bytes
  <2>2. StorageStep
      BY <1>15 DEF Stop, Rest, NoHead, TypeOK, Directories, StorageStep, Names, Heads
  <2>3. Core'
      BY <2>1, <2>2, StorageKeepsCore
  <2>4. Mirrors'
      BY <1>15 DEF Stop, Rest, NoHead, TypeOK, Directories, Mirrors
  <2>5. AtStep'
      BY <1>15 DEF Stop, Rest, NoHead, TypeOK, Directories, Mirrors, AtStep
  <2>. QED
      BY <2>1, <2>3, <2>4, <2>5
<1>16. ASSUME AbandonSync
      PROVE  HeadInv'
  <2>1. TypeOK'
      BY <1>16, SyncFacts DEF AbandonSync, Continue, AllowReconcile, TypeOK, Directories,
         Checkpoints, Steps, Resting, Bytes
  <2>2. StorageStep /\ stable'.head = disk.head /\ stable'.name = disk.name
      BY <1>16, SyncFacts DEF AbandonSync, Continue, AllowReconcile
  <2>3. Core'
      BY <2>1, <2>2, StorageKeepsCore
  <2>4. Mirrors'
      BY <1>16 DEF AbandonSync, Continue, AllowReconcile, Mirrors
  <2>5. AtStep'
      BY <1>16, <2>2 DEF AbandonSync, Continue, AllowReconcile, Mirrors, AtStep
  <2>. QED
      BY <2>1, <2>3, <2>4, <2>5
<1>17. ASSUME AbandonedSync
      PROVE  HeadInv'
  <2>1. TypeOK'
      BY <1>17, SyncFacts DEF AbandonedSync, Continue, AllowReconcile, TypeOK,
         Directories, Checkpoints, Steps, Resting, Bytes
  <2>2. StorageStep /\ stable'.head = disk.head /\ stable'.name = disk.name
      BY <1>17, SyncFacts DEF AbandonedSync, Continue, AllowReconcile
  <2>3. Core'
      BY <2>1, <2>2, StorageKeepsCore
  <2>4. Mirrors'
      BY <1>17 DEF AbandonedSync, Continue, AllowReconcile, Mirrors
  <2>5. AtStep'
      BY <1>17, <2>2 DEF AbandonedSync, Continue, AllowReconcile, Mirrors, AtStep
  <2>. QED
      BY <2>1, <2>3, <2>4, <2>5
<1>18. ASSUME AbandonEnd
      PROVE  HeadInv'
  <2>1. TypeOK'
      BY <1>18, SyncFacts DEF AbandonEnd, AllowReconcile, TypeOK, Directories,
         Checkpoints, Steps, Resting, Bytes
  <2>2. StorageStep /\ stable'.head = disk.head /\ stable'.name = disk.name
      BY <1>18, SyncFacts DEF AbandonEnd, AllowReconcile
  <2>3. Core'
      BY <2>1, <2>2, StorageKeepsCore
  <2>4. Mirrors'
      BY <1>18 DEF AbandonEnd, AllowReconcile, Mirrors
  <2>5. AtStep'
      BY <1>18, <2>2 DEF AbandonEnd, AllowReconcile, Mirrors, AtStep
  <2>. QED
      BY <2>1, <2>3, <2>4, <2>5
<1>19. ASSUME PairSync
      PROVE  HeadInv'
  <2>1. TypeOK'
      BY <1>19, SyncFacts DEF PairSync, Continue, AllowReconcile, TypeOK, Directories,
         Checkpoints, Steps, Resting, Bytes
  <2>2. StorageStep /\ stable'.head = disk.head /\ stable'.name = disk.name
      BY <1>19, SyncFacts DEF PairSync, Continue, AllowReconcile
  <2>3. Core'
      BY <2>1, <2>2, StorageKeepsCore
  <2>4. Mirrors'
      BY <1>19 DEF PairSync, Continue, AllowReconcile, Mirrors
  <2>5. AtStep'
      BY <1>19, <2>2 DEF PairSync, Continue, AllowReconcile, Mirrors, AtStep
  <2>. QED
      BY <2>1, <2>3, <2>4, <2>5
<1>20. ASSUME MarkerSync
      PROVE  HeadInv'
  <2>1. TypeOK'
      BY <1>20, SyncFacts DEF MarkerSync, Continue, TypeOK, Directories, Checkpoints,
         Steps, Resting, Bytes
  <2>2. StorageStep /\ stable'.head = disk.head /\ stable'.name = disk.name
      BY <1>20, SyncFacts DEF MarkerSync, Continue
  <2>3. Core'
      BY <2>1, <2>2, StorageKeepsCore
  <2>4. Mirrors'
      BY <1>20 DEF MarkerSync, Continue, Mirrors
  <2>5. AtStep'
      BY <1>20, <2>2 DEF MarkerSync, Continue, Mirrors, AtStep
  <2>. QED
      BY <2>1, <2>3, <2>4, <2>5
<1>21. ASSUME AnchorSync
      PROVE  HeadInv'
  <2>1. TypeOK'
      BY <1>21, SyncFacts DEF AnchorSync, Continue, TypeOK, Directories, Checkpoints,
         Steps, Resting, Bytes
  <2>2. StorageStep /\ stable'.head = disk.head /\ stable'.name = disk.name
      BY <1>21, SyncFacts DEF AnchorSync, Continue
  <2>3. Core'
      BY <2>1, <2>2, StorageKeepsCore
  <2>4. Mirrors'
      BY <1>21 DEF AnchorSync, Continue, Mirrors
  <2>5. AtStep'
      BY <1>21, <2>2 DEF AnchorSync, Continue, Mirrors, AtStep
  <2>. QED
      BY <2>1, <2>3, <2>4, <2>5
<1>22. ASSUME UnlinkSync
      PROVE  HeadInv'
  <2>1. TypeOK'
      BY <1>22, SyncFacts DEF UnlinkSync, Continue, TypeOK, Directories, Checkpoints,
         Steps, Resting, Bytes
  <2>2. StorageStep /\ stable'.head = disk.head /\ stable'.name = disk.name
      BY <1>22, SyncFacts DEF UnlinkSync, Continue
  <2>3. Core'
      BY <2>1, <2>2, StorageKeepsCore
  <2>4. Mirrors'
      BY <1>22 DEF UnlinkSync, Continue, Mirrors
  <2>5. AtStep'
      BY <1>22, <2>2 DEF UnlinkSync, Continue, Mirrors, AtStep
  <2>. QED
      BY <2>1, <2>3, <2>4, <2>5
<1>23. ASSUME CommitSync
      PROVE  HeadInv'
  <2>1. TypeOK'
      BY <1>23, SyncFacts DEF CommitSync, Continue, TypeOK, Directories, Checkpoints,
         Steps, Resting, Bytes
  <2>2. StorageStep /\ stable'.head = disk.head /\ stable'.name = disk.name
      BY <1>23, SyncFacts DEF CommitSync, Continue
  <2>3. Core'
      BY <2>1, <2>2, StorageKeepsCore
  <2>4. Mirrors'
      BY <1>23 DEF CommitSync, Continue, Mirrors
  <2>5. AtStep'
      BY <1>23, <2>2 DEF CommitSync, Continue, Mirrors, AtStep
  <2>. QED
      BY <2>1, <2>3, <2>4, <2>5
<1>24. ASSUME Anchor
      PROVE  HeadInv'
  <2>1. TypeOK'
      BY <1>24 DEF Anchor, SetAttribute, Continue, Mirrors, AtStep, TypeOK, Directories,
         Checkpoints, Steps, Resting, Bytes
  <2>a. /\ disk'.name = disk.name /\ disk'.data = disk.data /\ disk'.temp = disk.temp
        /\ disk'.head = [committed |-> disk.head.committed, pending |-> issued]
        /\ stable' = stable /\ issued' = issued /\ served' = served
    <3>1. cp = disk.head /\ cp \in Checkpoints
      BY <1>24 DEF Anchor, Mirrors, TypeOK
    <3>. QED
      BY <1>24, <3>1 DEF Anchor, SetAttribute, Continue, TypeOK, Directories, Checkpoints
  <2>h. Heads' \subseteq {stable.head, disk'.head}
      BY <2>a DEF Heads
  <2>b. disk.head.pending = 0 /\ disk.head.committed < issued /\ disk.data[issued] = "empty" /\ issued \in Generations
      BY <1>24 DEF Anchor, Mirrors, AtStep, TypeOK, Core, Known, Written, Whole, Heads,
         Names, InOrder
  <2>3. Core'
    <3>1. Whole'
      BY <2>a, <2>b DEF Core, Whole, Heads, Names
    <3>2. Written'
      BY <2>a DEF Core, Written
    <3>3. Known'
      <4>. SUFFICES ASSUME NEW h \in Heads', NEW g \in Generations, disk.data[g] # "empty"
                    PROVE  g <= h.committed \/ g = h.pending
          BY <2>a DEF Known
      <4>1. CASE h = stable.head
          BY <4>1 DEF Core, Known, Heads
      <4>2. CASE h = disk'.head
        <5>1. g <= disk.head.committed \/ g = disk.head.pending
          BY DEF Core, Known, Heads
        <5>2. g \in Nat /\ disk.head.committed \in Nat /\ disk.head.pending \in Nat
          BY Zenon DEF Heads
        <5>. QED
          BY <2>a, <2>b, <4>2, <5>1, <5>2
      <4>. QED
          BY <2>h, <4>1, <4>2
    <3>4. Anchored'
      BY <2>a, <2>b DEF Anchored
    <3>5. InOrder'
      <4>1. issued \in Nat /\ issued' = issued /\ disk.head.committed \in Nat /\ disk.head.pending \in Nat
          BY <2>a, Zenon DEF TypeOK, Heads
      <4>2. /\ disk.head \in Heads /\ stable.head \in Heads
          BY DEF Heads
      <4>3. /\ disk'.head.committed <= issued /\ disk'.head.pending <= issued
            /\ disk'.head.pending # 0 => disk'.head.committed < disk'.head.pending
          BY <2>a, <2>b, <4>1, <4>2 DEF Core, InOrder
      <4>4. /\ stable.head.committed <= issued /\ stable.head.pending <= issued
            /\ stable.head.pending # 0 => stable.head.committed < stable.head.pending
          BY <4>2 DEF Core, InOrder
      <4>. QED
          BY <2>h, <4>1, <4>3, <4>4 DEF InOrder
    <3>6. ServedStable'
      BY <2>a DEF Core, ServedStable
    <3>. QED
      BY <3>1, <3>2, <3>3, <3>4, <3>5, <3>6 DEF Core
  <2>4. Mirrors'
      BY <1>24 DEF Anchor, Continue, Mirrors
  <2>5. AtStep'
      BY <1>24, <2>a, <2>b DEF Anchor, Continue, AtStep
  <2>. QED
      BY <2>1, <2>3, <2>4, <2>5
<1>25. ASSUME abandonPending
      PROVE  HeadInv'
  <2>1. TypeOK'
      BY <1>25 DEF abandonPending, AllowReconcile, SetAttribute, Continue, Mirrors,
         AtStep, TypeOK, Directories, Checkpoints, Steps, Resting, Bytes
  <2>a. /\ disk'.name = disk.name /\ disk'.data = disk.data /\ disk'.temp = disk.temp
        /\ disk'.head = [committed |-> disk.head.committed, pending |-> 0]
        /\ stable' = stable /\ issued' = issued /\ served' = served
    <3>1. cp = disk.head /\ cp \in Checkpoints
      BY <1>25 DEF abandonPending, AllowReconcile, Mirrors, TypeOK
    <3>. QED
      BY <1>25, <3>1 DEF abandonPending, AllowReconcile, SetAttribute, Continue, TypeOK,
         Directories, Checkpoints
  <2>h. Heads' \subseteq {stable.head, disk'.head}
      BY <2>a DEF Heads
  <2>b. /\ disk.head.pending \in Generations /\ disk.data[disk.head.pending] = "empty"
        /\ stable.data[disk.head.pending] # "full"
      BY <1>25 DEF abandonPending, AllowReconcile, Mirrors, AtStep, TypeOK, Core, Known,
         Written, Whole, Heads, Names, InOrder
  <2>3. Core'
    <3>1. Whole'
      BY <2>a, <2>b DEF Core, Whole, Heads, Names
    <3>2. Written'
      BY <2>a DEF Core, Written
    <3>3. Known'
      <4>. SUFFICES ASSUME NEW h \in Heads', NEW g \in Generations, disk.data[g] # "empty"
                    PROVE  g <= h.committed \/ g = h.pending
          BY <2>a DEF Known
      <4>1. CASE h = stable.head
          BY <4>1 DEF Core, Known, Heads
      <4>2. CASE h = disk'.head
        <5>1. g <= disk.head.committed \/ g = disk.head.pending
          BY DEF Core, Known, Heads
        <5>2. g \in Nat /\ disk.head.committed \in Nat /\ disk.head.pending \in Nat
          BY Zenon DEF Heads
        <5>. QED
          BY <2>a, <2>b, <4>2, <5>1, <5>2
      <4>. QED
          BY <2>h, <4>1, <4>2
    <3>4. Anchored'
      BY <2>a, <2>b DEF Anchored
    <3>5. InOrder'
      <4>1. issued \in Nat /\ issued' = issued /\ disk.head.committed \in Nat /\ disk.head.pending \in Nat
          BY <2>a, Zenon DEF TypeOK, Heads
      <4>2. /\ disk.head \in Heads /\ stable.head \in Heads
          BY DEF Heads
      <4>3. /\ disk'.head.committed <= issued /\ disk'.head.pending <= issued
            /\ disk'.head.pending # 0 => disk'.head.committed < disk'.head.pending
          BY <2>a, <2>b, <4>1, <4>2 DEF Core, InOrder
      <4>4. /\ stable.head.committed <= issued /\ stable.head.pending <= issued
            /\ stable.head.pending # 0 => stable.head.committed < stable.head.pending
          BY <4>2 DEF Core, InOrder
      <4>. QED
          BY <2>h, <4>1, <4>3, <4>4 DEF InOrder
    <3>6. ServedStable'
      BY <2>a DEF Core, ServedStable
    <3>. QED
      BY <3>1, <3>2, <3>3, <3>4, <3>5, <3>6 DEF Core
  <2>4. Mirrors'
      BY <1>25 DEF abandonPending, AllowReconcile, Continue, Mirrors
  <2>5. AtStep'
      BY <1>25, <2>a, <2>b DEF abandonPending, AllowReconcile, Continue, AtStep
  <2>. QED
      BY <2>1, <2>3, <2>4, <2>5
<1>26. ASSUME Commit
      PROVE  HeadInv'
  <2>1. TypeOK'
      BY <1>26 DEF Commit, SetAttribute, Continue, Mirrors, AtStep, TypeOK, Directories,
         Checkpoints, Steps, Resting, Bytes
  <2>a. /\ disk'.name = disk.name /\ disk'.data = disk.data /\ disk'.temp = disk.temp
        /\ disk'.head = [committed |-> disk.head.pending, pending |-> 0]
        /\ stable' = stable /\ issued' = issued /\ served' = served
    <3>1. cp = disk.head /\ cp \in Checkpoints
      BY <1>26 DEF Commit, Mirrors, TypeOK
    <3>. QED
      BY <1>26, <3>1 DEF Commit, SetAttribute, Continue, TypeOK, Directories, Checkpoints
  <2>h. Heads' \subseteq {stable.head, disk'.head}
      BY <2>a DEF Heads
  <2>b. /\ disk.head.pending \in Generations /\ disk.head.committed < disk.head.pending
        /\ disk.name = disk.head.pending /\ stable.name = disk.head.pending
        /\ stable.data[disk.head.pending] = "full"
      BY <1>26, Zenon DEF Commit, Mirrors, AtStep, TypeOK, Core, Known, Written, Whole, Heads,
         Names, InOrder
  <2>3. Core'
    <3>1. Whole'
      BY <2>a, <2>b DEF Core, Whole, Heads, Names
    <3>2. Written'
      BY <2>a DEF Core, Written
    <3>3. Known'
      <4>. SUFFICES ASSUME NEW h \in Heads', NEW g \in Generations, disk.data[g] # "empty"
                    PROVE  g <= h.committed \/ g = h.pending
          BY <2>a DEF Known
      <4>1. CASE h = stable.head
          BY <4>1 DEF Core, Known, Heads
      <4>2. CASE h = disk'.head
        <5>1. g <= disk.head.committed \/ g = disk.head.pending
          BY DEF Core, Known, Heads
        <5>2. g \in Nat /\ disk.head.committed \in Nat /\ disk.head.pending \in Nat
          BY Zenon DEF Heads
        <5>. QED
          BY <2>a, <2>b, <4>2, <5>1, <5>2
      <4>. QED
          BY <2>h, <4>1, <4>2
    <3>4. Anchored'
      BY <2>a, <2>b DEF Anchored
    <3>5. InOrder'
      <4>1. issued \in Nat /\ issued' = issued /\ disk.head.committed \in Nat /\ disk.head.pending \in Nat
          BY <2>a, Zenon DEF TypeOK, Heads
      <4>2. /\ disk.head \in Heads /\ stable.head \in Heads
          BY DEF Heads
      <4>3. /\ disk'.head.committed <= issued /\ disk'.head.pending <= issued
            /\ disk'.head.pending # 0 => disk'.head.committed < disk'.head.pending
          BY <2>a, <2>b, <4>1, <4>2 DEF Core, InOrder
      <4>4. /\ stable.head.committed <= issued /\ stable.head.pending <= issued
            /\ stable.head.pending # 0 => stable.head.committed < stable.head.pending
          BY <4>2 DEF Core, InOrder
      <4>. QED
          BY <2>h, <4>1, <4>3, <4>4 DEF InOrder
    <3>6. ServedStable'
      BY <2>a DEF Core, ServedStable
    <3>. QED
      BY <3>1, <3>2, <3>3, <3>4, <3>5, <3>6 DEF Core
  <2>4. Mirrors'
      BY <1>26 DEF Commit, Continue, Mirrors
  <2>5. AtStep'
      BY <1>26, <2>a, <2>b DEF Commit, Continue, AtStep
  <2>. QED
      BY <2>1, <2>3, <2>4, <2>5
<1>27. ASSUME NEW b \in Bytes, Write(b)
      PROVE  HeadInv'
  <2>1. TypeOK'
      BY <1>27 DEF Write, Continue, AtStep, TypeOK, Directories, Checkpoints, Steps,
         Resting, Bytes
  <2>a. /\ disk'.name = disk.name /\ disk'.head = disk.head /\ disk'.temp = disk.temp
        /\ disk'.data = [disk.data EXCEPT ![issued] = b] /\ b # "empty"
        /\ stable' = stable /\ issued' = issued /\ served' = served
      BY <1>27 DEF Write, Continue, TypeOK, Directories
  <2>b. /\ disk.head.pending = issued /\ stable.head = disk.head /\ issued \in Generations
        /\ disk.data[issued] # "full" /\ stable.data[issued] # "full"
      BY <1>27 DEF Write, AtStep, TypeOK, Core, Written
  <2>c. \A g \in Generations : disk'.data[g] = IF g = issued THEN b ELSE disk.data[g]
      BY <2>a
  <2>3. Core'
    <3>1. Whole'
      BY <2>a DEF Core, Whole, Heads, Names
    <3>2. Written'
      BY <2>a, <2>b, <2>c DEF Core, Written
    <3>3. Known'
      BY <2>a, <2>b, <2>c DEF Core, Known, Heads
    <3>4. Anchored'
      BY <2>a, <2>b DEF Anchored
    <3>5. InOrder'
      BY <2>a DEF Core, InOrder, Heads
    <3>6. ServedStable'
      BY <2>a DEF Core, ServedStable
    <3>. QED
      BY <3>1, <3>2, <3>3, <3>4, <3>5, <3>6 DEF Core
  <2>4. Mirrors'
      BY <1>27, <2>a DEF Write, Continue, Mirrors
  <2>5. AtStep'
      BY <1>27, <2>a, <2>b, <2>c DEF Write, Continue, AtStep
  <2>. QED
      BY <2>1, <2>3, <2>4, <2>5
<1>28. ASSUME FileSync
      PROVE  HeadInv'
  <2>1. TypeOK'
      BY <1>28, Zenon DEF FileSync, SyncFile, Census, AtStep, TypeOK, Directories, Checkpoints,
         Steps, Resting, Bytes
  <2>2. StorageStep
      BY <1>28 DEF FileSync, SyncFile, Census, AtStep, TypeOK, Directories, StorageStep,
         Names, Heads
  <2>3. Core'
      BY <2>1, <2>2, StorageKeepsCore
  <2>4. Mirrors'
      BY <1>28 DEF FileSync, Census, Mirrors
  <2>5. AtStep'
      BY <1>28 DEF FileSync, Census, Mirrors, AtStep
  <2>. QED
      BY <2>1, <2>3, <2>4, <2>5
<1>29. ASSUME Settle
      PROVE  HeadInv'
  <2>a. /\ cp = disk.head /\ cp.pending \in Generations /\ disk' = disk
        /\ issued' = issued /\ served' = served
    <3>1. pc = "settle"
      BY <1>29 DEF Settle
    <3>2. cp = disk.head /\ cp.pending \in Generations
      BY <3>1, Zenon DEF Mirrors, AtStep, TypeOK, Checkpoints
    <3>3. disk' = disk /\ issued' = issued /\ served' = served
      BY <1>29 DEF Settle, Refuse, Continue, Census, Rest
    <3>. QED
      BY <3>2, <3>3
  <2>b. \/ stable' = stable
        \/ SyncFile(cp.pending)
      BY <1>29 DEF Settle
  <2>c. stable' \in Directories /\ StorageStep
      BY <2>a, <2>b DEF SyncFile, TypeOK, Directories, StorageStep, Names, Heads
  <2>1. TypeOK'
    <3>1. CASE Refuse
      BY <2>a, <2>c, <3>1, RefuseTypes DEF TypeOK
    <3>2. CASE \E next \in {"rename", "directorySync"} : Continue(next) /\ cp' = cp
      BY <2>a, <2>c, <3>2 DEF Continue, TypeOK, Steps
    <3>. QED
      BY <1>29, <3>1, <3>2 DEF Settle
  <2>3. Core'
      BY <2>1, <2>c, StorageKeepsCore
  <2>4. Mirrors'
      BY <1>29, <2>a DEF Settle, Refuse, Continue, Census, Rest, Mirrors
  <2>5. AtStep'
    <3>1. CASE pc' = "rename"
      <4>1. /\ matches(disk.temp[cp.pending], cp.pending) /\ SyncFile(cp.pending)
            /\ cp' = cp /\ op' = op /\ pc' = "rename"
        BY <1>29, <3>1 DEF Settle, Refuse, Continue, Census, Rest
      <4>2. disk.temp[cp.pending] = cp.pending /\ stable'.data[cp.pending] = "full"
        BY <2>a, <4>1 DEF matches, SyncFile, TypeOK, Directories
      <4>. QED
        BY <2>a, <4>1, <4>2 DEF AtStep
    <3>2. CASE pc' # "rename"
      BY <1>29, <2>a, <3>2 DEF Settle, Refuse, Continue, Census, Rest, AtStep
    <3>. QED
      BY <3>1, <3>2
  <2>. QED
      BY <2>1, <2>3, <2>4, <2>5
<1>30. ASSUME Rename
      PROVE  HeadInv'
  <2>a. /\ cp = disk.head /\ cp.pending \in Generations /\ disk.temp[cp.pending] = cp.pending
        /\ stable.data[cp.pending] = "full" /\ disk.data[cp.pending] = "full"
        /\ stable.head = disk.head
    <3>1. pc = "rename"
      BY <1>30 DEF Rename
    <3>2. cp = disk.head /\ cp.pending \in Generations
      BY <3>1, Zenon DEF Mirrors, AtStep, TypeOK, Checkpoints
    <3>3. disk.temp[cp.pending] = cp.pending /\ stable.data[cp.pending] = "full"
      BY <3>1 DEF AtStep
    <3>. QED
      BY <3>2, <3>3, Zenon DEF Core, Written, Anchored
  <2>b. /\ disk'.name = cp.pending /\ disk'.head = disk.head /\ disk'.data = disk.data
        /\ stable' = stable /\ issued' = issued /\ served' = served
      BY <1>30, <2>a DEF Rename, Continue, TypeOK, Directories
  <2>1. TypeOK'
      BY <1>30, <2>a, Zenon DEF Rename, Continue, TypeOK, Directories, Checkpoints, Steps,
         Resting, Bytes
  <2>3. Core'
    <3>1. Whole'
      BY <2>a, <2>b DEF Core, Whole, Heads, Names
    <3>2. Written'
      BY <2>b DEF Core, Written
    <3>3. Known'
      BY <2>b DEF Core, Known, Heads
    <3>4. Anchored'
      BY <2>b DEF Core, Anchored
    <3>5. InOrder'
      BY <2>b DEF Core, InOrder, Heads
    <3>6. ServedStable'
      BY <2>b DEF Core, ServedStable
    <3>. QED
      BY <3>1, <3>2, <3>3, <3>4, <3>5, <3>6 DEF Core
  <2>4. Mirrors'
      BY <1>30, <2>b DEF Rename, Continue, Mirrors
  <2>5. AtStep'
      BY <1>30, <2>a, <2>b DEF Rename, Continue, AtStep
  <2>. QED
      BY <2>1, <2>3, <2>4, <2>5
<1>31. ASSUME DirectorySync
      PROVE  HeadInv'
  <2>a. /\ cp = disk.head /\ cp.pending \in Generations /\ disk' = disk
        /\ issued' = issued /\ served' = served
    <3>1. pc = "directorySync"
      BY <1>31 DEF DirectorySync
    <3>2. cp = disk.head /\ cp.pending \in Generations
      BY <3>1, Zenon DEF Mirrors, AtStep, TypeOK, Checkpoints
    <3>3. disk' = disk /\ issued' = issued /\ served' = served
      BY <1>31 DEF DirectorySync, Refuse, Continue, Census, Rest
    <3>. QED
      BY <3>2, <3>3
  <2>b. \/ stable' = stable
        \/ stable' = [disk EXCEPT !.data = [stable.data EXCEPT ![cp.pending] = disk.data[cp.pending]]]
      BY <1>31 DEF DirectorySync
  <2>c. stable' \in Directories /\ StorageStep
      BY <2>a, <2>b DEF TypeOK, Directories, StorageStep, Names, Heads
  <2>1. TypeOK'
    <3>1. CASE Refuse
      BY <2>a, <2>c, <3>1, RefuseTypes DEF TypeOK
    <3>2. CASE \E next \in {"commit", "unlink"} : Continue(next) /\ cp' = cp
      BY <2>a, <2>c, <3>2 DEF Continue, TypeOK, Steps
    <3>. QED
      BY <1>31, <3>1, <3>2 DEF DirectorySync
  <2>3. Core'
      BY <2>1, <2>c, StorageKeepsCore
  <2>4. Mirrors'
      BY <1>31, <2>a DEF DirectorySync, Refuse, Continue, Census, Rest, Mirrors
  <2>5. AtStep'
    <3>1. CASE pc' \in {"unlink", "commit"}
      <4>1. /\ matches(disk.name, cp.pending) /\ cp' = cp /\ op' = op
            /\ stable' = [disk EXCEPT !.data = [stable.data EXCEPT ![cp.pending] = disk.data[cp.pending]]]
        BY <1>31, <3>1 DEF DirectorySync, Refuse, Continue, Census, Rest
      <4>2. disk.name = cp.pending /\ stable'.name = cp.pending
        BY <2>a, <4>1 DEF matches, TypeOK, Directories
      <4>. QED
        BY <2>a, <3>1, <4>1, <4>2 DEF AtStep
    <3>2. CASE pc' \notin {"unlink", "commit"}
      BY <1>31, <2>a, <3>2 DEF DirectorySync, Refuse, Continue, Census, Rest, AtStep
    <3>. QED
      BY <3>1, <3>2
  <2>. QED
      BY <2>1, <2>3, <2>4, <2>5
<1>32. ASSUME Acknowledge
      PROVE  HeadInv'
  <2>a. cp = disk.head /\ disk.head.pending = 0 /\ disk' = disk /\ cp' = cp
      BY <1>32 DEF Acknowledge, Mirrors, AtStep
  <2>b. SyncDirectory /\ Admit(cp)
      BY <1>32 DEF Acknowledge
  <2>c. /\ served' = served \/ Serves
        /\ served' \in Inodes /\ issued' = issued /\ storage' = storage
        /\ pc' \in {"ready", "refused"} /\ op' = "open" /\ finishing' = FALSE
        /\ todo' = {} /\ removed' = FALSE /\ nonce' = 0
      BY <2>a, <2>b, AdmitFacts DEF Core
  <2>d. StorageStep /\ stable' \in Directories
      BY <2>a, <2>b, <2>c, SyncFacts
  <2>1. TypeOK'
      BY <2>a, <2>c, <2>d, Zenon DEF TypeOK, Steps, Resting
  <2>3. Core'
      BY <2>1, <2>d, StorageKeepsCore
  <2>4. Mirrors'
      BY <2>a DEF Mirrors
  <2>5. AtStep'
      BY <2>a, <2>c DEF AtStep
  <2>. QED
      BY <2>1, <2>3, <2>4, <2>5
<1>33. ASSUME CensusEnds
      PROVE  HeadInv'
  <2>a. cp = disk.head /\ disk' = disk
      BY <1>33 DEF CensusEnds, Mirrors
  <2>b. stable' = stable \/ SyncDirectory
      BY <1>33 DEF CensusEnds
  <2>c. ASSUME issued' = issued, served' = served \/ Serves
        PROVE  StorageStep /\ stable' \in Directories
    <3>1. CASE SyncDirectory
      BY <2>a, <2>c, <3>1, SyncFacts
    <3>2. CASE stable' = stable
      BY <2>a, <2>c, <3>2 DEF StorageStep, TypeOK, Names, Heads
    <3>. QED
      BY <2>b, <3>1, <3>2
  <2>d. CASE op # "publish" /\ cp.pending = 0 /\ Admit(cp) /\ UNCHANGED cp
    <3>a. /\ served' = served \/ Serves
          /\ served' \in Inodes /\ issued' = issued /\ storage' = storage
          /\ pc' \in {"ready", "refused"} /\ op' = "open" /\ finishing' = FALSE
          /\ todo' = {} /\ removed' = FALSE /\ nonce' = 0
      BY <2>a, <2>d, AdmitFacts DEF Core
    <3>b. StorageStep /\ stable' \in Directories
      BY <2>c, <3>a
    <3>1. TypeOK'
      BY <2>a, <2>d, <3>a, <3>b, Zenon DEF TypeOK, Steps, Resting
    <3>2. Core'
      BY <3>1, <3>b, StorageKeepsCore
    <3>3. Mirrors'
      BY <2>a, <2>d DEF Mirrors
    <3>4. AtStep'
      BY <2>a, <2>d, <3>a DEF AtStep
    <3>. QED
      BY <3>1, <3>2, <3>3, <3>4
  <2>e. CASE /\ \/ op = "open" /\ cp.pending # 0 /\ Refuse
                \/ /\ op = "reconcile" /\ cp.pending # 0 /\ ~finishing
                   /\ Census("reconcile", TRUE) /\ UNCHANGED <<cp, issued, served>>
                \/ op = "publish" /\ ~finishing /\ Continue("mark") /\ UNCHANGED cp
                \/ finishing /\ Continue("settle") /\ UNCHANGED cp
    <3>a. issued' = issued /\ served' = served
      BY <2>e DEF Refuse, Census, Rest, Continue
    <3>b. StorageStep /\ stable' \in Directories
      BY <2>c, <3>a
    <3>c. /\ storage' = storage /\ pc' \in {"census", "mark", "settle"}
          /\ op' \in {"reconcile", op} /\ finishing' \in BOOLEAN
          /\ todo' \in {todo, disk.marker} /\ removed' \in BOOLEAN /\ nonce' \in {0, nonce}
          /\ cp' = disk.head
      BY <2>a, <2>e, Zenon DEF Refuse, Census, Continue, TypeOK
    <3>1. TypeOK'
      BY <2>a, <3>a, <3>b, <3>c DEF TypeOK, Directories, Steps
    <3>2. Core'
      BY <3>1, <3>b, StorageKeepsCore
    <3>3. Mirrors'
      BY <2>a, <3>c DEF Mirrors
    <3>4. AtStep'
      BY <1>33, <2>a, <2>e, <3>a DEF CensusEnds, Refuse, Census, Continue, AtStep
    <3>. QED
      BY <3>1, <3>2, <3>3, <3>4
  <2>1. TypeOK' /\ Core' /\ Mirrors' /\ AtStep'
      BY <1>33, <2>d, <2>e, Zenon DEF CensusEnds
  <2>. QED
      BY <2>1
<1>34. ASSUME PowerLoss
      PROVE  HeadInv'
  <2>a. disk' = stable /\ stable' = stable /\ issued' = issued /\ served' = served /\ pc' = "down"
      BY <1>34 DEF PowerLoss, Rest
  <2>1. TypeOK'
      BY <1>34, Zenon DEF PowerLoss, Rest, NoHead, TypeOK, Checkpoints, Steps, Resting
  <2>b. Heads' \subseteq Heads /\ Names' \subseteq Names
      BY <2>a DEF Heads, Names
  <2>3. Core'
    <3>1. Whole'
      BY <2>a, <2>b DEF Core, Whole
    <3>2. Written'
      BY <2>a DEF Core, Written
    <3>3. Known'
      BY <2>a, <2>b DEF Core, Known, Written
    <3>4. Anchored'
      BY <2>a DEF Anchored
    <3>5. InOrder'
      BY <2>a, <2>b DEF Core, InOrder
    <3>6. ServedStable'
      BY <2>a DEF Core, ServedStable
    <3>. QED
      BY <3>1, <3>2, <3>3, <3>4, <3>5, <3>6 DEF Core
  <2>4. Mirrors'
      BY <2>a DEF Mirrors
  <2>5. AtStep'
      BY <2>a, <1>34, ZenonT(30) DEF PowerLoss, Rest, AtStep
  <2>. QED
      BY <2>1, <2>3, <2>4, <2>5
<1>35. ASSUME Writeback
      PROVE  HeadInv'
  <2>a. UNCHANGED <<storage, disk, pc, op, finishing, cp, todo, removed, nonce, issued, served>>
      BY <1>35 DEF Writeback
  <2>b. StorageStep /\ stable' \in Directories
    <3>i. issued <= issued' /\ served' = served
      BY <2>a DEF TypeOK
    <3>1. CASE SyncDirectory
      BY <2>a, <3>1, SyncFacts
    <3>2. ASSUME NEW M \in SUBSET Generations, stable' = [stable EXCEPT !.marker = M]
          PROVE  StorageStep /\ stable' \in Directories
      BY <2>a, <3>i, <3>2 DEF StorageStep, TypeOK, Directories, Names, Heads
    <3>3. CASE stable' = [stable EXCEPT !.name = disk.name, !.temp = disk.temp]
      BY <2>a, <3>i, <3>3, Zenon DEF StorageStep, TypeOK, Directories, Names, Heads
    <3>4. CASE stable' = [stable EXCEPT !.head = disk.head]
      BY <2>a, <3>i, <3>4 DEF StorageStep, TypeOK, Directories, Names, Heads
    <3>5. ASSUME NEW g \in Generations, NEW b \in {"partial", disk.data[g]},
                 disk.data[g] # "empty", stable.data[g] # "full",
                 stable' = [stable EXCEPT !.data[g] = b]
          PROVE  StorageStep /\ stable' \in Directories
      <4>1. b \in Bytes
        BY <3>5 DEF Bytes
      <4>2. /\ stable'.name = stable.name /\ stable'.head = stable.head
            /\ stable'.data = [stable.data EXCEPT ![g] = b] /\ stable' \in Directories
        BY <3>5, <4>1 DEF TypeOK, Directories
      <4>. QED
        BY <2>a, <3>i, <3>5, <4>2 DEF StorageStep, Names, Heads
    <3>. QED
      <4>1. CASE WriteDirectory
        <5>1. disk.marker \subseteq Generations /\ stable.marker \subseteq Generations
          BY DEF TypeOK, Directories
        <5>2. ASSUME NEW m \in disk.marker, stable' = [stable EXCEPT !.marker = stable.marker \cup {m}]
              PROVE  StorageStep /\ stable' \in Directories
          <6>1. stable.marker \cup {m} \in SUBSET Generations
            BY <5>1
          <6>. QED
            BY <3>2, <5>2, <6>1, Zenon
        <5>3. ASSUME NEW m \in stable.marker, stable' = [stable EXCEPT !.marker = stable.marker \ {m}]
              PROVE  StorageStep /\ stable' \in Directories
          <6>1. stable.marker \ {m} \in SUBSET Generations
            BY <5>1
          <6>. QED
            BY <3>2, <5>3, <6>1, Zenon
        <5>. QED
          BY <3>1, <3>3, <3>4, <4>1, <5>2, <5>3 DEF WriteDirectory
      <4>2. CASE WriteFile
        BY <3>5, <4>2, Zenon DEF WriteFile
      <4>. QED
        BY <1>35, <4>1, <4>2 DEF Writeback
  <2>1. TypeOK'
      BY <2>a, <2>b DEF TypeOK
  <2>3. Core'
      BY <2>1, <2>b, StorageKeepsCore
  <2>4. Mirrors'
      BY <2>a DEF Mirrors
  <2>5. AtStep'
    <3>1. CASE pc \in {"write", "fileSync"}
      BY <2>a, <2>b, <3>1 DEF AtStep, StorageStep, Heads
    <3>2. CASE pc = "rename"
      <4>1. cp.pending \in Generations
        BY <3>2, Zenon DEF AtStep, TypeOK, Checkpoints
      <4>2. stable'.data[cp.pending] = "full"
        BY <2>b, <3>2, <4>1, Zenon DEF AtStep, StorageStep, Core, Written
      <4>. QED
        BY <2>a, <3>2, <4>2 DEF AtStep
    <3>3. CASE pc \in {"unlink", "unlinkSync", "commit"}
      BY <2>a, <2>b, <3>3, SMTT(30) DEF AtStep, StorageStep, Names
    <3>4. CASE pc \notin {"write", "fileSync", "rename", "unlink", "unlinkSync", "commit"}
      BY <2>a, <3>4 DEF AtStep, AllowReconcile
    <3>. QED
      BY <3>1, <3>2, <3>3, <3>4, SMTT(30)
  <2>. QED
      BY <2>1, <2>3, <2>4, <2>5
<1>36. ASSUME UNCHANGED vars
      PROVE  HeadInv'
  <2>1. TypeOK'
      BY <1>36, SMTT(30) DEF vars, TypeOK
  <2>3. Core'
      BY <1>36 DEF vars, Core, Whole, Written, Known, Anchored, InOrder, ServedStable,
         Heads, Names
  <2>4. Mirrors'
      BY <1>36 DEF vars, Mirrors
  <2>5. AtStep'
      BY <1>36 DEF vars, AtStep, AllowReconcile
  <2>. QED
      BY <2>1, <2>3, <2>4, <2>5
<1>. QED
    BY <1>1, <1>2, <1>3, <1>4, <1>5, <1>6, <1>7, <1>8, <1>9, <1>10, <1>11, <1>12, <1>13,
       <1>14, <1>15, <1>16, <1>17, <1>18, <1>19, <1>20, <1>21, <1>22, <1>23, <1>24, <1>25,
       <1>26, <1>27, <1>28, <1>29, <1>30, <1>31, <1>32, <1>33, <1>34, <1>35, <1>36
    DEF Next, Work, Fault

\* The invariant holds in every state a head can be in.
THEOREM HeadInvariant == Spec => []HeadInv
<1>1. Init => HeadInv
  <2>. SUFFICES ASSUME Init
                PROVE  HeadInv
      OBVIOUS
  <2>. USE Numbers DEF Init, NoHead
  <2>1. TypeOK
      BY Zenon DEF TypeOK, Directories, Checkpoints, Steps, Resting, Bytes
  <2>2. Core
      BY DEF Core, Whole, Written, Known, Anchored, InOrder, ServedStable, Heads, Names
  <2>3. Mirrors /\ AtStep
      BY DEF Mirrors, AtStep
  <2>. QED
      BY <2>1, <2>2, <2>3 DEF HeadInv
<1>. QED
    BY <1>1, HeadPreserved, PTL DEF Spec

\* The name of the snapshot always holds the complete bytes of the committed or of the
\* anchored generation, now and after a power loss: finishPending exchanges, syncs,
\* unlinks and commits in an order that leaves no gap.
THEOREM SnapshotWhole == Spec => []NameWhole
<1>1. HeadInv => NameWhole
  <2>. SUFFICES ASSUME HeadInv, NEW d \in {disk, stable}
                PROVE  \/ d.name = 0 /\ d.head.committed = 0
                       \/ d.name \in {d.head.committed, d.head.pending} \ {0} /\ d.data[d.name] = "full"
      BY DEF NameWhole
  <2>1. d.head \in Heads /\ d.name \in Names /\ d.name \in Inodes
      BY Parts DEF Heads, Names, HeadInv
  <2>2. d.name # 0 /\ stable.data[d.name] = "full" => d.data[d.name] = "full"
      BY <2>1, Numbers, Zenon DEF HeadInv, Core, Written
  <2>. QED
      BY <2>1, <2>2 DEF HeadInv, Core, Whole
<1>. QED
    BY <1>1, HeadInvariant, PTL

\* No owner is ever returned, by Open, Reconcile or an acknowledged Publish, that would
\* forget a generation whose complete bytes reached stable storage.
THEOREM NoPreparedLost == Spec => []PreparedKept
<1>1. HeadInv => PreparedKept
  <2>. SUFFICES ASSUME HeadInv, pc = "ready", NEW g \in Generations, stable.data[g] = "full"
                PROVE  g <= cp.committed
      BY DEF PreparedKept
  <2>1. cp = disk.head /\ disk.head.pending = 0 /\ disk.head \in Heads
      BY DEF HeadInv, Mirrors, AtStep, Heads
  <2>2. disk.data[g] # "empty"
      BY DEF HeadInv, Core, Written
  <2>. QED
      BY <2>1, <2>2, Numbers DEF HeadInv, Core, Known
<1>. QED
    BY <1>1, HeadInvariant, PTL

\* What the application was given is never taken back: the generation an owner is
\* returned with is at least every generation returned before, across kills, failed
\* calls and power losses.
THEOREM ServedMonotone == Spec => NeverBackwards
<1>1. HeadInv /\ [Next]_vars => [served' >= served]_vars
  <2>. SUFFICES ASSUME HeadInv, Next
                PROVE  served' >= served
      BY DEF vars
  <2>. USE Numbers
  <2>1. served \in Nat
      BY DEF HeadInv, TypeOK
  <2>2. CASE served' = served
      BY <2>1, <2>2
  <2>3. ASSUME Admit(cp), pc \in {"census", "unmarkSync"}, cp.pending = 0
        PROVE  served' >= served
    <3>1. cp = disk.head /\ disk.head \in Heads /\ disk.head.committed \in Nat
      BY <2>3, Parts, Zenon DEF HeadInv, Mirrors, Heads
    <3>2. served # 0 => served <= disk.head.committed
      <4>1. served # 0 => served \in Generations /\ stable.data[served] = "full"
        BY Zenon DEF HeadInv, TypeOK, Core, ServedStable
      <4>2. served # 0 => disk.data[served] # "empty"
        BY <4>1, Zenon DEF HeadInv, Core, Written
      <4>. QED
        BY <2>3, <3>1, <4>1, <4>2, Zenon DEF HeadInv, Core, Known
    <3>. QED
      BY <2>1, <2>3, <3>1, <3>2 DEF Admit, Rest
  <2>4. CASE CensusEnds \/ Acknowledge
    <3>1. CASE CensusEnds
      BY <2>2, <2>3, <3>1 DEF CensusEnds, Refuse, Census, Continue
    <3>2. CASE Acknowledge
      <4>1. cp.pending = 0
        BY <3>2 DEF Acknowledge, HeadInv, Mirrors, AtStep
      <4>. QED
        BY <2>3, <3>2, <4>1 DEF Acknowledge
    <3>. QED
      BY <2>4, <3>1, <3>2
  <2>5. CASE Publish \/ Fault \/ Writeback
    BY <2>2, <2>5, Zenon DEF Publish, Fault, Fail, Stop, PowerLoss, Writeback
  <2>6. CASE Work /\ ~(CensusEnds \/ Acknowledge)
    <3>1. served' = served
      BY <2>6, Zenon DEF Work, Open, CensusRefuses, Refuse, ClearMarker, KeepMarker, Abandon, ClearPair,
           AbandonSync, abandonPending, AbandonedSync, AbandonUnmark, AbandonEnd, PairSync,
           PairUnmark, writeCreateMarker, MarkerSync, CreateTemporary, Anchor, AnchorSync, Write,
           FileSync, Settle, Rename, DirectorySync, Unlink, UnlinkSync, Commit, CommitSync,
           removeCreateMarker, Continue
    <3>. QED
      BY <2>2, <3>1
  <2>. QED
    BY <2>4, <2>5, <2>6 DEF Next
<1>. QED
    BY <1>1, HeadInvariant, PTL DEF Spec, NeverBackwards
-----------------------------------------------------------------------------

\* The entries of a directory, without the bytes of the files.
SameEntries(e, d) == e.name = d.name /\ e.temp = d.temp /\ e.marker = d.marker /\ e.head = d.head

\* A temporary has its marker until its publication is anchored.
Marked(d) == \A g \in Generations : d.temp[g] # 0 => g = d.head.pending \/ g \in d.marker

\* An anchored publication with bytes has them at the temporary, or, exchanged, at the
\* name with the predecessor or nothing at the temporary.
Placed(d) ==
    \A g \in Generations : g = d.head.pending /\ disk.data[g] # "empty" =>
        \/ d.temp[g] = g /\ d.name = d.head.committed
        \/ d.name = g /\ d.temp[g] \in {0, d.head.committed}

\* The bytes of what is or was committed are complete.
CommittedFull == \A h \in Heads, g \in Generations : g = h.committed => stable.data[g] = "full"

\* The entries that the steps of a publication and of finishPending rely on.
Entries ==
    /\ pc \in {"markSync", "create", "anchor"} => issued \in disk.marker
    /\ pc \in {"anchor", "anchorSync", "write"} => disk.temp[issued] = issued
    /\ pc \in {"anchorSync", "write"} => disk.name = disk.head.committed
    /\ pc = "write" => stable.temp[issued] = issued /\ stable.name = stable.head.committed
    /\ pc = "directorySync" => disk.name = cp.pending
    /\ pc \in {"unlinkSync", "commit"} => disk.temp[cp.pending] = 0
    /\ pc \in {"commitSync", "unmark"}
           => disk.head.committed # 0 /\ disk.temp[disk.head.committed] = 0

Clearing == {"pairSync", "pairUnmark", "abandonSync", "abandon", "abandoned", "abandonUnmark",
             "abandonEnd"}

\* What the census has behind it: no temporary of a marker it has passed, except the
\* anchored one, and none at all of another publication once Reconcile finishes.
Passed ==
    /\ pc \in Clearing => nonce # 0 /\ disk.temp[nonce] = 0
    /\ pc \in {"abandonSync", "abandon"} => nonce = cp.pending
    /\ pc \in Clearing \cup {"census"} /\ AllowReconcile
           => \A g \in disk.marker \ todo : disk.temp[g] = 0 \/ g = disk.head.pending
    /\ pc = "census" /\ op = "reconcile" /\ finishing
           => \A g \in Generations : disk.temp[g] # 0 => g = disk.head.pending

\* Storage that keeps the order of the changes of the directory.
Ordered ==
    /\ Marked(disk) /\ Marked(stable) /\ Placed(disk) /\ Placed(stable)
    /\ Entries /\ Passed

EntryInv == CommittedFull /\ (storage # "unordered" => Ordered) /\ RefusedIncomplete

\* What a step brings to stable storage: complete bytes stay, the checkpoint is one that
\* was there, and with the order of changes the entries are the old ones or those of now.
LEMMA StableMoves ==
    ASSUME HeadInv, [Next]_vars
    PROVE  /\ \A g \in Generations : stable.data[g] = "full" => stable'.data[g] = "full"
           /\ stable'.head \in Heads
           /\ storage # "unordered" =>
                  SameEntries(stable', stable) \/ (SameEntries(stable', disk) /\ disk' = disk)
<1>. DEFINE Goal == /\ \A g \in Generations : stable.data[g] = "full" => stable'.data[g] = "full"
                    /\ stable'.head \in Heads
                    /\ storage # "unordered" =>
                           SameEntries(stable', stable) \/ (SameEntries(stable', disk) /\ disk' = disk)
<1>t. disk \in Directories /\ stable \in Directories
    BY DEF HeadInv, TypeOK
<1>w. \A g \in Generations : stable.data[g] = "full" => disk.data[g] = "full"
    BY DEF HeadInv, Core, Written
<1>1. CASE stable' = stable
    BY <1>1 DEF SameEntries, Heads
<1>2. CASE SyncDirectory /\ UNCHANGED disk
    BY <1>2, <1>t DEF SyncDirectory, SameEntries, Heads, Directories
<1>3. ASSUME NEW f \in Generations, SyncFile(f)
      PROVE  Goal
  <2>1. /\ stable'.name = stable.name /\ stable'.temp = stable.temp
        /\ stable'.marker = stable.marker /\ stable'.head = stable.head
        /\ stable'.data = [stable.data EXCEPT ![f] = disk.data[f]]
    BY <1>3, <1>t DEF SyncFile, Directories
  <2>2. stable.data \in [Generations -> Bytes]
    BY <1>t DEF Directories
  <2>3. \A g \in Generations : stable.data[g] = "full" => stable'.data[g] = "full"
    BY <1>w, <2>1, <2>2
  <2>. QED
    BY <2>1, <2>3 DEF SameEntries, Heads
<1>4. CASE DirectorySync
  <2>1. CASE stable' = stable
    BY <1>1, <2>1
  <2>2. CASE stable' # stable
    <3>1. PICK p : p = cp.pending
      OBVIOUS
    <3>2. /\ stable' = [disk EXCEPT !.data = [stable.data EXCEPT ![p] = disk.data[p]]]
          /\ disk' = disk
      BY <1>4, <2>2, <3>1, Zenon DEF DirectorySync
    <3>3. SameEntries(stable', disk) /\ stable'.data = [stable.data EXCEPT ![p] = disk.data[p]]
      BY <3>2, <1>t DEF SameEntries, Directories
    <3>4. stable.data \in [Generations -> Bytes]
      BY <1>t DEF Directories
    <3>5. \A g \in Generations : stable.data[g] = "full" => stable'.data[g] = "full"
      BY <1>w, <3>3, <3>4
    <3>. QED
      BY <3>2, <3>3, <3>5 DEF SameEntries, Heads
  <2>. QED
    BY <2>1, <2>2
<1>5. CASE Writeback
  <2>1. CASE storage = "journal" /\ SyncDirectory
    BY <1>2, <1>5, <2>1 DEF Writeback
  <2>2. CASE storage = "unordered" /\ WriteDirectory
    BY <1>t, <2>2, ZenonT(30) DEF WriteDirectory, Directories, Heads
  <2>3. CASE WriteFile
    <3>1. PICK f \in Generations, b \in Bytes : stable.data[f] # "full" /\ stable' = [stable EXCEPT !.data[f] = b]
      BY <1>t, <2>3, ZenonT(30) DEF WriteFile, Directories, Bytes
    <3>2. SameEntries(stable', stable) /\ stable'.data = [stable.data EXCEPT ![f] = b]
      BY <3>1, <1>t DEF SameEntries, Directories
    <3>3. \A g \in Generations : stable.data[g] = "full" => stable'.data[g] = "full"
      BY <3>1, <3>2, <1>t DEF Directories
    <3>. QED
      BY <3>2, <3>3 DEF SameEntries, Heads
  <2>. QED
    BY <1>5, <2>1, <2>2, <2>3 DEF Writeback, WriteDirectory
<1>6. CASE Settle \/ FileSync
  <2>1. CASE FileSync
    <3>1. issued \in Generations /\ SyncFile(issued)
      BY <2>1, Numbers DEF FileSync, HeadInv, TypeOK, AtStep
    <3>. QED
      BY <1>3, <3>1
  <2>2. CASE Settle
    <3>1. cp.pending \in Generations
      BY <2>2, Numbers, ZenonT(30) DEF Settle, HeadInv, TypeOK, AtStep, Checkpoints
    <3>2. stable' = stable \/ SyncFile(cp.pending)
      BY <2>2, Zenon DEF Settle
    <3>. QED
      BY <1>1, <1>3, <3>1, <3>2
  <2>. QED
    BY <1>6, <2>1, <2>2
<1>7. CASE \/ AbandonSync \/ AbandonedSync \/ AbandonEnd \/ PairSync \/ MarkerSync \/ AnchorSync
           \/ UnlinkSync \/ CommitSync \/ Acknowledge \/ CensusEnds
    BY <1>1, <1>2, <1>7, Zenon DEF AbandonSync, AbandonedSync, AbandonEnd, PairSync, MarkerSync, AnchorSync,
       UnlinkSync, CommitSync, Acknowledge, CensusEnds
<1>8. CASE \/ Open \/ CensusRefuses \/ Publish \/ Fault
           \/ \E m \in Generations : ClearMarker(m) \/ KeepMarker(m) \/ Abandon(m) \/ ClearPair(m)
           \/ abandonPending \/ AbandonUnmark \/ PairUnmark \/ writeCreateMarker \/ CreateTemporary
           \/ Anchor \/ (\E b \in Bytes : Write(b)) \/ Rename \/ Unlink \/ Commit
           \/ removeCreateMarker \/ UNCHANGED vars
  <2>1. stable' = stable
    BY <1>8, Zenon DEF Open, CensusRefuses, Publish, Fault, Fail, Stop, PowerLoss, ClearMarker, KeepMarker,
       Abandon, ClearPair, abandonPending, AbandonUnmark, PairUnmark, writeCreateMarker, CreateTemporary,
       Anchor, Write, Rename, Unlink, Commit, removeCreateMarker, vars
  <2>. QED
    BY <1>1, <2>1
<1>. QED
    BY <1>4, <1>5, <1>6, <1>7, <1>8, Zenon DEF Next, Work

\* A step that does not change the directory.
Still ==
    \/ Open \/ CensusRefuses \/ CensusEnds \/ (\E m \in Generations : KeepMarker(m))
    \/ AbandonSync \/ AbandonedSync \/ AbandonEnd \/ PairSync \/ Publish \/ MarkerSync \/ AnchorSync
    \/ FileSync \/ Settle \/ DirectorySync \/ UnlinkSync \/ CommitSync \/ Acknowledge
    \/ Fail \/ Stop \/ Writeback \/ UNCHANGED vars

\* A step that changes entries and neither the checkpoint nor the bytes.
Moving ==
    \/ \E m \in Generations : ClearMarker(m) \/ Abandon(m) \/ ClearPair(m)
    \/ AbandonUnmark \/ PairUnmark \/ writeCreateMarker \/ CreateTemporary \/ Rename \/ Unlink
    \/ removeCreateMarker

\* Every step is one of these, writes a checkpoint or bytes, or is a power loss.
LEMMA StepKinds ==
    ASSUME [Next]_vars
    PROVE  \/ Still \/ Moving \/ abandonPending \/ Anchor \/ (\E b \in Bytes : Write(b)) \/ Commit
           \/ PowerLoss
BY Zenon DEF Next, Work, Fault, Still, Moving

\* And a step that does not change the directory leaves it as it is.
LEMMA StillFacts == Still => disk' = disk
BY Zenon DEF Still, Open, CensusRefuses, CensusEnds, KeepMarker, AbandonSync, AbandonedSync, AbandonEnd,
     PairSync, Publish, MarkerSync, AnchorSync, FileSync, Settle, DirectorySync, UnlinkSync, CommitSync,
     Acknowledge, Fail, Stop, Writeback, vars

\* The checkpoint and the bytes after a step that moves entries.
LEMMA MovingFacts ==
    ASSUME TypeOK, Moving
    PROVE  disk'.head = disk.head /\ disk'.data = disk.data
<1>1. disk \in Directories
    BY DEF TypeOK
<1>2. CASE \E m \in Generations : ClearMarker(m) \/ Abandon(m) \/ ClearPair(m)
    BY <1>1, <1>2 DEF ClearMarker, Abandon, ClearPair, Directories
<1>3. CASE AbandonUnmark \/ PairUnmark \/ writeCreateMarker \/ removeCreateMarker
    BY <1>1, <1>3 DEF AbandonUnmark, PairUnmark, writeCreateMarker, removeCreateMarker, Directories
<1>4. CASE CreateTemporary \/ Rename \/ Unlink
    BY <1>1, <1>4, ZenonT(30) DEF CreateTemporary, Rename, Unlink, Directories
<1>. QED
    BY <1>2, <1>3, <1>4 DEF Moving

\* Only a write gives bytes to a file that had none.
LEMMA DataMoves ==
    ASSUME HeadInv, [Next]_vars, NEW g \in Generations, disk'.data[g] # "empty"
    PROVE  disk.data[g] # "empty" \/ (pc = "write" /\ g = issued)
<1>1. disk \in Directories /\ stable \in Directories
    BY DEF HeadInv, TypeOK
<1>2. CASE Still \/ Moving
    BY <1>2, StillFacts, MovingFacts DEF HeadInv
<1>3. CASE abandonPending \/ Anchor \/ Commit
    BY <1>1, <1>3 DEF abandonPending, Anchor, Commit, SetAttribute, Directories
<1>4. ASSUME NEW b \in Bytes, Write(b)
      PROVE  disk.data[g] # "empty" \/ (pc = "write" /\ g = issued)
  <2>1. pc = "write" /\ disk'.data = [disk.data EXCEPT ![issued] = b]
    BY <1>1, <1>4 DEF Write, Directories
  <2>2. disk.data \in [Generations -> Bytes]
    BY <1>1 DEF Directories
  <2>. QED
    BY <2>1, <2>2
<1>5. CASE PowerLoss
    BY <1>5 DEF PowerLoss, HeadInv, Core, Written
<1>. QED
    BY <1>2, <1>3, <1>4, <1>5, StepKinds

\* What is committed is complete on stable storage, and stays so.
LEMMA CommittedStep ==
    ASSUME HeadInv, CommittedFull, [Next]_vars
    PROVE  CommittedFull'
<1>1. disk \in Directories /\ stable \in Directories /\ cp \in Checkpoints /\ disk.head \in Checkpoints
    BY DEF HeadInv, TypeOK, Directories
<1>2. CASE \E h \in Heads : disk'.head.committed = h.committed
    BY <1>2, StableMoves DEF CommittedFull, Heads
<1>3. CASE Commit
  <2>1. disk'.head.committed = cp.pending
    BY <1>1, <1>3 DEF Commit, SetAttribute, Directories
  <2>2. cp.pending # 0 /\ stable.name = cp.pending
    BY <1>3 DEF Commit, HeadInv, AtStep
  <2>3. stable.data[cp.pending] = "full"
    BY <2>2 DEF HeadInv, Core, Whole, Heads, Names
  <2>. QED
    BY <2>1, <2>3, StableMoves DEF CommittedFull, Heads
<1>4. CASE Still \/ Moving
    BY <1>2, <1>4, StillFacts, MovingFacts DEF HeadInv, Heads
<1>5. CASE abandonPending \/ Anchor
  <2>1. cp = disk.head
    BY <1>5 DEF abandonPending, Anchor, HeadInv, Mirrors
  <2>2. disk'.head.committed = disk.head.committed
    BY <1>1, <1>5, <2>1 DEF abandonPending, Anchor, SetAttribute, Directories, Checkpoints
  <2>. QED
    BY <1>2, <2>2 DEF Heads
<1>6. CASE \E b \in Bytes : Write(b)
    BY <1>1, <1>2, <1>6 DEF Write, Directories, Heads
<1>7. CASE PowerLoss
    BY <1>2, <1>7 DEF PowerLoss, Heads
<1>. QED
    BY <1>3, <1>4, <1>5, <1>6, <1>7, StepKinds

\* Entries that lose only what is not needed any more stay marked and placed.
LEMMA EntriesFrame ==
    ASSUME Marked(disk), Placed(disk), disk'.head = disk.head, disk'.data = disk.data,
           disk'.name = disk.name,
           \A g \in Generations :
               \/ disk'.temp[g] = disk.temp[g] /\ (g \in disk.marker => g \in disk'.marker)
               \/ /\ disk'.temp[g] = 0
                  /\ disk.temp[g] = 0 \/ g # disk.head.pending \/ disk.data[g] = "empty" \/ disk.name = g
    PROVE  Marked(disk)' /\ Placed(disk)'
<1>1. Marked(disk)'
    BY DEF Marked
<1>2. Placed(disk)'
    BY DEF Placed
<1>. QED
    BY <1>1, <1>2

\* A pending generation is not the committed one.
LEMMA Unequal ==
    ASSUME HeadInv, disk.head.pending # 0
    PROVE  disk.head.committed # disk.head.pending
<1>1. /\ disk.head.committed \in Nat /\ disk.head.pending \in Nat
      /\ disk.head.committed < disk.head.pending
    BY Parts, Numbers, Zenon DEF HeadInv, Core, InOrder, Heads
<1>. QED
    BY <1>1

\* The directory stays marked and placed.
LEMMA DirectoryStep ==
    ASSUME HeadInv, HeadInv', [Next]_vars, storage # "unordered", Ordered
    PROVE  Marked(disk)' /\ Placed(disk)'
<1>1. /\ disk \in Directories /\ cp \in Checkpoints /\ disk.head \in Checkpoints
      /\ disk.temp \in [Generations -> Inodes] /\ disk.data \in [Generations -> Bytes]
      /\ issued \in Inodes
    BY DEF HeadInv, TypeOK, Directories
<1>2. Marked(disk) /\ Placed(disk) /\ Marked(stable) /\ Placed(stable)
    BY DEF Ordered
<1>3. CASE Still
    BY <1>2, <1>3, StillFacts DEF Marked, Placed
<1>m. ASSUME Moving
      PROVE  disk'.head = disk.head /\ disk'.data = disk.data
    BY <1>m, MovingFacts DEF HeadInv
<1>4. ASSUME NEW m \in Generations, ClearMarker(m)
      PROVE  Marked(disk)' /\ Placed(disk)'
  <2>1. /\ disk'.name = disk.name /\ disk'.temp = disk.temp /\ disk'.marker = disk.marker \ {m}
        /\ disk.temp[m] = 0
    BY <1>1, <1>4 DEF ClearMarker, Stale, Directories
  <2>2. disk'.head = disk.head /\ disk'.data = disk.data
    BY <1>4, <1>m DEF Moving
  <2>. QED
    BY <1>2, <2>1, <2>2, EntriesFrame
<1>5. ASSUME NEW m \in Generations, Abandon(m) \/ ClearPair(m)
      PROVE  Marked(disk)' /\ Placed(disk)'
  <2>1. /\ disk'.name = disk.name /\ disk'.temp = [disk.temp EXCEPT ![m] = 0]
        /\ disk'.marker = disk.marker
    BY <1>1, <1>5 DEF Abandon, ClearPair, Directories
  <2>2. disk'.head = disk.head /\ disk'.data = disk.data
    BY <1>5, <1>m DEF Moving
  <2>3. m # disk.head.pending \/ disk.data[m] = "empty"
    BY <1>5 DEF Abandon, ClearPair, Unwritten, Pair, HeadInv, Mirrors
  <2>. QED
    BY <1>1, <1>2, <2>1, <2>2, <2>3, EntriesFrame
<1>6. CASE AbandonUnmark \/ PairUnmark
  <2>1. /\ disk'.name = disk.name /\ disk'.temp = disk.temp /\ disk'.marker = disk.marker \ {nonce}
    BY <1>1, <1>6 DEF AbandonUnmark, PairUnmark, Directories
  <2>2. disk'.head = disk.head /\ disk'.data = disk.data
    BY <1>6, <1>m DEF Moving
  <2>3. disk.temp[nonce] = 0
    BY <1>6 DEF AbandonUnmark, PairUnmark, Ordered, Passed, Clearing
  <2>. QED
    BY <1>2, <2>1, <2>2, <2>3, EntriesFrame
<1>7. CASE writeCreateMarker
  <2>1. /\ disk'.name = disk.name /\ disk'.temp = disk.temp /\ disk'.marker = disk.marker \cup {issued}
    BY <1>1, <1>7 DEF writeCreateMarker, Directories
  <2>2. disk'.head = disk.head /\ disk'.data = disk.data
    BY <1>7, <1>m DEF Moving
  <2>. QED
    BY <1>2, <2>1, <2>2, EntriesFrame
<1>8. CASE CreateTemporary
  <2>1. /\ disk'.name = disk.name /\ disk'.temp = [disk.temp EXCEPT ![issued] = issued]
        /\ disk'.marker = disk.marker /\ issued \in disk.marker
        /\ disk.head.pending = 0
    BY <1>1, <1>8 DEF CreateTemporary, Directories, Ordered, Entries, HeadInv, AtStep
  <2>2. disk'.head = disk.head /\ disk'.data = disk.data
    BY <1>8, <1>m DEF Moving
  <2>. QED
    BY <1>1, <1>2, <2>1, <2>2, Numbers DEF Marked, Placed
<1>9. CASE Rename
  <2>1. PICK p : p = cp.pending
    OBVIOUS
  <2>2. /\ p \in Generations /\ p = disk.head.pending /\ disk.temp[p] = p
        /\ disk.data[p] = "full"
    BY <1>1, <1>9, <2>1, Numbers DEF Rename, HeadInv, Mirrors, AtStep, Core, Written, Checkpoints
  <2>3. /\ disk'.name = disk.temp[p] /\ disk'.temp = [disk.temp EXCEPT ![p] = disk.name]
        /\ disk'.marker = disk.marker
    BY <1>1, <1>9, <2>1 DEF Rename, Directories
  <2>4. disk'.head = disk.head /\ disk'.data = disk.data
    BY <1>9, <1>m DEF Moving
  <2>5. disk.head.committed # p
    BY <2>2, Unequal, Numbers
  <2>6. disk.name = disk.head.committed
    BY <1>2, <2>2, <2>5, Numbers DEF Placed
  <2>. QED
    BY <1>1, <1>2, <2>2, <2>3, <2>4, <2>6 DEF Marked, Placed
<1>10. CASE Unlink
  <2>1. PICK p : p = cp.pending
    OBVIOUS
  <2>2. disk.name = p
    BY <1>10, <2>1 DEF Unlink, HeadInv, AtStep
  <2>3. /\ disk'.name = disk.name /\ disk'.temp = [disk.temp EXCEPT ![p] = 0]
        /\ disk'.marker = disk.marker
    BY <1>1, <1>10, <2>1 DEF Unlink, Directories
  <2>4. disk'.head = disk.head /\ disk'.data = disk.data
    BY <1>10, <1>m DEF Moving
  <2>. QED
    BY <1>1, <1>2, <2>2, <2>3, <2>4, EntriesFrame
<1>11. CASE removeCreateMarker
  <2>1. PICK q : q = cp.committed
    OBVIOUS
  <2>2. q = disk.head.committed /\ disk.temp[q] = 0
    BY <1>11, <2>1 DEF removeCreateMarker, HeadInv, Mirrors, Ordered, Entries
  <2>3. /\ disk'.name = disk.name /\ disk'.temp = disk.temp /\ disk'.marker = disk.marker \ {q}
    BY <1>1, <1>11, <2>1 DEF removeCreateMarker, Directories
  <2>4. disk'.head = disk.head /\ disk'.data = disk.data
    BY <1>11, <1>m DEF Moving
  <2>. QED
    BY <1>2, <2>2, <2>3, <2>4, EntriesFrame
<1>12. CASE abandonPending
  <2>1. PICK p : p = cp.pending
    OBVIOUS
  <2>2. p = disk.head.pending /\ disk.temp[p] = 0
    BY <1>12, <2>1 DEF abandonPending, HeadInv, Mirrors, Ordered, Passed, Clearing
  <2>3. /\ disk'.head.pending = 0 /\ disk'.temp = disk.temp /\ disk'.marker = disk.marker
    BY <1>1, <1>12, <2>1 DEF abandonPending, SetAttribute, Directories, Checkpoints
  <2>. QED
    BY <1>2, <2>2, <2>3, Numbers DEF Marked, Placed
<1>13. CASE Anchor
  <2>1. /\ disk'.head.pending = issued /\ disk'.temp = disk.temp /\ disk'.marker = disk.marker
        /\ disk'.data = disk.data
    BY <1>1, <1>13 DEF Anchor, SetAttribute, Directories, Checkpoints
  <2>2. disk.head.pending = 0 /\ disk'.data[issued] = "empty"
    BY <1>13 DEF Anchor, Continue, HeadInv, AtStep
  <2>. QED
    BY <1>2, <2>1, <2>2, Numbers DEF Marked, Placed
<1>14. ASSUME NEW b \in Bytes, Write(b)
      PROVE  Marked(disk)' /\ Placed(disk)'
  <2>1. /\ disk'.name = disk.name /\ disk'.temp = disk.temp /\ disk'.marker = disk.marker
        /\ disk'.head = disk.head /\ disk'.data = [disk.data EXCEPT ![issued] = b]
    BY <1>1, <1>14 DEF Write, Directories
  <2>2. disk.temp[issued] = issued /\ disk.name = disk.head.committed
    BY <1>14 DEF Write, Ordered, Entries
  <2>. QED
    BY <1>1, <1>2, <2>1, <2>2 DEF Marked, Placed
<1>15. CASE Commit
  <2>1. PICK p : p = cp.pending
    OBVIOUS
  <2>2. p = disk.head.pending /\ disk.temp[p] = 0
    BY <1>15, <2>1 DEF Commit, HeadInv, Mirrors, Ordered, Entries
  <2>3. /\ disk'.head.pending = 0 /\ disk'.temp = disk.temp /\ disk'.marker = disk.marker
    BY <1>1, <1>15 DEF Commit, SetAttribute, Directories
  <2>. QED
    BY <1>2, <2>2, <2>3, Numbers DEF Marked, Placed
<1>16. CASE PowerLoss
  <2>1. disk' = stable
    BY <1>16 DEF PowerLoss
  <2>2. \A g \in Generations : stable.data[g] # "empty" => disk.data[g] # "empty"
    BY DEF HeadInv, Core, Written
  <2>. QED
    BY <1>2, <2>1, <2>2 DEF Marked, Placed
<1>. QED
    BY <1>3, <1>4, <1>5, <1>6, <1>7, <1>8, <1>9, <1>10, <1>11, <1>12, <1>13, <1>14, <1>15, <1>16,
       StepKinds DEF Moving

\* And so does what a power loss would leave.
LEMMA StableStep ==
    ASSUME HeadInv, [Next]_vars, storage # "unordered", Ordered
    PROVE  Marked(stable)' /\ Placed(stable)'
<1>1. CASE SameEntries(stable', disk) /\ disk' = disk
    BY <1>1 DEF SameEntries, Ordered, Marked, Placed
<1>2. CASE SameEntries(stable', stable)
  <2>1. Marked(stable)'
    BY <1>2 DEF SameEntries, Ordered, Marked
  <2>2. ASSUME NEW g \in Generations, g = stable'.head.pending, disk'.data[g] # "empty"
        PROVE  \/ stable'.temp[g] = g /\ stable'.name = stable'.head.committed
               \/ stable'.name = g /\ stable'.temp[g] \in {0, stable'.head.committed}
    <3>1. CASE disk.data[g] # "empty"
      BY <1>2, <2>2, <3>1 DEF SameEntries, Ordered, Placed
    <3>2. CASE pc = "write" /\ g = issued
      BY <1>2, <3>2 DEF SameEntries, Ordered, Entries
    <3>. QED
      BY <2>2, <3>1, <3>2, DataMoves
  <2>. QED
    BY <2>1, <2>2 DEF Placed
<1>. QED
    BY <1>1, <1>2, StableMoves

\* The steps at which the publication and finishPending rely on entries.
Relying == {"markSync", "create", "anchor", "anchorSync", "write", "directorySync", "unlinkSync",
            "commit", "commitSync", "unmark"}

\* The entries are there at the steps that rely on them.
LEMMA EntriesStep ==
    ASSUME HeadInv, HeadInv', [Next]_vars, storage # "unordered", Ordered
    PROVE  Entries'
<1>1. /\ disk \in Directories /\ stable \in Directories /\ cp \in Checkpoints
      /\ disk.head \in Checkpoints
      /\ disk.temp \in [Generations -> Inodes] /\ issued \in Inodes
    BY DEF HeadInv, TypeOK, Directories
<1>2. CASE pc' \notin Relying
    BY <1>2 DEF Relying, Entries
<1>i. pc \in {"mark", "markSync", "create", "anchor", "anchorSync", "write"} => issued \in Generations
    BY <1>1, Numbers DEF HeadInv, AtStep
<1>p. pc \in {"settle", "rename", "directorySync", "unlink", "unlinkSync", "commit"}
          => cp.pending \in Generations /\ cp = disk.head
    BY <1>1, Numbers, ZenonT(30) DEF HeadInv, AtStep, Mirrors, Checkpoints
<1>3. CASE writeCreateMarker \/ MarkerSync
  <2>1. /\ issued' = issued /\ issued \in disk'.marker /\ pc' \in {"markSync", "create"}
    BY <1>1, <1>3 DEF writeCreateMarker, MarkerSync, Continue, Directories, Ordered, Entries
  <2>. QED
    BY <2>1 DEF Entries
<1>4. CASE CreateTemporary
  <2>1. /\ issued' = issued /\ issued \in disk'.marker /\ disk'.temp[issued] = issued
        /\ pc' = "anchor"
    BY <1>1, <1>4, <1>i DEF CreateTemporary, Continue, Directories, Ordered, Entries
  <2>. QED
    BY <2>1 DEF Entries
<1>5. CASE Anchor
  <2>1. /\ issued' = issued /\ disk'.temp = disk.temp /\ disk'.name = disk.name /\ pc' = "anchorSync"
        /\ disk.temp[issued] = issued /\ pc = "anchor" /\ op = "publish" /\ ~finishing
        /\ cp = disk.head
    BY <1>1, <1>5 DEF Anchor, SetAttribute, Continue, Directories, Ordered, Entries, HeadInv, AtStep,
       Mirrors
  <2>2. disk'.head.committed = disk.head.committed
    BY <1>1, <1>5, <2>1 DEF Anchor, SetAttribute, Directories, Checkpoints
  <2>3. disk.head.pending = 0 /\ disk.head \in Heads /\ disk.name \in Names
    BY <2>1 DEF HeadInv, AtStep, Heads, Names
  <2>4. disk.name = disk.head.committed
    BY <2>3 DEF HeadInv, Core, Whole
  <2>. QED
    BY <2>1, <2>2, <2>4 DEF Entries
<1>6. CASE AnchorSync
  <2>1. /\ disk.temp[issued] = issued /\ disk.name = disk.head.committed
    BY <1>6 DEF AnchorSync, Ordered, Entries
  <2>2. /\ stable'.temp = disk.temp /\ stable'.name = disk.name /\ stable'.head = disk.head
        /\ disk' = disk /\ issued' = issued /\ pc' = "write"
    BY <1>1, <1>6 DEF AnchorSync, SyncDirectory, Continue, Directories
  <2>. QED
    BY <2>1, <2>2 DEF Entries
<1>7. ASSUME NEW b \in Bytes, Write(b)
      PROVE  Entries'
  <2>1. /\ disk.temp[issued] = issued /\ disk.name = disk.head.committed
        /\ stable.temp[issued] = issued /\ stable.name = stable.head.committed
    BY <1>7 DEF Write, Ordered, Entries
  <2>2. /\ disk'.temp = disk.temp /\ disk'.name = disk.name /\ disk'.head = disk.head
        /\ stable' = stable /\ issued' = issued /\ pc' \in {"write", "fileSync"}
    BY <1>1, <1>7 DEF Write, Continue, Directories
  <2>. QED
    BY <2>1, <2>2 DEF Entries
<1>8. CASE Settle
  <2>1. disk' = disk /\ (pc' = "directorySync" => cp' = cp /\ matches(disk.name, cp.pending))
    BY <1>8, Zenon DEF Settle, Continue, Refuse, Census, Rest
  <2>2. pc' \in {"directorySync", "rename", "census", "refused", "failed"}
    BY <1>8, Zenon DEF Settle, Continue, Refuse, Census, Rest
  <2>3. pc' = "directorySync" => disk'.name = cp'.pending
    BY <1>8, <1>p, <2>1, Numbers DEF Settle, matches
  <2>. QED
    BY <2>2, <2>3 DEF Entries
<1>9. CASE Rename
  <2>1. PICK p : p = cp.pending
    OBVIOUS
  <2>2. disk'.name = disk.temp[p] /\ cp' = cp /\ pc' = "directorySync"
    BY <1>1, <1>9, <2>1 DEF Rename, Continue, Directories
  <2>3. disk.temp[p] = p
    BY <1>9, <2>1 DEF Rename, HeadInv, AtStep
  <2>. QED
    BY <2>1, <2>2, <2>3 DEF Entries
<1>10. CASE DirectorySync
  <2>1. /\ disk' = disk /\ (pc' = "commit" => cp' = cp /\ disk.temp[cp.pending] = 0)
        /\ pc' \in {"commit", "unlink", "census", "refused", "failed"}
    BY <1>10, Zenon DEF DirectorySync, Continue, Refuse, Census, Rest
  <2>. QED
    BY <2>1 DEF Entries
<1>11. CASE Unlink \/ UnlinkSync
  <2>1. PICK p : p = cp.pending
    OBVIOUS
  <2>2. cp' = cp /\ disk'.temp[p] = 0 /\ pc' \in {"unlinkSync", "commit"}
    BY <1>1, <1>11, <1>p, <2>1 DEF Unlink, UnlinkSync, Continue, Directories, Ordered, Entries
  <2>. QED
    BY <2>1, <2>2 DEF Entries
<1>12. CASE Commit
  <2>1. PICK p : p = cp.pending
    OBVIOUS
  <2>2. /\ disk'.head.committed = p /\ disk'.temp = disk.temp /\ disk.temp[p] = 0 /\ p # 0
        /\ pc' = "commitSync"
    BY <1>1, <1>12, <1>p, <2>1, Numbers DEF Commit, SetAttribute, Continue, Directories, Ordered, Entries
  <2>. QED
    BY <2>2 DEF Entries
<1>13. CASE CommitSync
    BY <1>13 DEF CommitSync, Continue, Ordered, Entries
<1>14. CASE Writeback
  <2>1. UNCHANGED <<disk, pc, cp, issued>>
    BY <1>14 DEF Writeback
  <2>2. CASE pc = "write"
    <3>1. /\ disk.temp[issued] = issued /\ disk.name = disk.head.committed
          /\ stable.temp[issued] = issued /\ stable.name = stable.head.committed
      BY <2>2 DEF Ordered, Entries
    <3>. QED
      BY <2>1, <2>2, <3>1, StableMoves DEF SameEntries, Entries
  <2>3. CASE pc # "write"
    BY <2>1, <2>3 DEF Ordered, Entries
  <2>. QED
    BY <2>2, <2>3
<1>15. CASE UNCHANGED vars
    BY <1>15 DEF vars, Ordered, Entries
<1>16. CASE \/ Open \/ CensusRefuses \/ CensusEnds \/ Publish \/ Fault \/ FileSync
            \/ \E m \in Generations : ClearMarker(m) \/ KeepMarker(m) \/ Abandon(m) \/ ClearPair(m)
            \/ AbandonSync \/ abandonPending \/ AbandonedSync \/ AbandonUnmark \/ AbandonEnd
            \/ PairSync \/ PairUnmark \/ removeCreateMarker \/ Acknowledge
  <2>1. CASE CensusRefuses \/ CensusEnds \/ Acknowledge \/ Fault
    BY <1>2, <2>1 DEF CensusRefuses, CensusEnds, Acknowledge, Fault, Fail, Stop, PowerLoss, Refuse,
       Admit, Rest, Census, Continue, Relying
  <2>2. CASE Open \/ Publish \/ FileSync
    BY <1>2, <2>2 DEF Open, Publish, FileSync, Census, Relying
  <2>3. CASE \E m \in Generations : ClearMarker(m) \/ KeepMarker(m) \/ Abandon(m) \/ ClearPair(m)
    BY <1>2, <2>3 DEF ClearMarker, KeepMarker, Abandon, ClearPair, Relying
  <2>4. CASE \/ AbandonSync \/ abandonPending \/ AbandonedSync \/ AbandonUnmark \/ AbandonEnd
             \/ PairSync \/ PairUnmark \/ removeCreateMarker
    BY <1>2, <2>4 DEF AbandonSync, abandonPending, AbandonedSync, AbandonUnmark, AbandonEnd,
       PairSync, PairUnmark, removeCreateMarker, Continue, Relying
  <2>. QED
    BY <1>16, <2>1, <2>2, <2>3, <2>4, ZenonT(30)
<1>. QED
    BY <1>3, <1>4, <1>5, <1>6, <1>7, <1>8, <1>9, <1>10, <1>11, <1>12, <1>13, <1>14, <1>15, <1>16
    DEF Next, Work

\* A census that begins has passed nothing; the one that finishes finds no temporary of
\* another publication.
LEMMA CensusPassed ==
    ASSUME NEW call, NEW f \in BOOLEAN, Census(call, f), disk' = disk,
           call = "reconcile" /\ f => cp = disk.head /\ ~Unanchored
    PROVE  Passed'
BY DEF Census, Passed, Clearing, AllowReconcile, Unanchored

\* So a refusal that begins another census has.
LEMMA RefusePassed ==
    ASSUME Refuse, disk' = disk
    PROVE  Passed'
<1>1. CASE Census("reconcile", FALSE)
    BY <1>1, CensusPassed, ZenonT(30)
<1>2. CASE Rest("refused") \/ Rest("failed")
    BY <1>2 DEF Rest, Passed, Clearing
<1>. QED
    BY <1>1, <1>2, ZenonT(30) DEF Refuse

\* The census leaves nothing behind it.
LEMMA PassedStep ==
    ASSUME HeadInv, HeadInv', [Next]_vars, storage # "unordered", Ordered
    PROVE  Passed'
<1>1. /\ disk \in Directories /\ cp \in Checkpoints /\ disk.head \in Checkpoints
      /\ disk.temp \in [Generations -> Inodes] /\ disk.marker \subseteq Generations
    BY DEF HeadInv, TypeOK, Directories
<1>p. Passed
    BY DEF Ordered
<1>c. pc \in Clearing \cup {"census"} /\ pc # "abandoned" => cp = disk.head
    BY DEF HeadInv, Mirrors, Clearing
<1>a. pc \in Clearing => AllowReconcile
    BY DEF HeadInv, AtStep, Clearing
<1>2. CASE pc' \notin Clearing \cup {"census"}
    BY <1>2 DEF Passed, Clearing
<1>3. CASE Open \/ Publish \/ FileSync
  <2>1. disk' = disk /\ (Census("open", FALSE) \/ Census("publish", FALSE) \/ Census("publish", TRUE))
    BY <1>3, ZenonT(30) DEF Open, Publish, FileSync
  <2>. QED
    BY <2>1, CensusPassed, ZenonT(30)
<1>4. ASSUME NEW m \in Generations, ClearMarker(m)
      PROVE  Passed'
  <2>1. /\ disk'.temp = disk.temp /\ disk'.marker = disk.marker \ {m} /\ disk'.head = disk.head
        /\ todo' = todo \ {m} /\ UNCHANGED <<op, finishing, pc>> /\ pc = "census"
    BY <1>1, <1>4 DEF ClearMarker, Directories
  <2>. QED
    BY <1>p, <2>1 DEF Passed, Clearing, AllowReconcile
<1>5. ASSUME NEW m \in Generations, KeepMarker(m)
      PROVE  Passed'
  <2>1. /\ disk' = disk /\ todo' = todo \ {m} /\ UNCHANGED <<op, finishing, pc>> /\ pc = "census"
        /\ cp.pending = m
    BY <1>5 DEF KeepMarker, Complete
  <2>. QED
    BY <1>p, <1>c, <2>1 DEF Passed, Clearing, AllowReconcile
<1>6. ASSUME NEW m \in Generations, Abandon(m) \/ ClearPair(m)
      PROVE  Passed'
  <2>1. /\ disk'.temp = [disk.temp EXCEPT ![m] = 0] /\ disk'.marker = disk.marker
        /\ disk'.head = disk.head /\ nonce' = m /\ UNCHANGED <<op, finishing, todo, cp>>
        /\ pc = "census" /\ pc' \in {"abandonSync", "pairSync"} /\ AllowReconcile
    BY <1>1, <1>6 DEF Abandon, ClearPair, Directories
  <2>2. pc' = "abandonSync" => m = cp.pending
    BY <1>6 DEF Abandon, ClearPair, Unwritten
  <2>3. m # 0 /\ disk'.temp[m] = 0 /\ \A g \in Generations : g # m => disk'.temp[g] = disk.temp[g]
    BY <1>1, <2>1, Numbers
  <2>4. \A g \in disk.marker \ todo : disk.temp[g] = 0 \/ g = disk.head.pending
    BY <1>p, <2>1 DEF Passed
  <2>5. \A g \in disk'.marker \ todo' : disk'.temp[g] = 0 \/ g = disk'.head.pending
    BY <1>1, <2>1, <2>3, <2>4
  <2>. QED
    BY <2>1, <2>2, <2>3, <2>5 DEF Passed, Clearing
<1>7. CASE AbandonSync \/ PairSync
  <2>1. /\ disk' = disk /\ UNCHANGED <<op, finishing, todo, cp, nonce>>
        /\ \/ pc = "abandonSync" /\ pc' = "abandon"
           \/ pc = "pairSync" /\ pc' = "pairUnmark"
    BY <1>7 DEF AbandonSync, PairSync, Continue
  <2>. QED
    BY <1>p, <2>1 DEF Passed, Clearing, AllowReconcile
<1>8. CASE abandonPending
  <2>1. /\ disk'.temp = disk.temp /\ disk'.marker = disk.marker /\ pc = "abandon" /\ pc' = "abandoned"
        /\ UNCHANGED <<op, finishing, todo, nonce>>
    BY <1>1, <1>8 DEF abandonPending, SetAttribute, Continue, Directories
  <2>2. /\ nonce # 0 /\ disk.temp[nonce] = 0 /\ nonce = disk.head.pending
        /\ \A g \in disk.marker \ todo : disk.temp[g] = 0 \/ g = disk.head.pending
    BY <1>p, <1>c, <1>a, <2>1 DEF Passed, Clearing
  <2>. QED
    BY <2>1, <2>2 DEF Passed, Clearing
<1>9. CASE AbandonedSync \/ AbandonUnmark
  <2>1. /\ disk'.temp = disk.temp /\ disk'.marker \subseteq disk.marker /\ disk'.head = disk.head
        /\ UNCHANGED <<op, finishing, todo, nonce>>
        /\ pc \in {"abandoned", "abandonUnmark"} /\ pc' \in {"abandonUnmark", "abandonEnd"}
    BY <1>1, <1>9 DEF AbandonedSync, AbandonUnmark, Continue, Directories
  <2>2. /\ nonce # 0 /\ disk.temp[nonce] = 0
        /\ \A g \in disk.marker \ todo : disk.temp[g] = 0 \/ g = disk.head.pending
    BY <1>p, <1>a, <2>1 DEF Passed, Clearing
  <2>. QED
    BY <2>1, <2>2 DEF Passed, Clearing
<1>10. CASE AbandonEnd \/ PairUnmark
  <2>1. /\ disk'.temp = disk.temp /\ disk'.marker \subseteq disk.marker /\ disk'.head = disk.head
        /\ UNCHANGED <<op, finishing>> /\ todo' = todo \ {nonce}
        /\ pc \in {"abandonEnd", "pairUnmark"} /\ pc' = "census"
    BY <1>1, <1>10 DEF AbandonEnd, PairUnmark, Directories
  <2>2. /\ nonce # 0 /\ disk.temp[nonce] = 0 /\ ~finishing
        /\ \A g \in disk.marker \ todo : disk.temp[g] = 0 \/ g = disk.head.pending
    BY <1>p, <1>a, <2>1 DEF Passed, Clearing, AllowReconcile
  <2>. QED
    BY <2>1, <2>2 DEF Passed, Clearing
<1>11. CASE CensusRefuses
    BY <1>11, RefusePassed DEF CensusRefuses
<1>12. CASE CensusEnds
  <2>1. disk' = disk /\ cp = disk.head /\ ~Unanchored
    BY <1>12, <1>c DEF CensusEnds
  <2>2. \/ Refuse \/ Census("reconcile", TRUE)
        \/ Rest("ready") \/ Rest("refused") \/ Continue("mark") \/ Continue("settle")
    BY <1>12, Zenon DEF CensusEnds, Admit
  <2>3. CASE Refuse \/ Census("reconcile", TRUE)
    BY <2>1, <2>3, RefusePassed, CensusPassed, ZenonT(30)
  <2>4. CASE Rest("ready") \/ Rest("refused") \/ Continue("mark") \/ Continue("settle")
    BY <1>2, <2>4 DEF Rest, Continue, Clearing
  <2>. QED
    BY <2>2, <2>3, <2>4, ZenonT(30)
<1>13. CASE Settle \/ DirectorySync
  <2>1. /\ disk' = disk
        /\ Refuse \/ pc' \in {"directorySync", "rename", "commit", "unlink"}
    BY <1>13, Zenon DEF Settle, DirectorySync, Continue
  <2>. QED
    BY <1>2, <2>1, RefusePassed DEF Clearing
<1>14. CASE Fail
  <2>1. disk' = disk /\ (Refuse \/ Rest("down") \/ Rest("ready") \/ Rest("failed"))
    BY <1>14, Zenon DEF Fail
  <2>. QED
    BY <1>2, <2>1, RefusePassed DEF Rest, Clearing
<1>15. CASE Writeback \/ UNCHANGED vars
    BY <1>15, <1>p DEF Writeback, vars, Passed, AllowReconcile
<1>16. CASE \/ Stop \/ PowerLoss \/ writeCreateMarker \/ MarkerSync \/ CreateTemporary \/ Anchor
            \/ AnchorSync \/ (\E b \in Bytes : Write(b)) \/ Rename \/ Unlink \/ UnlinkSync \/ Commit
            \/ CommitSync \/ removeCreateMarker \/ Acknowledge
    BY <1>2, <1>16 DEF Stop, PowerLoss, writeCreateMarker, MarkerSync, CreateTemporary, Anchor, AnchorSync,
       Write, Rename, Unlink, UnlinkSync, Commit, CommitSync, removeCreateMarker, Acknowledge, Admit,
       Rest, Continue, Clearing
<1>. QED
    BY <1>3, <1>4, <1>5, <1>6, <1>7, <1>8, <1>9, <1>10, <1>11, <1>12, <1>13, <1>14, <1>15, <1>16
    DEF Next, Work, Fault

\* The storage is what it is.
LEMMA StorageFixed ==
    ASSUME [Next]_vars
    PROVE  storage' = storage
<1>1. CASE \/ Open \/ CensusRefuses \/ CensusEnds \/ Publish \/ Fault \/ FileSync
           \/ Settle \/ DirectorySync \/ Acknowledge
    BY <1>1, Zenon DEF Open, CensusRefuses, CensusEnds, Publish, Fault, Fail, Stop, PowerLoss, FileSync,
       Settle, DirectorySync, Acknowledge, Refuse, Admit, Rest, Census, Continue
<1>2. CASE \/ \E m \in Generations : ClearMarker(m) \/ KeepMarker(m) \/ Abandon(m) \/ ClearPair(m)
           \/ AbandonSync \/ abandonPending \/ AbandonedSync \/ AbandonUnmark \/ AbandonEnd
           \/ PairSync \/ PairUnmark \/ writeCreateMarker \/ MarkerSync \/ CreateTemporary \/ Anchor
           \/ AnchorSync \/ (\E b \in Bytes : Write(b)) \/ Rename \/ Unlink \/ UnlinkSync \/ Commit
           \/ CommitSync \/ removeCreateMarker \/ Writeback \/ UNCHANGED vars
    BY <1>2, Zenon DEF ClearMarker, KeepMarker, Abandon, ClearPair, AbandonSync, abandonPending, AbandonedSync,
       AbandonUnmark, AbandonEnd, PairSync, PairUnmark, writeCreateMarker, MarkerSync, CreateTemporary,
       Anchor, AnchorSync, Write, Rename, Unlink, UnlinkSync, Commit, CommitSync, removeCreateMarker,
       Continue, Writeback, vars
<1>. QED
    BY <1>1, <1>2, Zenon DEF Next, Work

\* An anchored publication with complete bytes can be finished: it is what the census
\* keeps, and what finishPending finds.
LEMMA Finishable ==
    ASSUME HeadInv, CommittedFull, Ordered, cp = disk.head, NEW p \in Generations, p = cp.pending,
           disk.data[p] = "full"
    PROVE  /\ Complete(p)
           /\ matches(disk.name, p) \/ (matches(disk.name, cp.committed) /\ matches(disk.temp[p], p))
           /\ disk.name = p =>
                  \/ disk.temp[p] = 0
                  \/ cp.committed # 0 /\ matches(disk.temp[p], cp.committed)
<1>1. /\ p # 0 /\ cp.committed \in Inodes /\ cp.committed # p
    BY Unequal, Numbers DEF HeadInv, TypeOK, Checkpoints
<1>2. \/ disk.temp[p] = p /\ disk.name = cp.committed
      \/ disk.name = p /\ disk.temp[p] \in {0, cp.committed}
    BY DEF Ordered, Placed
<1>3. cp.committed # 0 => cp.committed \in Generations /\ disk.data[cp.committed] = "full"
  <2>1. cp.committed # 0 => cp.committed \in Generations
    BY <1>1, Numbers, ZenonT(30)
  <2>2. cp.committed # 0 => stable.data[cp.committed] = "full"
    BY <2>1 DEF CommittedFull, Heads
  <2>. QED
    BY <2>1, <2>2 DEF HeadInv, Core, Written
<1>4. matches(p, p) /\ matches(cp.committed, cp.committed)
    BY <1>1, <1>3 DEF matches
<1>. QED
    BY <1>1, <1>2, <1>4 DEF Complete

\* What an open or a Reconcile ends with is in place when nothing is pending.
LEMMA AdmitsCommitted ==
    ASSUME HeadInv, cp = disk.head, cp.pending = 0, Admit(cp)
    PROVE  pc' = "ready"
<1>1. disk.head \in Heads /\ disk.name \in Names
    BY DEF Heads, Names
<1>2. /\ disk.name = cp.committed
      /\ cp.committed # 0 => stable.data[cp.committed] = "full"
    BY <1>1 DEF HeadInv, Core, Whole
<1>3. cp.committed # 0 => disk.data[cp.committed] = "full"
  <2>1. cp.committed # 0 => cp.committed \in Generations
    BY Numbers, ZenonT(30) DEF HeadInv, TypeOK, Checkpoints
  <2>. QED
    BY <1>2, <2>1 DEF HeadInv, Core, Written
<1>4. matches(disk.name, cp.committed)
    BY <1>2, <1>3 DEF matches
<1>. QED
    BY <1>4 DEF Admit, Rest

\* Only what cannot be finished is refused.
LEMMA RefusedStep ==
    ASSUME HeadInv, CommittedFull, Ordered, storage # "unordered", [Next]_vars,
           pc' = "refused", RefusedIncomplete
    PROVE  disk'.head.pending # 0 /\ disk'.data[disk'.head.pending] # "full"
<1>. DEFINE Incomplete == disk.head.pending # 0 /\ disk.data[disk.head.pending] # "full"
<1>1. /\ disk.head.pending \in Inodes /\ cp.pending \in Inodes
    BY DEF HeadInv, TypeOK, Directories, Checkpoints
<1>2. CASE CensusRefuses
  <2>1. cp = disk.head /\ op = "reconcile" /\ disk' = disk
    BY <1>2 DEF CensusRefuses, Refuse, Census, Rest, HeadInv, Mirrors
  <2>2. ASSUME NEW m \in todo, Blocked(m)
        PROVE  Incomplete
    <3>1. m \in Generations
      BY <2>2 DEF HeadInv, TypeOK
    <3>2. m = cp.pending
      <4>1. CASE finishing
        <5>1. disk.temp[m] # 0 => m = disk.head.pending
          BY <1>2, <2>1, <3>1, <4>1 DEF CensusRefuses, Ordered, Passed
        <5>. QED
          BY <2>1, <2>2, <5>1 DEF Blocked, Stale
      <4>2. CASE ~finishing
        BY <2>1, <2>2, <4>2 DEF Blocked, AllowReconcile, Stale, Pair
      <4>. QED
        BY <4>1, <4>2
    <3>3. ~Complete(m)
      BY <2>2 DEF Blocked
    <3>4. disk.data[m] # "full"
      BY <2>1, <3>1, <3>2, <3>3, Finishable
    <3>. QED
      BY <2>1, <3>1, <3>2, <3>4, Numbers
  <2>3. CASE todo = {} /\ Unanchored
    <3>1. PICK g \in Generations : disk.temp[g] # 0 /\ g # cp.pending
      BY <2>3 DEF Unanchored
    <3>2. g \in disk.marker
      BY <2>1, <3>1, ZenonT(30) DEF Ordered, Marked
    <3>3. disk.temp[g] = 0 \/ g = disk.head.pending
      BY <1>2, <2>1, <2>3, <3>1, <3>2, ZenonT(30) DEF CensusRefuses, Ordered, Passed, AllowReconcile
    <3>. QED
      BY <2>1, <3>1, <3>3
  <2>. QED
    BY <1>2, <2>1, <2>2, <2>3 DEF CensusRefuses
<1>3. CASE CensusEnds
  <2>1. cp = disk.head
    BY <1>3, ZenonT(30) DEF CensusEnds, HeadInv, Mirrors
  <2>2. ~ (cp.pending = 0 /\ Admit(cp))
    BY <2>1, AdmitsCommitted
  <2>. QED
    BY <1>3, <2>2, ZenonT(30) DEF CensusEnds, Refuse, Census, Continue, Rest
<1>4. CASE Acknowledge
  <2>1. cp = disk.head /\ cp.pending = 0
    BY <1>4 DEF Acknowledge, HeadInv, Mirrors, AtStep
  <2>. QED
    BY <1>4, <2>1, AdmitsCommitted DEF Acknowledge
<1>5. CASE Settle
  <2>1. cp = disk.head /\ cp.pending \in Generations /\ disk' = disk
    BY <1>1, <1>5, Numbers, ZenonT(30) DEF Settle, HeadInv, Mirrors, AtStep
  <2>2. /\ ~ matches(disk.name, cp.pending)
        /\ ~ (matches(disk.name, cp.committed) /\ matches(disk.temp[cp.pending], cp.pending))
    BY <1>5 DEF Settle, Continue
  <2>3. disk.data[cp.pending] # "full"
    BY <2>1, <2>2, Finishable
  <2>. QED
    BY <2>1, <2>3, Numbers, ZenonT(30)
<1>6. CASE DirectorySync
  <2>1. /\ cp = disk.head /\ cp.pending \in Generations /\ disk' = disk /\ disk.name = cp.pending
    BY <1>1, <1>6, Numbers DEF DirectorySync, HeadInv, Mirrors, AtStep, Ordered, Entries
  <2>2. ~ (/\ matches(disk.name, cp.pending)
           /\ \/ disk.temp[cp.pending] = 0
              \/ cp.committed # 0 /\ matches(disk.temp[cp.pending], cp.committed))
    BY <1>6 DEF DirectorySync, Continue
  <2>3. disk.data[cp.pending] = "full" => matches(disk.name, cp.pending)
    BY <2>1 DEF matches
  <2>4. disk.data[cp.pending] # "full"
    BY <2>1, <2>2, <2>3, Finishable, ZenonT(30)
  <2>. QED
    BY <2>1, <2>4, Numbers
<1>7. CASE Writeback \/ UNCHANGED vars
    BY <1>7 DEF Writeback, vars, RefusedIncomplete
<1>8. CASE Fail
    BY <1>8 DEF Fail, Refuse, Rest, Census
<1>9. CASE \/ Open \/ Publish \/ Stop \/ PowerLoss \/ FileSync
           \/ \E m \in Generations : ClearMarker(m) \/ KeepMarker(m) \/ Abandon(m) \/ ClearPair(m)
    BY <1>9 DEF Open, Publish, Stop, PowerLoss, FileSync, ClearMarker, KeepMarker, Abandon, ClearPair,
       Census, Rest
<1>10. CASE \/ AbandonSync \/ abandonPending \/ AbandonedSync \/ AbandonUnmark \/ AbandonEnd
            \/ PairSync \/ PairUnmark \/ writeCreateMarker \/ MarkerSync \/ CreateTemporary \/ Anchor
            \/ AnchorSync \/ (\E b \in Bytes : Write(b)) \/ Rename \/ Unlink \/ UnlinkSync \/ Commit
            \/ CommitSync \/ removeCreateMarker
    BY <1>10 DEF AbandonSync, abandonPending, AbandonedSync, AbandonUnmark, AbandonEnd, PairSync,
       PairUnmark, writeCreateMarker, MarkerSync, CreateTemporary, Anchor, AnchorSync, Write, Rename,
       Unlink, UnlinkSync, Commit, CommitSync, removeCreateMarker, Continue
<1>. QED
    BY <1>2, <1>3, <1>4, <1>5, <1>6, <1>7, <1>8, <1>9, <1>10 DEF Next, Work, Fault

\* Every step keeps the entries in order.
LEMMA EntryPreserved == HeadInv /\ HeadInv' /\ EntryInv /\ [Next]_vars => EntryInv'
<1>. SUFFICES ASSUME HeadInv, HeadInv', EntryInv, [Next]_vars
              PROVE  EntryInv'
    OBVIOUS
<1>1. storage' = storage
    BY StorageFixed
<1>2. CommittedFull'
    BY CommittedStep DEF EntryInv
<1>3. ASSUME storage # "unordered"
      PROVE  Ordered' /\ RefusedIncomplete'
  <2>1. Ordered
    BY <1>3 DEF EntryInv
  <2>2. Ordered'
    BY <1>3, <2>1, DirectoryStep, StableStep, EntriesStep, PassedStep DEF Ordered
  <2>3. RefusedIncomplete'
    BY <1>3, <2>1, RefusedStep DEF EntryInv, RefusedIncomplete
  <2>. QED
    BY <2>2, <2>3
<1>. QED
    BY <1>1, <1>2, <1>3 DEF EntryInv, RefusedIncomplete

\* On storage that keeps the order of the changes of a directory Reconcile refuses only
\* an anchored publication whose bytes are not complete: whatever a kill or a power loss
\* leaves of a publication that was never anchored, was completed or was committed reopens.
THEOREM ReopensUnlessTorn == Spec => []RefusedIncomplete
<1>1. Init => EntryInv
  <2>. SUFFICES ASSUME Init
                PROVE  EntryInv
    OBVIOUS
  <2>. USE Numbers DEF Init, NoHead
  <2>1. CommittedFull
    BY DEF CommittedFull, Heads
  <2>2. Marked(disk) /\ Marked(stable) /\ Placed(disk) /\ Placed(stable)
    BY DEF Marked, Placed
  <2>3. Entries /\ Passed /\ RefusedIncomplete
    BY DEF Entries, Passed, Clearing, RefusedIncomplete
  <2>. QED
    BY <2>1, <2>2, <2>3 DEF EntryInv, Ordered
<1>2. EntryInv => RefusedIncomplete
    BY DEF EntryInv
<1>. QED
    BY <1>1, <1>2, EntryPreserved, HeadInvariant, PTL DEF Spec
=============================================================================
