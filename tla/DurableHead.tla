---------------------------- MODULE DurableHead ----------------------------
(***************************************************************************)
(* The crash-safe snapshot of internal/durablehead: one file, replaced by  *)
(* publications, and a checkpoint in an attribute of its directory that    *)
(* says which generation is committed and which is pending.  A publication *)
(* writes a create marker, a temporary, the pending checkpoint and the     *)
(* bytes, exchanges the temporary with the file and commits.  A process    *)
(* that finds any of it unfinished opens with Reconcile.                   *)
(*                                                                         *)
(* Publication n has the nonce n, writes the inode n and its temporary and *)
(* marker are named by n; 0 is an absent file.  The attribute is on the    *)
(* directory (LockName is empty, as for the claim queue and the fleet      *)
(* journal), so one sync of the directory covers entries and checkpoint.   *)
(***************************************************************************)
EXTENDS Naturals

CONSTANTS
    MaxPublications,  \* Publish is called this often (a bound).
    Storages          \* What the head may be stored on.

ASSUME PublicationsAssumption == MaxPublications \in Nat

\* "reliable": the process may die, the machine does not lose power.  "journal": a power
\* loss keeps the changes of the directory up to some moment after its last sync.
\* "unordered": it keeps any of those that were not synced.
ASSUME StoragesAssumption == Storages \subseteq {"reliable", "journal", "unordered"}

VARIABLES
    storage,    \* The kind of storage the head is on.
    disk,       \* The directory as every process sees it.
    stable,     \* The directory as a power loss would leave it.
    pc,         \* The next I/O of the owner, or the state it rests in.
    op,         \* The call in progress: "open", "reconcile" or "publish".
    finishing,  \* Whether the call is inside finishPending.
    cp,         \* checkpoint: the owner's copy of the attribute.
    todo,       \* The markers the census has still to look at.
    removed,    \* Whether the census removed a marker.
    nonce,      \* The marker the call is working on.
    issued,     \* The number of Publish calls so far.
    served      \* The generation the application was last given by an owner.

vars == <<storage, disk, stable, pc, op, finishing, cp, todo, removed, nonce, issued, served>>

Generations == 1 .. MaxPublications

Inodes == 0 .. MaxPublications

\* The checkpoint: the committed generation, and the pending one or 0.
Checkpoints == [committed : Inodes, pending : Inodes]

\* What a file holds of the bytes of its publication.
Bytes == {"empty", "partial", "full"}

Directories == [name : Inodes, temp : [Generations -> Inodes], marker : SUBSET Generations,
                head : Checkpoints, data : [Generations -> Bytes]]

\* States in which no call is in progress.
Resting == {"down", "ready", "failed", "refused"}

Steps == Resting \cup
    {"census", "pairSync", "pairUnmark", "abandonSync", "abandon", "abandoned",
     "abandonUnmark", "abandonEnd", "mark", "markSync", "create", "anchor", "anchorSync",
     "write", "fileSync", "settle", "rename", "directorySync", "unlink", "unlinkSync",
     "commit", "commitSync", "unmark", "unmarkSync"}

NoHead == [committed |-> 0, pending |-> 0]

\* Provisioning left an empty head and nothing in the directory.
Init ==
    /\ storage \in Storages
    /\ disk = [name |-> 0, temp |-> [g \in Generations |-> 0], marker |-> {},
               head |-> NoHead, data |-> [g \in Generations |-> "empty"]]
    /\ stable = disk
    /\ pc = "down" /\ op = "open" /\ finishing = FALSE
    /\ cp = NoHead
    /\ todo = {} /\ removed = FALSE /\ nonce = 0
    /\ issued = 0 /\ served = 0

(***************************************************************************)
(* Observations and I/O.                                                   *)
(***************************************************************************)

\* The file with inode i is the member of generation g: same inode, size and hash.
matches(i, g) == IF g = 0 THEN i = 0 ELSE i = g /\ disk.data[g] = "full"

\* The directory is synced: entries and checkpoint, not the bytes of the files.
SyncDirectory == stable' = [disk EXCEPT !.data = stable.data]

\* The file of generation g is synced, nothing else.
SyncFile(g) == stable' = [stable EXCEPT !.data[g] = disk.data[g]]

\* A checkpoint is written; it is the owner's after the sync that follows.
SetAttribute(next) == disk' = [disk EXCEPT !.head = next]

\* A call begins its census of temporaries and markers.
Census(call, finish) ==
    /\ pc' = "census" /\ op' = call /\ finishing' = finish
    /\ todo' = disk.marker /\ removed' = FALSE /\ nonce' = 0
    /\ UNCHANGED storage

\* The owner goes on to the I/O named next, within the same call.
Continue(next) ==
    /\ pc' = next
    /\ UNCHANGED <<storage, op, finishing, todo, removed, nonce, issued, served>>

\* The call ends and leaves the owner, or no owner, in state rest.
Rest(rest) ==
    /\ pc' = rest /\ op' = "open" /\ finishing' = FALSE
    /\ todo' = {} /\ removed' = FALSE /\ nonce' = 0
    /\ UNCHANGED <<storage, issued>>

\* The last checks of a call that succeeds: the committed member is in place.
Admit(head) ==
    IF matches(disk.name, head.committed)
    THEN Rest("ready") /\ served' = head.committed
    ELSE Rest("refused") /\ UNCHANGED served

\* The mutation: a refused Open is answered by another Open.
ReopenOnly ==
    /\ UNCHANGED served
    /\ \/ op = "open" /\ cp' = disk.head /\ Census("open", FALSE) /\ UNCHANGED issued
       \/ op = "reconcile" /\ Rest("refused") /\ UNCHANGED cp
       \/ op = "publish" /\ Rest("failed") /\ UNCHANGED cp

\* A call fails with ErrUncertain.  The callers answer a failed Open by one Reconcile;
\* a publishing owner keeps the failure.
Refuse ==
    /\ UNCHANGED served
    /\ \/ op = "open" /\ cp' = disk.head /\ Census("reconcile", FALSE) /\ UNCHANGED issued
       \/ op = "reconcile" /\ Rest("refused") /\ UNCHANGED cp
       \/ op = "publish" /\ Rest("failed") /\ UNCHANGED cp

(***************************************************************************)
(* checkTemporaryCensus.                                                   *)
(***************************************************************************)

\* The marker names a temporary that is not there and that nothing expects.
Stale(m) == disk.temp[m] = 0 /\ cp.pending # m

\* The marker and a temporary of a publication that was not anchored.
Pair(m) == disk.temp[m] # 0 /\ cp.pending # m

\* The mutation: the exchanged predecessor at the temporary is taken for incomplete bytes.
CompleteUnexchanged(m) ==
    /\ cp.pending = m
    /\ \/ disk.temp[m] = 0 /\ matches(disk.name, m)
       \/ disk.temp[m] # 0 /\ matches(disk.temp[m], m)

\* The anchored bytes are complete, at the temporary or, renamed, at the name.
Complete(m) ==
    /\ cp.pending = m
    /\ \/ disk.temp[m] = 0 /\ matches(disk.name, m)
       \/ disk.temp[m] # 0 /\ matches(disk.temp[m], m)
       \/ disk.temp[m] # 0 /\ matches(disk.name, m) /\ matches(disk.temp[m], cp.committed)

\* The mutation: whatever was not yet renamed is taken for unwritten.
Unrenamed(m) == cp.pending = m /\ ~matches(disk.name, m) /\ disk.temp[m] = m

\* The anchored publication has its temporary and no byte in it.
Unwritten(m) ==
    cp.pending = m /\ ~Complete(m) /\ disk.temp[m] = m /\ disk.data[m] = "empty"

\* Only Reconcile, outside finishPending, may remove a temporary.
AllowReconcile == op = "reconcile" /\ ~finishing

\* What the census may not go past.
Blocked(m) ==
    /\ ~Stale(m) /\ ~Complete(m)
    /\ AllowReconcile => ~Pair(m) /\ ~Unwritten(m)

\* A stale marker is cleared in either mode.
ClearMarker(m) ==
    /\ pc = "census" /\ m \in todo /\ Stale(m)
    /\ disk' = [disk EXCEPT !.marker = @ \ {m}]
    /\ todo' = todo \ {m} /\ removed' = TRUE
    /\ UNCHANGED <<storage, stable, pc, op, finishing, cp, nonce, issued, served>>

\* The marker of an anchored publication that can be finished is left alone.
KeepMarker(m) ==
    /\ pc = "census" /\ m \in todo /\ Complete(m)
    /\ todo' = todo \ {m}
    /\ UNCHANGED <<storage, disk, stable, pc, op, finishing, cp, removed, nonce, issued, served>>

\* An anchored publication that wrote nothing is abandoned: first its temporary goes.
Abandon(m) ==
    /\ pc = "census" /\ m \in todo /\ AllowReconcile /\ Unwritten(m)
    /\ disk' = [disk EXCEPT !.temp[m] = 0]
    /\ pc' = "abandonSync" /\ nonce' = m
    /\ UNCHANGED <<storage, stable, op, finishing, cp, todo, removed, issued, served>>

AbandonSync == pc = "abandonSync" /\ SyncDirectory /\ Continue("abandon") /\ UNCHANGED <<disk, cp>>

\* abandonPending: the checkpoint without the pending publication.
abandonPending ==
    /\ pc = "abandon"
    /\ SetAttribute([cp EXCEPT !.pending = 0])
    /\ Continue("abandoned") /\ UNCHANGED <<stable, cp>>

AbandonedSync ==
    /\ pc = "abandoned" /\ SyncDirectory
    /\ cp' = disk.head
    /\ Continue("abandonUnmark") /\ UNCHANGED disk

AbandonUnmark ==
    /\ pc = "abandonUnmark"
    /\ disk' = [disk EXCEPT !.marker = @ \ {nonce}]
    /\ Continue("abandonEnd") /\ UNCHANGED <<stable, cp>>

\* The census goes on with the next marker.
AbandonEnd ==
    /\ pc = "abandonEnd" /\ SyncDirectory
    /\ pc' = "census" /\ todo' = todo \ {nonce} /\ removed' = TRUE /\ nonce' = 0
    /\ UNCHANGED <<storage, disk, op, finishing, cp, issued, served>>

\* A pair that was not anchored is cleared: the temporary, a sync, and the marker.
ClearPair(m) ==
    /\ pc = "census" /\ m \in todo /\ AllowReconcile /\ Pair(m)
    /\ disk' = [disk EXCEPT !.temp[m] = 0]
    /\ pc' = "pairSync" /\ nonce' = m
    /\ UNCHANGED <<storage, stable, op, finishing, cp, todo, removed, issued, served>>

PairSync == pc = "pairSync" /\ SyncDirectory /\ Continue("pairUnmark") /\ UNCHANGED <<disk, cp>>

PairUnmark ==
    /\ pc = "pairUnmark"
    /\ disk' = [disk EXCEPT !.marker = @ \ {nonce}]
    /\ pc' = "census" /\ todo' = todo \ {nonce} /\ removed' = TRUE /\ nonce' = 0
    /\ UNCHANGED <<storage, stable, op, finishing, cp, issued, served>>

\* A temporary that the checkpoint does not name and no marker accounted for.
Unanchored == \E g \in Generations : disk.temp[g] # 0 /\ g # cp.pending

CensusRefuses ==
    /\ pc = "census"
    /\ (\E m \in todo : Blocked(m)) \/ (todo = {} /\ Unanchored)
    /\ Refuse /\ UNCHANGED <<disk, stable>>

\* What was removed is synced, and the call goes on.  A normal open refuses what is
\* pending.
CensusEnds ==
    /\ pc = "census" /\ todo = {} /\ ~Unanchored
    /\ IF removed THEN SyncDirectory ELSE UNCHANGED stable
    /\ UNCHANGED disk
    /\ \/ op = "open" /\ cp.pending # 0 /\ Refuse
       \/ op # "publish" /\ cp.pending = 0 /\ Admit(cp) /\ UNCHANGED cp
       \/ /\ op = "reconcile" /\ cp.pending # 0 /\ ~finishing
          /\ Census("reconcile", TRUE) /\ UNCHANGED <<cp, issued, served>>
       \/ op = "publish" /\ ~finishing /\ Continue("mark") /\ UNCHANGED cp
       \/ finishing /\ Continue("settle") /\ UNCHANGED cp

(***************************************************************************)
(* Open, Reconcile and Publish.                                            *)
(***************************************************************************)

\* A process opens the head; Refuse goes on to Reconcile.
Open ==
    /\ pc = "down"
    /\ cp' = disk.head
    /\ Census("open", FALSE)
    /\ UNCHANGED <<disk, stable, issued, served>>

\* PublishWithHooks, to the census.
Publish ==
    /\ pc = "ready" /\ issued < MaxPublications
    /\ issued' = issued + 1
    /\ Census("publish", FALSE)
    /\ UNCHANGED <<disk, stable, cp, served>>

\* writeCreateMarker.
writeCreateMarker ==
    /\ pc = "mark"
    /\ disk' = [disk EXCEPT !.marker = @ \cup {issued}]
    /\ Continue("markSync") /\ UNCHANGED <<stable, cp>>

MarkerSync == pc = "markSync" /\ SyncDirectory /\ Continue("create") /\ UNCHANGED <<disk, cp>>

CreateTemporary ==
    /\ pc = "create"
    /\ disk' = [disk EXCEPT !.temp[issued] = issued]
    /\ Continue("anchor") /\ UNCHANGED <<stable, cp>>

\* The pending checkpoint is anchored before the bytes.
Anchor ==
    /\ pc = "anchor"
    /\ SetAttribute([cp EXCEPT !.pending = issued])
    /\ Continue("anchorSync") /\ UNCHANGED <<stable, cp>>

AnchorSync ==
    /\ pc = "anchorSync" /\ SyncDirectory
    /\ cp' = disk.head
    /\ Continue("write") /\ UNCHANGED disk

\* The mutation: Publish acknowledges bytes that are written and not yet synced.
WriteAcknowledges(b) ==
    /\ pc = "write" /\ b \in {"partial", "full"}
    /\ disk' = [disk EXCEPT !.data[issued] = b]
    /\ IF b = "full" THEN pc' = "fileSync" /\ served' = issued ELSE UNCHANGED <<pc, served>>
    /\ UNCHANGED <<storage, stable, op, finishing, cp, todo, removed, nonce, issued>>

\* The bytes reach the file in parts.
Write(b) ==
    /\ pc = "write" /\ b \in {"partial", "full"}
    /\ disk' = [disk EXCEPT !.data[issued] = b]
    /\ Continue(IF b = "full" THEN "fileSync" ELSE "write") /\ UNCHANGED <<stable, cp>>

\* The bytes are synced and read back; finishPending begins with a census.
FileSync ==
    /\ pc = "fileSync" /\ SyncFile(issued)
    /\ Census("publish", TRUE)
    /\ UNCHANGED <<disk, cp, issued, served>>

(***************************************************************************)
(* finishPending, of a publication or of Reconcile.                        *)
(***************************************************************************)

\* The exchange is still to be made, with the old bytes at the name and the new ones
\* at the temporary, or it was made.
Settle ==
    /\ pc = "settle"
    /\ UNCHANGED disk
    /\ IF matches(disk.name, cp.pending)
       THEN Continue("directorySync") /\ UNCHANGED <<stable, cp>>
       ELSE IF matches(disk.name, cp.committed) /\ matches(disk.temp[cp.pending], cp.pending)
       THEN SyncFile(cp.pending) /\ Continue("rename") /\ UNCHANGED cp
       ELSE Refuse /\ UNCHANGED stable

\* RenameNoReplace for the first publication, RenameExchange for the others: the
\* temporary gets what was at the name.
Rename ==
    /\ pc = "rename"
    /\ disk' = [disk EXCEPT !.name = disk.temp[cp.pending], !.temp[cp.pending] = disk.name]
    /\ Continue("directorySync") /\ UNCHANGED <<stable, cp>>

\* The mutation: the exchange is not synced before the predecessor goes.
UnsyncedExchange ==
    LET p == cp.pending  old == disk.temp[p] IN
    /\ pc = "directorySync"
    /\ Continue(IF old = 0 THEN "commit" ELSE "unlink") /\ UNCHANGED <<disk, stable, cp>>

\* Both generations are checked, and the exchange is synced.
DirectorySync ==
    LET p == cp.pending  old == disk.temp[p] IN
    /\ pc = "directorySync"
    /\ UNCHANGED disk
    /\ IF matches(disk.name, p) /\ (old = 0 \/ (cp.committed # 0 /\ matches(old, cp.committed)))
       THEN /\ stable' = [disk EXCEPT !.data = [stable.data EXCEPT ![p] = disk.data[p]]]
            /\ Continue(IF old = 0 THEN "commit" ELSE "unlink") /\ UNCHANGED cp
       ELSE Refuse /\ UNCHANGED stable

\* The predecessor is removed.
Unlink ==
    /\ pc = "unlink"
    /\ disk' = [disk EXCEPT !.temp[cp.pending] = 0]
    /\ Continue("unlinkSync") /\ UNCHANGED <<stable, cp>>

UnlinkSync == pc = "unlinkSync" /\ SyncDirectory /\ Continue("commit") /\ UNCHANGED <<disk, cp>>

Commit ==
    /\ pc = "commit"
    /\ SetAttribute([committed |-> cp.pending, pending |-> 0])
    /\ Continue("commitSync") /\ UNCHANGED <<stable, cp>>

CommitSync ==
    /\ pc = "commitSync" /\ SyncDirectory
    /\ cp' = disk.head
    /\ Continue("unmark") /\ UNCHANGED disk

\* removeCreateMarker of the publication that was committed.
removeCreateMarker ==
    /\ pc = "unmark"
    /\ disk' = [disk EXCEPT !.marker = @ \ {cp.committed}]
    /\ Continue("unmarkSync") /\ UNCHANGED <<stable, cp>>

\* Publish acknowledges, or Reconcile returns the owner.
Acknowledge ==
    /\ pc = "unmarkSync" /\ SyncDirectory
    /\ Admit(cp) /\ UNCHANGED <<disk, cp>>

(***************************************************************************)
(* Failures.                                                               *)
(***************************************************************************)

\* The owner's next I/O fails, or its context is cancelled.  A publication whose
\* temporary exists keeps the failure; before that only a failed census does.  A
\* failed Open may be answered by Reconcile.
Fail ==
    /\ pc \notin Resting
    /\ UNCHANGED <<disk, stable, served>>
    /\ \/ op \in {"open", "reconcile"} /\ Rest("down") /\ cp' = NoHead
       \/ op # "reconcile" /\ pc = "census" /\ Refuse
       \/ /\ op = "publish" /\ ~finishing /\ pc \in {"census", "mark", "markSync", "create"}
          /\ Rest("ready") /\ UNCHANGED cp
       \/ /\ op = "publish" /\ (finishing \/ pc \in {"anchor", "anchorSync", "write", "fileSync"})
          /\ Rest("failed") /\ UNCHANGED cp

\* The application closes its owner, or the process is killed; the machine goes on.
Stop ==
    /\ pc # "down"
    /\ Rest("down") /\ cp' = NoHead
    /\ UNCHANGED <<disk, stable, served>>

\* The machine loses power, and with it whatever was not on stable storage.
PowerLoss ==
    /\ storage # "reliable" /\ disk # stable
    /\ disk' = stable
    /\ Rest("down") /\ cp' = NoHead
    /\ UNCHANGED <<stable, served>>

\* The kernel writes the directory back before it is asked to: all of it, in the order
\* of a journal, or a marker, the entries of the files (a rename is atomic) or the
\* checkpoint for itself.
WriteDirectory ==
    \/ storage = "journal" /\ SyncDirectory
    \/ /\ storage = "unordered"
       /\ \/ \E m \in disk.marker : stable' = [stable EXCEPT !.marker = stable.marker \cup {m}]
          \/ \E m \in stable.marker \ disk.marker :
                 stable' = [stable EXCEPT !.marker = stable.marker \ {m}]
          \/ stable' = [stable EXCEPT !.name = disk.name, !.temp = disk.temp]
          \/ stable' = [stable EXCEPT !.head = disk.head]

\* The kernel writes back some or all bytes of a file.
WriteFile ==
    /\ storage # "reliable"
    /\ \E g \in Generations : \E b \in {"partial", disk.data[g]} :
          /\ disk.data[g] # "empty" /\ stable.data[g] # "full"
          /\ stable' = [stable EXCEPT !.data[g] = b]

Writeback ==
    /\ WriteDirectory \/ WriteFile
    /\ UNCHANGED <<storage, disk, pc, op, finishing, cp, todo, removed, nonce, issued, served>>

\* What the owner does when nothing fails.
Work ==
    \/ Open \/ CensusRefuses \/ CensusEnds
    \/ \E m \in Generations : ClearMarker(m) \/ KeepMarker(m) \/ Abandon(m) \/ ClearPair(m)
    \/ AbandonSync \/ abandonPending \/ AbandonedSync \/ AbandonUnmark \/ AbandonEnd
    \/ PairSync \/ PairUnmark
    \/ writeCreateMarker \/ MarkerSync \/ CreateTemporary \/ Anchor \/ AnchorSync
    \/ \E b \in Bytes : Write(b)
    \/ FileSync \/ Settle \/ Rename \/ DirectorySync \/ Unlink \/ UnlinkSync
    \/ Commit \/ CommitSync \/ removeCreateMarker \/ Acknowledge

Fault == Fail \/ Stop \/ PowerLoss

Next == Work \/ Publish \/ Fault \/ Writeback

Spec == Init /\ [][Next]_vars

\* A process in a call takes its next step, and a closed head is opened again.
FairSpec == Spec /\ WF_vars(Work)

-----------------------------------------------------------------------------

\* Every variable has its type.
TypeOK ==
    /\ storage \in Storages /\ disk \in Directories /\ stable \in Directories
    /\ pc \in Steps /\ op \in {"open", "reconcile", "publish"} /\ finishing \in BOOLEAN
    /\ cp \in Checkpoints
    /\ todo \subseteq Generations /\ removed \in BOOLEAN
    /\ nonce \in Inodes /\ issued \in Inodes /\ served \in Inodes

\* A snapshot that an owner returned or acknowledged is never replaced by an earlier
\* one, whatever the process and the machine go through in between: Publish and
\* Reconcile return only what no failure takes back.
NeverBackwards == [][served' >= served]_vars

\* "A prepared record whose bytes reached stable storage is never discarded": an owner
\* never comes to rest on a generation older than complete bytes that were synced.
PreparedKept ==
    pc = "ready" => \A g \in Generations : stable.data[g] = "full" => g <= cp.committed

\* At every moment, before a power loss and after it, the name holds the complete bytes
\* of the committed or of the anchored generation: the exchange, the unlink and the
\* commit are in an order that leaves no gap.
NameWhole ==
    \A d \in {disk, stable} :
        \/ d.name = 0 /\ d.head.committed = 0
        \/ d.name \in {d.head.committed, d.head.pending} \ {0} /\ d.data[d.name] = "full"

\* Reconcile refuses only an anchored publication whose bytes are not complete; what was
\* never anchored, was completed or was committed always reopens.  Without order among
\* unsynced changes a temporary can lose its marker and is refused: a Reconcile that
\* removed the temporary of a pair is cut before its sync, and an Open clears the marker.
RefusedIncomplete ==
    pc = "refused" /\ storage # "unordered" =>
        disk.head.pending # 0 /\ disk.data[disk.head.pending] # "full"

\* Once nothing fails any more every call ends: Open does not hand over to Reconcile
\* for ever and the census comes to its end.
CallsEnd ==
    <>[][~Fault]_vars => []<>(pc \in {"ready", "failed", "refused"})

\* "A cancel or kill after the create marker exists must leave a head that reopens",
\* except where part of the bytes were written.
KillReopens ==
    pc = "refused" => disk.head.pending # 0 /\ disk.data[disk.head.pending] = "partial"
=============================================================================
