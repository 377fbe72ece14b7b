----------------------------- MODULE AckWindow -----------------------------
(***************************************************************************)
(* sequenceAckWindow (transfer.go): the coalescing window between the      *)
(* goroutine that learns of acks and the one that consumes them.  Each     *)
(* side of a transfer sequence owns one: the receiver's is filled by its   *)
(* Run loop and drained by its ack writer, the sender's is filled by its   *)
(* ack reader and drained by its Run loop.                                 *)
(*                                                                         *)
(* A message id and a sequence number name the same item, so acks are      *)
(* identified by sequence number.  The plaintext bit and the tag of an ack *)
(* are left out, as is the gap wake.                                       *)
(***************************************************************************)
EXTENDS Integers

\* headAck = nil.
NoAck == -1

\* The windows over the sequence numbers S.  updated stands for
\* 0 < ackUpdateCount, the only question its consumers ask; only a window with
\* a head counts updates.
AckWindows(S) ==
    {w \in [head : S \cup {NoAck}, updated : BOOLEAN, selective : SUBSET S] :
        w.updated => w.head # NoAck}

\* newSequenceAckWindow
EmptyWindow == [head |-> NoAck, updated |-> FALSE, selective |-> {}]

\* Update for a non-selective (cumulative) ack: it advances the head, or asks
\* for the head to be resent when it is at or below it.
UpdateHead(w, s) ==
    [head |-> IF w.head < s THEN s ELSE w.head,
     updated |-> TRUE,
     selective |-> w.selective]

\* Mutant of UpdateSelective: every ack counts as an update of the head.
UpdateSelectiveCounts(w, S) ==
    [head |-> w.head,
     updated |-> w.updated \/ S # {},
     selective |-> w.selective \cup {s \in S : w.head < s}]

\* Update for the selective acks of the items in S: one above the head is
\* recorded, one at or below it asks for the head to be resent.
UpdateSelective(w, S) ==
    [head |-> w.head,
     updated |-> w.updated \/ \E s \in S : s <= w.head,
     selective |-> w.selective \cup {s \in S : w.head < s}]

\* Whether the consumer has anything to do.
HasAcks(w) == w.updated \/ w.selective # {}

\* The part of Snapshot that filters: once the head moved, only the selective
\* acks above it are reported.
SnapshotSelective(w) ==
    {s \in w.selective : w.updated => w.head < s}

\* The part of Snapshot(reset = true) that clears: the head ack stays, so that
\* it can be resent.
ResetWindow(w) == [head |-> w.head, updated |-> FALSE, selective |-> {}]
=============================================================================
