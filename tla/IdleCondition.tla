--------------------------- MODULE IdleCondition ---------------------------
(***************************************************************************)
(* IdleCondition of util.go: how a sequence whose work channel is fed by   *)
(* other goroutines decides that it has been idle and may shut down.  A    *)
(* feeder brackets its call with UpdateOpen and UpdateClose; the run loop  *)
(* takes a checkpoint, waits, and may close only if nothing was opened     *)
(* since.  There is one condition per sequence.                            *)
(*                                                                         *)
(* The open count is kept as the set of the feeders inside.  modId is only *)
(* ever compared with the checkpoint the run loop took last, so the model  *)
(* keeps whether it moved since.                                           *)
(***************************************************************************)
EXTENDS Integers

CONSTANTS
    Callers,      \* the Pack calls, one pack each
    MaxSequences  \* how many sequences are ever created, a bound of the model

ASSUME IdleAssumption == MaxSequences \in Nat

SequenceIds == 1 .. MaxSequences

VARIABLES
    moved,   \* modId of each sequence's condition moved since the last checkpoint
    opened,  \* the feeders counted by its updateOpenCount
    closed   \* its closed flag

idleVars == <<moved, opened, closed>>

IdleTypeOK ==
    /\ moved \in [SequenceIds -> BOOLEAN]
    /\ opened \in [SequenceIds -> SUBSET Callers]
    /\ closed \in [SequenceIds -> BOOLEAN]

IdleInit ==
    /\ moved = [s \in SequenceIds |-> FALSE]
    /\ opened = [s \in SequenceIds |-> {}]
    /\ closed = [s \in SequenceIds |-> FALSE]

\* UpdateOpen, when it returns true.  It returns false on a closed condition.
UpdateOpen(s, p) ==
    /\ ~closed[s]
    /\ moved' = [moved EXCEPT ![s] = TRUE]
    /\ opened' = [opened EXCEPT ![s] = @ \cup {p}]
    /\ UNCHANGED closed

UpdateClose(s, p) ==
    /\ opened' = [opened EXCEPT ![s] = @ \ {p}]
    /\ UNCHANGED <<moved, closed>>

\* Checkpoint: the run loop remembers modId as it is now.
TakeCheckpoint(s) ==
    /\ moved' = [moved EXCEPT ![s] = FALSE]
    /\ UNCHANGED <<opened, closed>>

\* The mutation: a close that only asks whether a feeder is inside now.
MayCloseAnyTime(s) == opened[s] = {}

\* What Close of the last checkpoint asks before it sets the closed flag.
MayClose(s) == ~moved[s] /\ opened[s] = {}

\* Close of the last checkpoint, when it returns true.
CloseIdle(s) ==
    /\ MayClose(s)
    /\ closed' = [closed EXCEPT ![s] = TRUE]
    /\ UNCHANGED <<moved, opened>>
=============================================================================
