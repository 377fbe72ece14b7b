--------------------------- MODULE MCReceiveHold ---------------------------
(***************************************************************************)
(* The receive half alone, against a sender that has every item in flight: *)
(* any order of arrival, with any number of resends.  Acks are written and *)
(* lost, so that only the hold matters.                                    *)
(***************************************************************************)
EXTENDS ReceiveSequence

HoldInit ==
    /\ ReceiveInit
    /\ packs = {[seq |-> i, head |-> i = 0] : i \in Seqs}
    /\ acks = {}

HoldNext ==
    \/ \E m \in packs : ReceivePack(m)
    \/ DrainHeld
    \/ WriteAcks(SnapshotAcks(recvWindow))
    \/ ReceiveExit

HoldSpec == HoldInit /\ [][HoldNext]_<<recvVars, netVars>>

UniformSize == [i \in Seqs |-> 2]

\* Later frames larger than the earlier ones: a small one, and larger ones.
MixedSize == [i \in Seqs |-> CASE i = 3 -> 1 [] i = 2 -> 8 [] OTHER -> 5]
=============================================================================
