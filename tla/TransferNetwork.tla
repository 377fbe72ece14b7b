-------------------------- MODULE TransferNetwork --------------------------
(***************************************************************************)
(* The two ends of one transfer sequence see each other only through       *)
(* packs and acks written to the route manager.  Routes come and go, a     *)
(* message may take any of them and a write may fail, so between the ends  *)
(* a message may be lost, duplicated or reordered.                         *)
(*                                                                         *)
(* The messages in flight are sets.  Receiving a message leaves it in      *)
(* flight (a duplicate may still arrive) until it is lost.  A failed write *)
(* is a loss right after the write.                                        *)
(***************************************************************************)
EXTENDS Integers, FiniteSets

CONSTANTS
    N,     \* how many acked items the sequence carries, a bound of the model
    Size,  \* bytes of each item's frame, without a contract frame
    MaxPacks, MaxAcks  \* how many packs and acks are in flight, bounds of the model

\* The sequence numbers: dense, one per acked item, from 0.
Seqs == 0 .. N - 1

ASSUME NetworkAssumption ==
    /\ N \in Nat
    /\ Size \in [Seqs -> Nat \ {0}]
    /\ MaxPacks \in Nat
    /\ MaxAcks \in Nat

VARIABLES
    packs,  \* packs in flight: [seq, head] (protocol.Pack)
    acks    \* acks in flight: [seq, selective] (protocol.Ack)

netVars == <<packs, acks>>

Packs == [seq : Seqs, head : BOOLEAN]
Acks == [seq : Seqs, selective : BOOLEAN]

NetworkTypeOK ==
    /\ packs \subseteq Packs
    /\ acks \subseteq Acks

NetworkInit ==
    /\ packs = {}
    /\ acks = {}

\* One write to the multi-route writer, of one pack.
WritePack(i, head) ==
    /\ packs' = packs \cup {[seq |-> i, head |-> head]}
    /\ Cardinality(packs') <= MaxPacks

\* The writes of one snapshot of acks A, of which those in lost fail.
WriteAckSet(A, lost) ==
    /\ acks' = acks \cup (A \ lost)
    /\ Cardinality(acks') <= MaxAcks

LosePack ==
    /\ \E m \in packs : packs' = packs \ {m}
    /\ UNCHANGED acks

LoseAck ==
    /\ \E a \in acks : acks' = acks \ {a}
    /\ UNCHANGED packs
=============================================================================
