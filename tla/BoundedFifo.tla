----------------------------- MODULE BoundedFifo -----------------------------
(***************************************************************************)
(* What the callers of enqueue_P and dequeue_P rely on: a bounded channel   *)
(* that hands over the accepted messages in order, each of them once.      *)
(***************************************************************************)
EXTENDS Naturals, Sequences

CONSTANTS Messages, Capacity

VARIABLES channel, delivered

fifoVars == <<channel, delivered>>

Init == channel = <<>> /\ delivered = <<>>

Send(m) ==
    /\ Len(channel) < Capacity
    /\ channel' = Append(channel, m)
    /\ UNCHANGED delivered

Receive ==
    /\ channel # <<>>
    /\ delivered' = Append(delivered, Head(channel))
    /\ channel' = Tail(channel)

Next == Receive \/ \E m \in Messages : Send(m)

Spec == Init /\ [][Next]_fifoVars
=============================================================================
