------------------------------- MODULE PQueue -------------------------------
(***************************************************************************)
(* enqueue_P and dequeue_P of simple-capture/queue.c between the thread    *)
(* that sends, processing, and the thread that receives, writeout.  The    *)
(* kernel's message queue is a sequence; around it the code keeps a        *)
(* `sanity check counter' with plain ++ and --.  Each call stages its      *)
(* message in a buffer on its stack.  The descendant of these calls in     *)
(* exam2, where both sides stage in one buffer, is part of module Exam2.   *)
(***************************************************************************)
EXTENDS Integers, Sequences

CONSTANTS
    Capacity,   \* NUM_WO_BUF
    Sends       \* bound: how many calls of enqueue_P there are

ASSUME QueueAssumption ==
    /\ Capacity \in Nat \ {0}
    /\ Sends \in Nat

VARIABLES
    mq,        \* the kernel's queue
    count,     \* enqueue_P_count
    pc,        \* where each thread is in its call, "idle" between two, "gone" after the last
    reg,       \* the value of count each thread's ++ or -- has loaded
    b,         \* the staging buffer of each thread
    message,   \* the message of the sender's latest call: 1, 2, 3, ...
    accepted,  \* history: the messages whose enqueue_P returned 0
    delivered  \* history: what the successful calls of dequeue_P stored

vars == <<mq, count, pc, reg, b, message, accepted, delivered>>

Sides == {"sender", "receiver"}
SenderPC == {"idle", "check", "load", "store", "stage", "send", "gone"}
ReceiverPC == {"idle", "load", "store", "receive", "unstage", "gone"}

Init ==
    /\ mq = <<>>
    /\ count = 0
    /\ pc = [t \in Sides |-> "idle"]
    /\ reg = [t \in Sides |-> 0]
    /\ b = [t \in Sides |-> 0]
    /\ message = 0
    /\ accepted = <<>>
    /\ delivered = <<>>

At(t, l) == pc[t] = l
Goto(t, l) == pc' = [pc EXCEPT ![t] = l]

\* The caller finds running cleared between two calls.
Leave(t) ==
    /\ At(t, "idle")
    /\ Goto(t, "gone")
    /\ UNCHANGED <<mq, count, reg, b, message, accepted, delivered>>

LoadCount(t) ==
    /\ At(t, "load")
    /\ reg' = [reg EXCEPT ![t] = count]
    /\ Goto(t, "store")
    /\ UNCHANGED <<mq, count, b, message, accepted, delivered>>

StoreCount(t, step, next) ==
    /\ At(t, "store")
    /\ count' = reg[t] + step
    /\ Goto(t, next)
    /\ UNCHANGED <<mq, reg, b, message, accepted, delivered>>

-----------------------------------------------------------------------------
(* enqueue_P.  When it returns -1 the caller takes its error exit.         *)

Enqueue ==
    /\ At("sender", "idle")
    /\ message < Sends
    /\ message' = message + 1
    /\ Goto("sender", "check")
    /\ UNCHANGED <<mq, count, reg, b, accepted, delivered>>

\* "(safety) enqueue_P full!": return -1
RefuseFull ==
    /\ At("sender", "check")
    /\ count = Capacity
    /\ Goto("sender", "gone")
    /\ UNCHANGED <<mq, count, reg, b, message, accepted, delivered>>

\* Mutant: the check is left out.
CheckRoomSkipped ==
    /\ At("sender", "check")
    /\ Goto("sender", "load")
    /\ UNCHANGED <<mq, count, reg, b, message, accepted, delivered>>

CheckRoom ==
    /\ At("sender", "check")
    /\ count # Capacity
    /\ Goto("sender", "load")
    /\ UNCHANGED <<mq, count, reg, b, message, accepted, delivered>>

Increment == StoreCount("sender", 1, "stage")

\* Mutant: the message is not copied.
StageForgotten ==
    /\ At("sender", "stage")
    /\ Goto("sender", "send")
    /\ UNCHANGED <<mq, count, reg, b, message, accepted, delivered>>

\* memcpy(b, p)
Stage ==
    /\ At("sender", "stage")
    /\ b' = [b EXCEPT !["sender"] = message]
    /\ Goto("sender", "send")
    /\ UNCHANGED <<mq, count, reg, message, accepted, delivered>>

\* mq_timedsend returns 0
SendStaged ==
    /\ At("sender", "send")
    /\ Len(mq) < Capacity
    /\ mq' = Append(mq, b["sender"])
    /\ accepted' = Append(accepted, message)
    /\ Goto("sender", "idle")
    /\ UNCHANGED <<count, reg, b, message, delivered>>

\* mq_timedsend times out: return -1, and count stays incremented
SendTimeout ==
    /\ At("sender", "send")
    /\ Len(mq) = Capacity
    /\ Goto("sender", "gone")
    /\ UNCHANGED <<mq, count, reg, b, message, accepted, delivered>>

-----------------------------------------------------------------------------
(* dequeue_P.  When it returns -1 the caller takes its error exit.         *)

Dequeue ==
    /\ At("receiver", "idle")
    /\ Goto("receiver", "load")
    /\ UNCHANGED <<mq, count, reg, b, message, accepted, delivered>>

\* count-- comes before the message, and waits for nobody.
Decrement == StoreCount("receiver", -1, "receive")

\* Mutant: the loop around mq_receive goes round once more.
ReceiveStagedAgain ==
    /\ At("receiver", "receive")
    /\ mq # <<>>
    /\ b' = [b EXCEPT !["receiver"] = Head(mq)]
    /\ mq' = Tail(mq)
    /\ UNCHANGED <<count, pc, reg, message, accepted, delivered>>

ReceiveStaged ==
    /\ At("receiver", "receive")
    /\ mq # <<>>
    /\ b' = [b EXCEPT !["receiver"] = Head(mq)]
    /\ mq' = Tail(mq)
    /\ Goto("receiver", "unstage")
    /\ UNCHANGED <<count, reg, message, accepted, delivered>>

\* Mutant: the error is not looked at.
ReceiveInterruptedUnseen ==
    /\ At("receiver", "receive")
    /\ mq = <<>>
    /\ Goto("receiver", "unstage")
    /\ UNCHANGED <<mq, count, reg, b, message, accepted, delivered>>

\* mq_receive returns -1 with EINTR: return -1, and count stays decremented
ReceiveInterrupted ==
    /\ At("receiver", "receive")
    /\ mq = <<>>
    /\ Goto("receiver", "gone")
    /\ UNCHANGED <<mq, count, reg, b, message, accepted, delivered>>

\* memcpy(p, b)
Unstage ==
    /\ At("receiver", "unstage")
    /\ delivered' = Append(delivered, b["receiver"])
    /\ Goto("receiver", "idle")
    /\ UNCHANGED <<mq, count, reg, b, message, accepted>>

Sender ==
    \/ Enqueue
    \/ RefuseFull
    \/ CheckRoom
    \/ LoadCount("sender")
    \/ Increment
    \/ Stage
    \/ SendStaged
    \/ SendTimeout

Receiver ==
    \/ Dequeue
    \/ LoadCount("receiver")
    \/ Decrement
    \/ ReceiveStaged
    \/ Unstage

Next == Sender \/ Receiver \/ ReceiveInterrupted \/ \E t \in Sides : Leave(t)

Spec == Init /\ [][Next]_vars

\* writeout gets the processor; nothing forces a signal or a stop on it, nor anything on
\* the sender.
Fairness == WF_vars(Receiver)

FairSpec == Spec /\ Fairness

-----------------------------------------------------------------------------
(* Properties                                                              *)

\* Every variable keeps its range.  Whatever the two threads lose of each other's ++ and
\* --, the counter never passes Capacity: only its lower end drifts.
TypeOK ==
    /\ mq \in Seq(0 .. Sends) /\ Len(mq) <= Capacity
    /\ count \in Int /\ count <= Capacity
    /\ pc \in [Sides -> SenderPC \cup ReceiverPC]
    /\ pc["sender"] \in SenderPC
    /\ pc["receiver"] \in ReceiverPC
    /\ reg \in [Sides -> Int]
    /\ b \in [Sides -> 0 .. Sends]
    /\ message \in 0 .. Sends
    /\ accepted \in Seq(1 .. Sends)
    /\ delivered \in Seq(0 .. Sends)

\* The message the receiver holds between mq_receive and the copy to its caller.
Held == IF pc["receiver"] = "unstage" THEN <<b["receiver"]>> ELSE <<>>

\* Every accepted message is delivered, held or queued, in the order of acceptance:
\* none is lost, doubled, overtaken or altered on its way.
InOrder == accepted = delivered \o Held \o mq

Fifo == INSTANCE BoundedFifo WITH
            Messages <- 1 .. Sends, channel <- mq, delivered <- delivered \o Held

\* The calls implement the bounded channel: a message is delivered by the mq_receive that
\* takes it ("receive buffer"), and nothing changes it between there and the caller.
ImplementsFifo == Fifo!Spec

\* An accepted message reaches the receiver's caller, unless that thread has ended: on an
\* interrupted mq_receive, after which it never receives again, or on a stop.
Delivered == \A m \in 1 .. Sends :
    (\E i \in DOMAIN accepted : accepted[i] = m)
        ~> \/ \E i \in DOMAIN delivered : delivered[i] = m
           \/ pc["receiver"] = "gone"
=============================================================================
