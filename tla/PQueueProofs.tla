----------------------------- MODULE PQueueProofs -----------------------------
(***************************************************************************)
(* The message queue of enqueue_P and dequeue_P for every capacity and     *)
(* every number of calls: its variables keep their ranges, and it is a     *)
(* FIFO, whatever becomes of the counter beside it and whenever a call is  *)
(* refused, times out or is interrupted.                                   *)
(***************************************************************************)
EXTENDS PQueue, SequenceTheorems, TLAPS

-----------------------------------------------------------------------------
(* Types.  That count never passes Capacity rests on who writes it: only   *)
(* the sender raises it, and between its check and its store the receiver  *)
(* can only store something lower than Capacity.                           *)

CountBelow ==
    /\ pc["sender"] = "load" => count < Capacity
    /\ pc["sender"] = "store" => reg["sender"] < Capacity
    /\ pc["receiver"] = "store" => reg["receiver"] <= Capacity

\* Within a call there is a message.
Calling == pc["sender"] \notin {"idle", "gone"} => message >= 1

TypeInv == TypeOK /\ CountBelow /\ Calling

LEMMA TypeInit == Init => TypeInv
  <1> SUFFICES ASSUME Init PROVE TypeInv
    OBVIOUS
  <1>1. /\ Sends \in Nat /\ Capacity \in Nat /\ Capacity > 0
        /\ <<>> \in Seq(0 .. Sends) /\ <<>> \in Seq(1 .. Sends) /\ Len(<<>>) = 0
    BY QueueAssumption
  <1>2. TypeOK
    BY <1>1 DEF Init, TypeOK, Sides, SenderPC, ReceiverPC
  <1> QED BY <1>2 DEF Init, TypeInv, CountBelow, Calling, Sides

\* A step of one thread inside its call that leaves the queues and the counter alone.
LEMMA GotoType ==
    ASSUME TypeOK, NEW t \in Sides, NEW there, Goto(t, there),
           there \in (IF t = "sender" THEN SenderPC ELSE ReceiverPC)
    PROVE  /\ pc' \in [Sides -> SenderPC \cup ReceiverPC]
           /\ pc'["sender"] \in SenderPC
           /\ pc'["receiver"] \in ReceiverPC
           /\ pc'[t] = there
           /\ \A u \in Sides \ {t} : pc'[u] = pc[u]
  BY DEF TypeOK, Goto, Sides

LEMMA TypeStep == TypeInv /\ [Next]_vars => TypeInv'
  <1> SUFFICES ASSUME TypeInv, [Next]_vars PROVE TypeInv'
    OBVIOUS
  <1> USE DEF TypeInv
  <1>0. /\ Sends \in Nat /\ Capacity \in Nat /\ Capacity > 0
        /\ "sender" \in Sides /\ "receiver" \in Sides
    BY QueueAssumption DEF Sides
  <1>1. CASE Enqueue
    <2>1. message' \in 1 .. Sends
      BY <1>0, <1>1 DEF Enqueue, TypeOK
    <2> QED BY <1>0, <1>1, <2>1, GotoType
            DEF Enqueue, TypeOK, CountBelow, Calling, SenderPC, Sides
  <1>2. CASE RefuseFull
    BY <1>0, <1>2, GotoType DEF RefuseFull, TypeOK, CountBelow, Calling, SenderPC, Sides
  <1>3. CASE CheckRoom
    <2>1. count < Capacity /\ pc["sender"] = "check"
      BY <1>0, <1>3 DEF CheckRoom, TypeOK, At
    <2> QED BY <1>0, <1>3, <2>1, GotoType
            DEF CheckRoom, TypeOK, CountBelow, Calling, SenderPC, Sides
  <1>4. ASSUME NEW t \in Sides, LoadCount(t) PROVE TypeInv'
    <2>1. pc[t] = "load" /\ reg' = [reg EXCEPT ![t] = count]
      BY <1>4 DEF LoadCount, At
    <2>2. reg' \in [Sides -> Int]
      BY <2>1 DEF TypeOK
    <2>3. "store" \in (IF t = "sender" THEN SenderPC ELSE ReceiverPC)
      BY DEF SenderPC, ReceiverPC
    <2> QED BY <1>0, <1>4, <2>1, <2>2, <2>3, GotoType
            DEF LoadCount, TypeOK, CountBelow, Calling, Sides
  <1>5. CASE Increment
    <2>1. pc["sender"] = "store" /\ count' = reg["sender"] + 1
      BY <1>5 DEF Increment, StoreCount, At
    <2>2. count' \in Int /\ count' <= Capacity
      BY <1>0, <2>1 DEF TypeOK, CountBelow
    <2> QED BY <1>0, <1>5, <2>1, <2>2, GotoType
            DEF Increment, StoreCount, TypeOK, CountBelow, Calling, SenderPC, Sides
  <1>6. CASE Stage
    BY <1>0, <1>6, GotoType DEF Stage, TypeOK, CountBelow, Calling, At, SenderPC, Sides
  <1>7. CASE SendStaged
    <2>1. message \in 1 .. Sends
      BY <1>0, <1>7 DEF SendStaged, At, TypeOK, Calling
    <2>2. accepted' \in Seq(1 .. Sends)
      BY <1>7, <2>1, AppendProperties DEF SendStaged, TypeOK
    <2>3. mq' \in Seq(0 .. Sends) /\ Len(mq') <= Capacity
      <3>1. b["sender"] \in 0 .. Sends /\ Len(mq) \in Nat
        BY <1>0, LenProperties DEF TypeOK
      <3>2. Append(mq, b["sender"]) \in Seq(0 .. Sends)
            /\ Len(Append(mq, b["sender"])) = Len(mq) + 1
        BY <3>1, AppendProperties DEF TypeOK
      <3>3. mq' = Append(mq, b["sender"]) /\ Len(mq) < Capacity
        BY <1>7 DEF SendStaged
      <3> QED BY <1>0, <3>1, <3>2, <3>3
    <2> QED BY <1>0, <1>7, <2>2, <2>3, GotoType
            DEF SendStaged, TypeOK, CountBelow, Calling, SenderPC, Sides
  <1>8. CASE SendTimeout
    BY <1>0, <1>8, GotoType DEF SendTimeout, TypeOK, CountBelow, Calling, SenderPC, Sides
  <1>9. CASE Dequeue
    BY <1>0, <1>9, GotoType DEF Dequeue, TypeOK, CountBelow, Calling, ReceiverPC, Sides
  <1>10. CASE Decrement
    <2>1. pc["receiver"] = "store" /\ count' = reg["receiver"] + (-1)
      BY <1>10 DEF Decrement, StoreCount, At
    <2>2. count' \in Int /\ count' < Capacity
      BY <1>0, <2>1 DEF TypeOK, CountBelow
    <2>3. count' <= Capacity
      BY <1>0, <2>2
    <2> QED BY <1>0, <1>10, <2>1, <2>2, <2>3, GotoType
            DEF Decrement, StoreCount, TypeOK, CountBelow, Calling, ReceiverPC, Sides
  <1>11. CASE ReceiveStaged
    <2>1. mq # <<>> /\ mq' = Tail(mq)
      BY <1>11 DEF ReceiveStaged
    <2>2. /\ Head(mq) \in 0 .. Sends /\ mq' \in Seq(0 .. Sends) /\ Len(mq') = Len(mq) - 1
          /\ Len(mq) \in Nat
      BY <2>1, HeadTailProperties, LenProperties DEF TypeOK
    <2>3. Len(mq') <= Capacity
      BY <1>0, <2>2 DEF TypeOK
    <2>4. b' \in [Sides -> 0 .. Sends]
      BY <1>0, <1>11, <2>2 DEF ReceiveStaged, TypeOK
    <2> QED BY <1>0, <1>11, <2>2, <2>3, <2>4, GotoType
            DEF ReceiveStaged, TypeOK, CountBelow, Calling, ReceiverPC, Sides
  <1>12. CASE ReceiveInterrupted
    BY <1>0, <1>12, GotoType
       DEF ReceiveInterrupted, TypeOK, CountBelow, Calling, ReceiverPC, Sides
  <1>13. CASE Unstage
    <2>1. b["receiver"] \in 0 .. Sends
      BY <1>0 DEF TypeOK
    <2>2. delivered' \in Seq(0 .. Sends)
      BY <1>13, <2>1, AppendProperties DEF Unstage, TypeOK
    <2> QED BY <1>0, <1>13, <2>2, GotoType
            DEF Unstage, TypeOK, CountBelow, Calling, ReceiverPC, Sides
  <1>14. ASSUME NEW t \in Sides, Leave(t) PROVE TypeInv'
    <2>1. "gone" \in (IF t = "sender" THEN SenderPC ELSE ReceiverPC)
      BY DEF SenderPC, ReceiverPC
    <2> QED BY <1>0, <1>14, <2>1, GotoType DEF Leave, At, TypeOK, CountBelow, Calling, Sides
  <1>15. CASE UNCHANGED vars
    BY <1>15 DEF vars, TypeOK, CountBelow, Calling
  <1> QED BY <1>0, <1>1, <1>2, <1>3, <1>4, <1>5, <1>6, <1>7, <1>8, <1>9, <1>10, <1>11,
             <1>12, <1>13, <1>14, <1>15 DEF Next, Sender, Receiver

\* The queue's variables keep their ranges for every capacity and any interleaving; the
\* counter that guards enqueue_P never passes the capacity, lost updates included.
THEOREM QueueTypeCorrect == Spec => []TypeOK
  <1>1. TypeInv => TypeOK
    BY DEF TypeInv
  <1> QED BY TypeInit, TypeStep, <1>1, PTL DEF Spec

-----------------------------------------------------------------------------
(* Order.                                                                  *)

\* What is staged when mq_timedsend is called is the message of this call.
Staged == pc["sender"] = "send" => b["sender"] = message

OrderInv == TypeInv /\ Staged /\ InOrder

LEMMA HeldType == TypeOK => Held \in Seq(0 .. Sends)
  <1> SUFFICES ASSUME TypeOK PROVE Held \in Seq(0 .. Sends)
    OBVIOUS
  <1> DEFINE x == b["receiver"]
  <1>1. x \in 0 .. Sends
    BY DEF TypeOK, Sides
  <1>2. Held = <<x>> \/ Held = <<>>
    BY DEF Held
  <1> HIDE DEF x
  <1>3. <<x>> \in Seq(0 .. Sends) /\ <<>> \in Seq(0 .. Sends)
    BY <1>1
  <1> QED BY <1>2, <1>3

LEMMA HeadTailConcat ==
    ASSUME NEW S, NEW s \in Seq(S), s # <<>>
    PROVE  s = <<Head(s)>> \o Tail(s)
  <1> DEFINE h == <<Head(s)>>
             t == Tail(s)
  <1>1. /\ Len(s) \in Nat \ {0} /\ t \in Seq(S) /\ Len(t) = Len(s) - 1
        /\ \A i \in 1 .. Len(t) : t[i] = s[i + 1]
    BY EmptySeq, HeadTailProperties
  <1>2. h \in Seq(S) /\ Len(h) = 1 /\ h[1] = s[1]
    BY HeadTailProperties
  <1> HIDE DEF h, t
  <1>3. /\ h \o t \in Seq(S) /\ Len(h \o t) = Len(s)
        /\ \A i \in 1 .. Len(s) : (h \o t)[i] = IF i <= 1 THEN h[i] ELSE t[i - 1]
    <2>1. /\ h \o t \in Seq(S) /\ Len(h \o t) = Len(h) + Len(t)
          /\ \A i \in 1 .. Len(h) + Len(t) :
                 (h \o t)[i] = IF i <= Len(h) THEN h[i] ELSE t[i - Len(h)]
      BY <1>1, <1>2, ConcatProperties, Zenon
    <2>2. Len(h) + Len(t) = Len(s) /\ Len(h) = 1
      BY <1>1, <1>2
    <2> QED BY <2>1, <2>2, Zenon
  <1>4. ASSUME NEW i \in 1 .. Len(s) PROVE s[i] = (h \o t)[i]
    <2>1. CASE i = 1
      BY <1>1, <1>2, <1>3, <2>1
    <2>2. CASE i # 1
      <3>1. i - 1 \in 1 .. Len(t) /\ (i - 1) + 1 = i /\ ~ (i <= 1)
        BY <1>1, <2>2
      <3> QED BY <1>1, <1>3, <3>1
    <2> QED BY <2>1, <2>2
  <1>5. s = h \o t
    BY <1>3, <1>4, SeqEqual
  <1> QED BY <1>5 DEF h, t

LEMMA OrderInit == Init => OrderInv
  <1> SUFFICES ASSUME Init PROVE OrderInv
    OBVIOUS
  <1>1. TypeInv /\ Staged
    BY TypeInit DEF Init, Staged, Sides
  <1>2. Held = <<>>
    BY DEF Held, Init, Sides
  <1>3. InOrder
    BY <1>2 DEF InOrder, Init
  <1> QED BY <1>1, <1>3 DEF OrderInv

\* The message moves from the sender to the end of the queue.
LEMMA SendOrder ==
    ASSUME OrderInv, SendStaged
    PROVE  /\ mq' = Append(mq, message) /\ message \in 1 .. Sends
           /\ Held' = Held /\ delivered' = delivered /\ InOrder'
  <1> USE DEF OrderInv, TypeInv
  <1>1. message \in 1 .. Sends /\ mq' = Append(mq, message)
    BY DEF SendStaged, At, Staged, TypeOK, Calling
  <1>2. Held' = Held /\ delivered' = delivered
    BY DEF SendStaged, Goto, Held, TypeOK, Sides
  <1>3. accepted' = Append(delivered \o Held \o mq, message)
    BY DEF SendStaged, InOrder
  <1>4. /\ delivered \o Held \in Seq(0 .. Sends) /\ mq \in Seq(0 .. Sends)
        /\ (delivered \o Held) \o mq \in Seq(0 .. Sends) /\ <<message>> \in Seq(0 .. Sends)
        /\ message \in 0 .. Sends
    BY <1>1, HeldType, ConcatProperties DEF TypeOK
  <1>5. /\ accepted' = ((delivered \o Held) \o mq) \o <<message>>
        /\ mq' = mq \o <<message>>
    BY <1>1, <1>3, <1>4, AppendIsConcat
  <1>6. accepted' = (delivered \o Held) \o mq'
    <2> DEFINE d == delivered \o Held
               m == <<message>>
    <2>1. d \in Seq(0 .. Sends) /\ mq \in Seq(0 .. Sends) /\ m \in Seq(0 .. Sends)
      BY <1>4
    <2>2. accepted' = (d \o mq) \o m /\ mq' = mq \o m
      BY <1>5
    <2> HIDE DEF d, m
    <2>3. (d \o mq) \o m = d \o (mq \o m)
      BY <2>1, ConcatAssociative
    <2>4. accepted' = d \o mq'
      BY <2>2, <2>3
    <2> QED BY <2>4 DEF d
  <1> QED BY <1>1, <1>2, <1>6 DEF InOrder

\* The message moves from the head of the queue to the receiver's buffer.
LEMMA ReceiveOrder ==
    ASSUME OrderInv, ReceiveStaged
    PROVE  /\ mq # <<>> /\ mq' = Tail(mq) /\ Held = <<>> /\ Held' = <<Head(mq)>>
           /\ delivered' = delivered /\ InOrder'
  <1> USE DEF OrderInv, TypeInv
  <1>1. mq # <<>> /\ mq' = Tail(mq) /\ delivered' = delivered /\ accepted' = accepted
    BY DEF ReceiveStaged
  <1>2. Held = <<>>
    BY DEF ReceiveStaged, At, Held
  <1>3. Held' = <<Head(mq)>>
    BY DEF ReceiveStaged, Goto, Held, TypeOK, Sides
  <1>4. /\ mq = <<Head(mq)>> \o Tail(mq)
        /\ Tail(mq) \in Seq(0 .. Sends) /\ <<Head(mq)>> \in Seq(0 .. Sends)
        /\ delivered \in Seq(0 .. Sends)
    <2>1. mq \in Seq(0 .. Sends) /\ mq # <<>> /\ delivered \in Seq(0 .. Sends)
      BY <1>1 DEF TypeOK
    <2>2. Head(mq) \in 0 .. Sends /\ Tail(mq) \in Seq(0 .. Sends)
      BY <2>1, HeadTailProperties
    <2>3. mq = <<Head(mq)>> \o Tail(mq)
      BY <2>1, HeadTailConcat
    <2>4. <<Head(mq)>> \in Seq(0 .. Sends)
      <3> DEFINE x == Head(mq)
      <3> HIDE DEF x
      <3>1. x \in 0 .. Sends => <<x>> \in Seq(0 .. Sends)
        OBVIOUS
      <3> QED BY <2>2, <3>1 DEF x
    <2> QED BY <2>1, <2>2, <2>3, <2>4
  <1>5. delivered \o <<>> = delivered
    BY <1>4, ConcatEmptySeq
  <1>6. accepted' = delivered \o (<<Head(mq)>> \o Tail(mq))
    BY <1>1, <1>2, <1>4, <1>5 DEF InOrder
  <1>7. accepted' = (delivered \o <<Head(mq)>>) \o Tail(mq)
    BY <1>4, <1>6, ConcatAssociative
  <1> QED BY <1>1, <1>2, <1>3, <1>7 DEF InOrder

\* The message moves from the receiver's buffer to its caller.
LEMMA UnstageOrder ==
    ASSUME OrderInv, Unstage
    PROVE  mq' = mq /\ (delivered \o Held)' = delivered \o Held /\ InOrder'
  <1> USE DEF OrderInv, TypeInv
  <1>1. /\ mq' = mq /\ accepted' = accepted
        /\ delivered' = Append(delivered, b["receiver"])
    BY DEF Unstage
  <1>2. Held = <<b["receiver"]>>
    BY DEF Unstage, At, Held
  <1>3. Held' = <<>>
    BY DEF Unstage, Goto, Held, TypeOK, Sides
  <1>4. b["receiver"] \in 0 .. Sends
    BY DEF TypeOK, Sides
  <1>5. delivered' = delivered \o Held /\ delivered' \in Seq(0 .. Sends)
    BY <1>1, <1>2, <1>4, AppendIsConcat, AppendProperties DEF TypeOK
  <1>6. (delivered \o Held)' = delivered \o Held
    BY <1>3, <1>5, ConcatEmptySeq
  <1> QED BY <1>1, <1>6 DEF InOrder

\* Every other step leaves the queue, the receiver's buffer and its caller alone.
LEMMA OtherOrder ==
    ASSUME OrderInv, [Next]_vars, ~SendStaged, ~ReceiveStaged, ~Unstage
    PROVE  /\ UNCHANGED <<mq, delivered, accepted>> /\ Held' = Held
           /\ pc'["sender"] = "send" =>
                  \/ b'["sender"] = message'
                  \/ pc["sender"] = "send" /\ b'["sender"] = b["sender"] /\ message' = message
  <1> USE DEF OrderInv, TypeInv, Held, At, Goto, TypeOK, Sides
  <1>1. CASE Enqueue
    BY <1>1 DEF Enqueue
  <1>2. CASE RefuseFull
    BY <1>2 DEF RefuseFull
  <1>3. CASE CheckRoom
    BY <1>3 DEF CheckRoom
  <1>4. ASSUME NEW t \in Sides, LoadCount(t)
        PROVE  /\ UNCHANGED <<mq, delivered, accepted>> /\ Held' = Held
               /\ pc'["sender"] = "send" =>
                      pc["sender"] = "send" /\ b'["sender"] = b["sender"] /\ message' = message
    BY <1>4 DEF LoadCount
  <1>5. CASE Increment
    BY <1>5 DEF Increment, StoreCount
  <1>6. CASE Stage
    BY <1>6 DEF Stage
  <1>7. CASE SendTimeout
    BY <1>7 DEF SendTimeout
  <1>8. CASE Dequeue
    BY <1>8 DEF Dequeue
  <1>9. CASE Decrement
    BY <1>9 DEF Decrement, StoreCount
  <1>10. CASE ReceiveInterrupted
    BY <1>10 DEF ReceiveInterrupted
  <1>11. ASSUME NEW t \in Sides, Leave(t)
         PROVE  /\ UNCHANGED <<mq, delivered, accepted>> /\ Held' = Held
                /\ pc'["sender"] # "send" \/ pc["sender"] = "send"
                /\ b'["sender"] = b["sender"] /\ message' = message
    BY <1>11 DEF Leave
  <1>12. CASE UNCHANGED vars
    BY <1>12 DEF vars
  <1> QED BY <1>1, <1>2, <1>3, <1>4, <1>5, <1>6, <1>7, <1>8, <1>9, <1>10, <1>11, <1>12
          DEF Next, Sender, Receiver

LEMMA OrderStep ==
    ASSUME OrderInv, [Next]_vars
    PROVE  OrderInv'
  <1>1. TypeInv'
    BY TypeStep DEF OrderInv
  <1>2. CASE SendStaged
    <2>1. Staged'
      BY <1>2 DEF SendStaged, Goto, Staged, OrderInv, TypeInv, TypeOK, Sides
    <2> QED BY <1>1, <1>2, <2>1, SendOrder DEF OrderInv
  <1>3. CASE ReceiveStaged
    <2>1. Staged'
      BY <1>3 DEF ReceiveStaged, Goto, Staged, OrderInv, TypeInv, TypeOK, Sides
    <2> QED BY <1>1, <1>3, <2>1, ReceiveOrder DEF OrderInv
  <1>4. CASE Unstage
    <2>1. Staged'
      BY <1>4 DEF Unstage, Goto, Staged, OrderInv, TypeInv, TypeOK, Sides
    <2> QED BY <1>1, <1>4, <2>1, UnstageOrder DEF OrderInv
  <1>5. CASE ~SendStaged /\ ~ReceiveStaged /\ ~Unstage
    <2>1. /\ UNCHANGED <<mq, delivered, accepted>> /\ Held' = Held
          /\ pc'["sender"] = "send" =>
                 \/ b'["sender"] = message'
                 \/ pc["sender"] = "send" /\ b'["sender"] = b["sender"]
                    /\ message' = message
      BY <1>5, OtherOrder
    <2>2. Staged' /\ InOrder'
      BY <2>1 DEF OrderInv, Staged, InOrder
    <2> QED BY <1>1, <2>2 DEF OrderInv
  <1> QED BY <1>2, <1>3, <1>4, <1>5

\* Every accepted message is delivered, held or queued, once and in the order of
\* acceptance, for every capacity and any interleaving, time-outs and interrupted calls
\* included.
THEOREM QueueInOrder == Spec => []InOrder
  <1>1. OrderInv /\ [Next]_vars => OrderInv'
    BY OrderStep
  <1>2. OrderInv => InOrder
    BY DEF OrderInv
  <1> QED BY OrderInit, <1>1, <1>2, PTL DEF Spec

LEMMA FifoStep ==
    ASSUME OrderInv, [Next]_vars
    PROVE  [Fifo!Next]_(Fifo!fifoVars)
  <1> USE DEF OrderInv, TypeInv
  <1>1. CASE SendStaged
    <2>1. /\ mq' = Append(mq, message) /\ message \in 1 .. Sends
          /\ (delivered \o Held)' = delivered \o Held
      BY <1>1, SendOrder
    <2>2. Fifo!Send(message)
      BY <1>1, <2>1 DEF SendStaged, Fifo!Send
    <2> QED BY <2>1, <2>2 DEF Fifo!Next
  <1>2. CASE ReceiveStaged
    <2>1. /\ mq # <<>> /\ mq' = Tail(mq) /\ Held = <<>> /\ Held' = <<Head(mq)>>
          /\ delivered' = delivered
      BY <1>2, ReceiveOrder
    <2>2. Head(mq) \in 0 .. Sends /\ delivered \in Seq(0 .. Sends)
      BY <2>1, HeadTailProperties DEF TypeOK
    <2>3. delivered \o Held = delivered
      BY <2>1, <2>2, ConcatEmptySeq
    <2>4. (delivered \o Held)' = Append(delivered \o Held, Head(mq))
      BY <2>1, <2>2, <2>3, AppendIsConcat
    <2>5. Fifo!Receive
      BY <2>1, <2>4 DEF Fifo!Receive
    <2> QED BY <2>5 DEF Fifo!Next
  <1>3. CASE Unstage
    BY <1>3, UnstageOrder DEF Fifo!fifoVars
  <1>4. CASE ~SendStaged /\ ~ReceiveStaged /\ ~Unstage
    BY <1>4, OtherOrder DEF Fifo!fifoVars
  <1> QED BY <1>1, <1>2, <1>3, <1>4

\* enqueue_P and dequeue_P implement the bounded channel: each successful mq_timedsend is
\* its send, each successful mq_receive its receive, and no other statement of theirs
\* changes it.
THEOREM QueueIsFifo == Spec => ImplementsFifo
  <1>1. Init => Fifo!Init
    <2> SUFFICES ASSUME Init PROVE Fifo!Init
      OBVIOUS
    <2>1. Held = <<>> /\ delivered = <<>> /\ mq = <<>>
      BY DEF Held, Init, Sides
    <2> QED BY <2>1 DEF Fifo!Init
  <1>2. OrderInv /\ [Next]_vars => OrderInv' /\ [Fifo!Next]_(Fifo!fifoVars)
    BY OrderStep, FifoStep
  <1> QED BY OrderInit, <1>1, <1>2, PTL DEF Spec, ImplementsFifo, Fifo!Spec
=============================================================================
