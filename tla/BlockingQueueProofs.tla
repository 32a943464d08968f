------------------------- MODULE BlockingQueueProofs -------------------------
(***************************************************************************)
(* For any number of producers and calls: the queue's invariants, and that *)
(* every step of BlockingQueue is a step of FifoQueue or leaves it as it   *)
(* is.                                                                     *)
(***************************************************************************)
EXTENDS BlockingQueue, SequenceTheorems, TLAPS

-----------------------------------------------------------------------------
(* Reverse, which reads the deque oldest first.                            *)

(* A request pushed at the front comes last in the order of age.           *)
LEMMA ReversePush ==
  ASSUME NEW S, NEW s \in Seq(S), NEW v \in S
  PROVE  Reverse(<<v>> \o s) = Append(Reverse(s), v)
<1> DEFINE l == Reverse(<<v>> \o s)
           r == Append(Reverse(s), v)
<1>1. <<v>> \o s \in Seq(S) /\ Len(<<v>> \o s) = Len(s) + 1
  BY SMT
<1>2. Reverse(s) \in Seq(S) /\ Len(Reverse(s)) = Len(s)
  BY SMT DEF Reverse
<1>3. l \in Seq(S) /\ Len(l) = Len(s) + 1
  BY <1>1, SMT DEF Reverse
<1>4. r \in Seq(S) /\ Len(r) = Len(s) + 1
  BY <1>2, SMT
<1>5. ASSUME NEW i \in 1 .. Len(s) + 1 PROVE l[i] = r[i]
  <2>1. CASE i = Len(s) + 1
    BY <2>1, <1>1, <1>2, SMT DEF Reverse
  <2>2. CASE i \in 1 .. Len(s)
    BY <2>2, <1>1, <1>2, SMT DEF Reverse
  <2>3. Len(s) \in Nat
    BY SMT
  <2>4. i = Len(s) + 1 \/ i \in 1 .. Len(s)
    BY <2>3, SMT
  <2> QED BY <2>1, <2>2, <2>4
<1> HIDE DEF l, r
<1>6. l = r
  BY <1>3, <1>4, <1>5, SeqEqual, SMT
<1> QED BY <1>6 DEF l, r

(* What is left of a sequence without its last element.                    *)
LEMMA FrontProperties ==
  ASSUME NEW S, NEW s \in Seq(S), s # <<>>
  PROVE  Front(s) \in Seq(S) /\ Len(Front(s)) = Len(s) - 1
<1>1. Len(s) \in Nat \ {0}
  BY EmptySeq, SMT
<1>2. ASSUME NEW n \in Nat, n = Len(s) - 1
      PROVE  SubSeq(s, 1, n) \in Seq(S) /\ Len(SubSeq(s, 1, n)) = n
  <2>1. 1 \in Int /\ n \in Int /\ \A i \in 1 .. n : s[i] \in S
    BY <1>1, <1>2, SMT
  <2>2. /\ SubSeq(s, 1, n) \in Seq(S)
        /\ Len(SubSeq(s, 1, n)) = IF 1 <= n THEN n - 1 + 1 ELSE 0
    BY <2>1, SubSeqProperties
  <2> QED BY <2>2, SMT
<1>3. Len(s) - 1 \in Nat
  BY <1>1, SMT
<1>4. \A n \in Nat : n = Len(s) - 1 =>
        SubSeq(s, 1, n) \in Seq(S) /\ Len(SubSeq(s, 1, n)) = n
  BY <1>2
<1> QED BY <1>3, <1>4, Zenon DEF Front

(* The request at the back is the oldest, and popping it leaves the rest.  *)
LEMMA ReversePop ==
  ASSUME NEW S, NEW s \in Seq(S), s # <<>>
  PROVE  /\ Reverse(s) # <<>>
         /\ Head(Reverse(s)) = Last(s)
         /\ Reverse(Front(s)) = Tail(Reverse(s))
<1>1. Len(s) \in Nat \ {0}
  BY EmptySeq, SMT
<1>2. Reverse(s) \in Seq(S) /\ Len(Reverse(s)) = Len(s)
  BY SMT DEF Reverse
<1>3. Front(s) \in Seq(S) /\ Len(Front(s)) = Len(s) - 1
  BY FrontProperties
<1>4. Reverse(s) # <<>> /\ Head(Reverse(s)) = Last(s)
  BY <1>1, <1>2, SMT DEF Reverse, Last
<1> DEFINE l == Reverse(Front(s))
           r == Tail(Reverse(s))
<1>5. l \in Seq(S) /\ Len(l) = Len(s) - 1
  BY <1>3, SMT DEF Reverse
<1>6. r \in Seq(S) /\ Len(r) = Len(s) - 1
  BY <1>1, <1>2, <1>4, SMT
<1>7. ASSUME NEW i \in 1 .. Len(s) - 1 PROVE l[i] = r[i]
  <2>1. l[i] = s[Len(s) - i]
    BY <1>1, <1>3, SMT DEF Reverse, Front
  <2>2. r[i] = s[Len(s) - i]
    BY <1>1, <1>2, <1>4, SMT DEF Reverse
  <2> QED BY <2>1, <2>2
<1> HIDE DEF l, r
<1>8. l = r
  BY <1>1, <1>5, <1>6, <1>7, SeqEqual, SMT
<1> QED BY <1>4, <1>8 DEF l, r

-----------------------------------------------------------------------------
(* Only the owner of m_Mutex is in a critical section of the queue.        *)
MutexHeld == \A t \in Threads : pc[t] \in Inside <=> owner = t

(* back() and pop_back() never meet an empty deque, although Clear may run *)
(* between the notification and the moment the consumer has the mutex.     *)
PopFindsItem == pc[Consumer] = "pop" => queue # <<>>

(* The invariant.  PopFindsItem needs MutexHeld, which keeps Clear out     *)
(* between the predicate and pop_back(); the type of what has been taken   *)
(* needs PopFindsItem.                                                     *)
IInv == TypeOK /\ MutexHeld /\ PopFindsItem /\ NoLostWakeup

LEMMA InitIInv == Init => IInv
BY QueueAssumption, SMT
DEF Init, IInv, TypeOK, MutexHeld, PopFindsItem, NoLostWakeup, Threads, Inside

(* A thread enters a critical section only when no other is inside.        *)
LEMMA AcquireIInv ==
  ASSUME IInv, NEW t \in Threads, Acquire(t) PROVE IInv'
<1>1. TypeOK'
  BY QueueAssumption, SMT
  DEF IInv, TypeOK, Acquire, Goto, Entered, Threads, Outside, Inside
<1>2. MutexHeld'
  BY QueueAssumption, SMT
  DEF IInv, TypeOK, MutexHeld, Acquire, Goto, Entered, Threads, Outside, Inside
<1>3. PopFindsItem' /\ NoLostWakeup'
  BY QueueAssumption, SMT
  DEF IInv, TypeOK, PopFindsItem, NoLostWakeup, Acquire, Goto, Entered, Threads,
      Outside, Inside
<1> QED BY <1>1, <1>2, <1>3 DEF IInv

(* The steps of the calls that hold no lock.                               *)
LEMMA OutsideIInv ==
  ASSUME IInv,
         \/ \E t \in Producers, v \in Values : Enqueue(t, v)
         \/ \E t \in Producers : CallClear(t) \/ Notify(t)
         \/ Dequeue \/ Wake
  PROVE  IInv'
<1>1. ASSUME NEW t \in Producers, NEW v \in Values, Enqueue(t, v) PROVE IInv'
  BY <1>1, QueueAssumption, SMT
  DEF IInv, TypeOK, MutexHeld, PopFindsItem, NoLostWakeup, Enqueue, Goto,
      Threads, Outside, Inside
<1>2. ASSUME NEW t \in Producers, CallClear(t) PROVE IInv'
  BY <1>2, QueueAssumption, SMT
  DEF IInv, TypeOK, MutexHeld, PopFindsItem, NoLostWakeup, CallClear, Goto,
      Threads, Outside, Inside
<1>3. ASSUME NEW t \in Producers, Notify(t) PROVE IInv'
  BY <1>3, QueueAssumption, SMTT(30)
  DEF IInv, TypeOK, MutexHeld, PopFindsItem, NoLostWakeup, Notify,
      Threads, Outside, Inside
<1>4. CASE Dequeue
  BY <1>4, QueueAssumption, SMT
  DEF IInv, TypeOK, MutexHeld, PopFindsItem, NoLostWakeup, Dequeue, Goto,
      Threads, Outside, Inside
<1>5. CASE Wake
  BY <1>5, QueueAssumption, SMT
  DEF IInv, TypeOK, MutexHeld, PopFindsItem, NoLostWakeup, Wake, Goto,
      Threads, Outside, Inside
<1> QED BY <1>1, <1>2, <1>3, <1>4, <1>5

(* The steps inside a critical section.                                    *)
LEMMA PushIInv ==
  ASSUME IInv, NEW t \in Producers, Push(t) PROVE IInv'
<1>1. queue' \in Seq(Values)
  BY SMT DEF IInv, TypeOK, Push
<1>2. TypeOK'
  BY <1>1, QueueAssumption, SMT
  DEF IInv, TypeOK, Push, Release, Goto, Threads, Outside, Inside
<1>3. MutexHeld'
  BY QueueAssumption, SMT
  DEF IInv, TypeOK, MutexHeld, Push, Release, Goto, Threads, Inside
<1>4. PopFindsItem'
  BY QueueAssumption, SMT
  DEF IInv, TypeOK, MutexHeld, PopFindsItem, Push, Release, Goto, Threads, Inside
<1>5. NoLostWakeup'
  BY QueueAssumption, SMT
  DEF IInv, TypeOK, NoLostWakeup, Push, Release, Goto, Threads, Inside
<1> QED BY <1>2, <1>3, <1>4, <1>5 DEF IInv

LEMMA EraseIInv ==
  ASSUME IInv, NEW t \in Producers, Erase(t) PROVE IInv'
BY QueueAssumption, SMT
DEF IInv, TypeOK, MutexHeld, PopFindsItem, NoLostWakeup, Erase, Release, Goto,
    Threads, Outside, Inside

LEMMA TestIInv ==
  ASSUME IInv, Test PROVE IInv'
BY QueueAssumption, SMT
DEF IInv, TypeOK, MutexHeld, PopFindsItem, NoLostWakeup, Test, Release, Goto,
    Threads, Outside, Inside

LEMMA PopIInv ==
  ASSUME IInv, Pop PROVE IInv'
<1>1. queue # <<>> /\ queue \in Seq(Values)
  BY DEF IInv, TypeOK, PopFindsItem, Pop
<1>2. Last(queue) \in Values /\ Front(queue) \in Seq(Values)
  BY <1>1, EmptySeq, SMT DEF Last, Front
<1>3. queue' \in Seq(Values) /\ taken' \in Seq(Values)
  BY <1>1, <1>2, SMT DEF IInv, TypeOK, Pop, Oldest
<1>4. TypeOK'
  BY <1>3, QueueAssumption, SMT
  DEF IInv, TypeOK, Pop, Release, Goto, Threads, Outside, Inside
<1>5. MutexHeld' /\ PopFindsItem' /\ NoLostWakeup'
  BY QueueAssumption, SMT
  DEF IInv, TypeOK, MutexHeld, PopFindsItem, NoLostWakeup, Pop, Release, Goto,
      Threads, Inside
<1> QED BY <1>4, <1>5 DEF IInv

(* The four invariants hold of any number of threads and calls.            *)
THEOREM Inductive == Spec => []IInv
<1>1. Init => IInv
  BY InitIInv
<1>2. IInv /\ [Next]_vars => IInv'
  <2> SUFFICES ASSUME IInv, [Next]_vars PROVE IInv'
    OBVIOUS
  <2>1. CASE \E t \in Producers, v \in Values : Enqueue(t, v)
    BY <2>1, OutsideIInv
  <2>2. CASE \E t \in Producers : CallClear(t)
    BY <2>2, OutsideIInv
  <2>3. CASE \E t \in Producers : Produce(t)
    BY <2>3, PushIInv, OutsideIInv, EraseIInv, AcquireIInv DEF Produce, Threads
  <2>4. CASE Consume
    BY <2>4, OutsideIInv, TestIInv, PopIInv, AcquireIInv DEF Consume, Threads
  <2>5. CASE Wake
    BY <2>5, OutsideIInv
  <2>6. CASE UNCHANGED vars
    BY <2>6, SMT
    DEF vars, IInv, TypeOK, MutexHeld, PopFindsItem, NoLostWakeup
  <2> QED BY <2>1, <2>2, <2>3, <2>4, <2>5, <2>6 DEF Next
<1> QED BY <1>1, <1>2, PTL DEF Spec

(* Every variable has its type, for any number of producers and calls: the *)
(* application's threads are only ever in Enqueue and Clear, the writing   *)
(* thread only in Dequeue, and all that is queued or taken is requests.    *)
THEOREM Typed == Spec => []TypeOK
<1>1. IInv => TypeOK
  BY DEF IInv
<1> QED BY <1>1, Inductive, PTL

(* The mutex, the wait loop and notify_one() are used correctly: nobody    *)
(* touches the deque without the mutex, pop_back() always finds a request, *)
(* and no request is slept through.                                        *)
THEOREM Synchronised == Spec => [](MutexHeld /\ PopFindsItem /\ NoLostWakeup)
<1>1. IInv => MutexHeld /\ PopFindsItem /\ NoLostWakeup
  BY DEF IInv
<1> QED BY <1>1, Inductive, PTL

-----------------------------------------------------------------------------
(* Requests leave the queue in the order in which they entered it, each    *)
(* once: BlockingQueue implements FifoQueue (its safety; that requests are *)
(* taken in the end is IsFifo's fairness, checked by TLC).                 *)
THEOREM ImplementsFifo == Spec => Fifo!SafeSpec
<1>1. Init => Fifo!Init
  BY SMT DEF Init, Fifo!Init, Reverse
<1>2. IInv /\ [Next]_vars => [Fifo!Next]_<<Reverse(queue), taken>>
  <2> SUFFICES ASSUME IInv, [Next]_vars
               PROVE  Fifo!Next \/ UNCHANGED <<Reverse(queue), taken>>
    OBVIOUS
  <2>1. ASSUME NEW t \in Producers, Push(t) PROVE Fifo!Next
    <3>1. arg[t] \in Values /\ queue \in Seq(Values)
      BY SMT DEF IInv, TypeOK
    <3>2. Reverse(queue') = Append(Reverse(queue), arg[t]) /\ UNCHANGED taken
      BY <2>1, <3>1, ReversePush DEF Push
    <3> QED BY <3>1, <3>2 DEF Fifo!Next, Fifo!Put
  <2>2. ASSUME NEW t \in Producers, Erase(t) PROVE Fifo!Next
    BY <2>2, SMT DEF Erase, Fifo!Next, Fifo!Empty, Reverse
  <2>3. CASE Pop
    <3>1. queue # <<>> /\ queue \in Seq(Values)
      BY <2>3 DEF IInv, TypeOK, PopFindsItem, Pop
    <3>2. taken' = Append(taken, Last(queue)) /\ queue' = Front(queue)
      BY <2>3, <3>1 DEF Pop, Oldest
    <3>3. /\ Reverse(queue) # <<>>
          /\ Head(Reverse(queue)) = Last(queue)
          /\ Reverse(Front(queue)) = Tail(Reverse(queue))
      BY <3>1, ReversePop
    <3> QED BY <3>2, <3>3 DEF Fifo!Next, Fifo!Take
  <2>4. CASE UNCHANGED <<queue, taken>>
    BY <2>4
  <2>5. \/ \E t \in Producers : Push(t) \/ Erase(t)
        \/ Pop
        \/ UNCHANGED <<queue, taken>>
    BY DEF Next, vars, Produce, Consume, Enqueue, CallClear, Notify, Acquire,
           Dequeue, Test, Wake
  <2> QED BY <2>1, <2>2, <2>3, <2>4, <2>5
<1> QED BY <1>1, <1>2, Inductive, PTL DEF Spec, Fifo!SafeSpec
=============================================================================
