---------------------------- MODULE BlockingQueue ----------------------------
(***************************************************************************)
(* BlockingQueue<Request>, step by step: a deque under a mutex and a       *)
(* condition variable.  Application threads call Enqueue and Clear, the    *)
(* writing thread calls Dequeue again and again.                           *)
(*                                                                         *)
(* What the calls do to the mutex and the condition variable is the        *)
(* contract of <mutex> and <condition_variable>: wait() gives the mutex up *)
(* and sleeps in one step, wakes on notify_one() or for no reason at all,  *)
(* takes the mutex again, and then evaluates the predicate again.          *)
(***************************************************************************)
EXTENDS SequencesExt, Naturals

CONSTANTS
  Producers,   \* threads that call Enqueue and Clear
  Consumer,    \* the thread that calls Dequeue
  NoThread,    \* the owner of a free mutex
  Values,      \* the requests
  MaxCalls     \* calls of Enqueue and Clear (bounds the model)

ASSUME QueueAssumption ==
  /\ Consumer \notin Producers
  /\ NoThread \notin Producers \cup {Consumer}
  /\ MaxCalls \in Nat

VARIABLES
  queue,    \* m_Queue, front first
  owner,    \* the thread that holds m_Mutex
  pc,       \* where each thread is
  arg,      \* i_Value of each Enqueue
  taken,    \* history: what Dequeue has returned, in order
  calls     \* calls of Enqueue and Clear so far

vars == <<queue, owner, pc, arg, taken, calls>>

Threads == Producers \cup {Consumer}

\* Labels at which a thread waits for the mutex, and at which it holds it.
Outside == {"enqueue", "clear", "dequeue", "woken"}
Inside  == {"push", "erase", "test", "pop"}

\* What a thread does once it has the mutex.  Mutant: after a sleep the
\* predicate is not evaluated again.
EnteredUntested(label) ==
  CASE label = "enqueue" -> "push"
    [] label = "clear"   -> "erase"
    [] label = "dequeue" -> "test"
    [] label = "woken"   -> "pop"
Entered(label) ==
  CASE label = "enqueue" -> "push"
    [] label = "clear"   -> "erase"
    [] label \in {"dequeue", "woken"} -> "test"

Init ==
  /\ queue = <<>>
  /\ owner = NoThread
  /\ pc = [t \in Threads |-> "idle"]
  /\ arg \in [Producers -> Values]
  /\ taken = <<>>
  /\ calls = 0

Goto(t, label) == pc' = [pc EXCEPT ![t] = label]

Acquire(t) ==
  /\ pc[t] \in Outside
  /\ owner = NoThread
  /\ owner' = t
  /\ Goto(t, Entered(pc[t]))
  /\ UNCHANGED <<queue, arg, taken, calls>>

Release(t, label) == owner' = NoThread /\ Goto(t, label)

-----------------------------------------------------------------------------
(* Enqueue: the lock_guard's scope ends before notify_one().               *)

Enqueue(t, v) ==
  /\ pc[t] = "idle" /\ calls < MaxCalls
  /\ arg' = [arg EXCEPT ![t] = v]
  /\ calls' = calls + 1
  /\ Goto(t, "enqueue")
  /\ UNCHANGED <<queue, owner, taken>>

\* Mutants: append at the end the consumer takes from; never notify.
PushBack(t) ==
  /\ pc[t] = "push"
  /\ queue' = Append(queue, arg[t])
  /\ Release(t, "notify")
  /\ UNCHANGED <<arg, taken, calls>>
PushUnnotified(t) ==
  /\ pc[t] = "push"
  /\ queue' = <<arg[t]>> \o queue
  /\ Release(t, "idle")
  /\ UNCHANGED <<arg, taken, calls>>
Push(t) ==
  /\ pc[t] = "push"
  /\ queue' = <<arg[t]>> \o queue
  /\ Release(t, "notify")
  /\ UNCHANGED <<arg, taken, calls>>

Notify(t) ==
  /\ pc[t] = "notify"
  /\ pc' = [pc EXCEPT ![t] = "idle",
                      ![Consumer] = IF @ = "asleep" THEN "woken" ELSE @]
  /\ UNCHANGED <<queue, owner, arg, taken, calls>>

-----------------------------------------------------------------------------
(* Clear.                                                                  *)

CallClear(t) ==
  /\ pc[t] = "idle" /\ calls < MaxCalls
  /\ calls' = calls + 1
  /\ Goto(t, "clear")
  /\ UNCHANGED <<queue, owner, arg, taken>>

Erase(t) ==
  /\ pc[t] = "erase"
  /\ queue' = <<>>
  /\ Release(t, "idle")
  /\ UNCHANGED <<arg, taken, calls>>

-----------------------------------------------------------------------------
(* Dequeue: wait(lock, predicate) is while (!predicate()) wait(lock).      *)

Dequeue ==
  /\ pc[Consumer] = "idle"
  /\ Goto(Consumer, "dequeue")
  /\ UNCHANGED <<queue, owner, arg, taken, calls>>

Wake ==
  /\ pc[Consumer] = "asleep"
  /\ Goto(Consumer, "woken")
  /\ UNCHANGED <<queue, owner, arg, taken, calls>>

Test ==
  /\ pc[Consumer] = "test"
  /\ IF queue = <<>>
       THEN Release(Consumer, "asleep")
       ELSE Goto(Consumer, "pop") /\ UNCHANGED owner
  /\ UNCHANGED <<queue, arg, taken, calls>>

\* back() of an empty deque is no request at all.
Oldest == IF queue = <<>> THEN NoThread ELSE Last(queue)

Pop ==
  /\ pc[Consumer] = "pop"
  /\ taken' = Append(taken, Oldest)
  /\ queue' = Front(queue)
  /\ Release(Consumer, "idle")
  /\ UNCHANGED <<arg, calls>>

-----------------------------------------------------------------------------
Produce(t) == Push(t) \/ Notify(t) \/ Erase(t) \/ Acquire(t)
Consume    == Dequeue \/ Test \/ Pop \/ Acquire(Consumer)

Next ==
  \/ \E t \in Producers, v \in Values : Enqueue(t, v)
  \/ \E t \in Producers : CallClear(t)
  \/ \E t \in Producers : Produce(t)
  \/ Consume
  \/ Wake

Spec == Init /\ [][Next]_vars

\* A thread in the middle of a call takes its next step, and the writing
\* thread comes back for the next request; nobody has to call Enqueue, and
\* no spurious wake-up is owed to anyone.
FairSpec ==
  Spec /\ WF_vars(Consume) /\ \A t \in Producers : WF_vars(Produce(t))

-----------------------------------------------------------------------------
(* Every variable has its type.                                            *)
TypeOK ==
  /\ queue \in Seq(Values) /\ taken \in Seq(Values)
  /\ owner \in Threads \cup {NoThread}
  /\ pc \in [Threads -> Outside \cup Inside \cup {"idle", "notify", "asleep"}]
  /\ \A t \in Producers :
       pc[t] \in {"idle", "enqueue", "push", "notify", "clear", "erase"}
  /\ pc[Consumer] \in {"idle", "dequeue", "test", "asleep", "woken", "pop"}
  /\ arg \in [Producers -> Values]
  /\ calls \in 0 .. MaxCalls

(* No wake-up is lost: the consumer sleeps beside a request only while the *)
(* thread that pushed it has yet to call notify_one().                     *)
NoLostWakeup ==
  (pc[Consumer] = "asleep" /\ queue # <<>>) =>
     \E t \in Producers : pc[t] = "notify"

(* The deque, the mutex and the condition variable are a first-in-first-   *)
(* out queue, and the requests in it reach the writing thread.             *)
Fifo == INSTANCE FifoQueue WITH items <- Reverse(queue)
IsFifo == Fifo!Spec
=============================================================================
