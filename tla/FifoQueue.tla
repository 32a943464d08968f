------------------------------ MODULE FifoQueue ------------------------------
(***************************************************************************)
(* What the writing thread may rely on in m_RequestQueue: requests are     *)
(* taken in the order in which they were put, each once, and a request in  *)
(* the queue is taken sooner or later unless the queue is cleared.  The    *)
(* mutex and the condition variable are nowhere to be seen.                *)
(***************************************************************************)
EXTENDS Sequences, Naturals

CONSTANT Values

VARIABLES
  items,   \* the requests in the queue, oldest first
  taken    \* history: the requests taken, in order

Init == items = <<>> /\ taken = <<>>

Put(v) == items' = Append(items, v) /\ UNCHANGED taken

Take ==
  /\ items # <<>>
  /\ taken' = Append(taken, Head(items))
  /\ items' = Tail(items)

Empty == items' = <<>> /\ UNCHANGED taken

Next == (\E v \in Values : Put(v)) \/ Take \/ Empty

SafeSpec == Init /\ [][Next]_<<items, taken>>
Spec     == SafeSpec /\ WF_<<items, taken>>(Take)
=============================================================================
