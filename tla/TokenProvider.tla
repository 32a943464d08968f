----------------------------- MODULE TokenProvider -----------------------------
(***************************************************************************)
(* What ReplyMessageParser may rely on in an ITokenProvider: a read        *)
(* returns the next bytes of the stream, exactly as many as were asked for *)
(* up to Max, or, when the peer has closed, what is left.  How the stream  *)
(* is cut into pieces on its way, and where the bytes are kept, is nowhere *)
(* to be seen.  The i-th byte of the stream is the number i.               *)
(***************************************************************************)
EXTENDS Integers

CONSTANTS
  Max,       \* the longest read that is answered in full
  Sizes      \* of the reads

VARIABLES
  state,     \* "idle", "recv" while a read is under way, "thrown"
  asked,     \* the argument of the last read
  closed,    \* has the peer's close been seen?
  arrived,   \* bytes of the stream that have come in
  read,      \* bytes of the stream that have been handed over
  bytes      \* what the last read returned; no longer there in the next one

vars == <<state, asked, closed, arrived, read, bytes>>

Nothing == [i \in {} |-> 0]

Init ==
  /\ state = "idle" /\ asked = 0 /\ closed = FALSE
  /\ arrived = 0 /\ read = 0 /\ bytes = Nothing

Read(n) ==
  /\ state = "idle" /\ state' = "recv"
  /\ asked' = n /\ bytes' = Nothing
  /\ UNCHANGED <<closed, arrived, read>>

Arrive ==
  /\ state = "recv" /\ ~closed
  /\ arrived' > arrived
  /\ UNCHANGED <<state, asked, closed, read, bytes>>

Close ==
  /\ state = "recv" /\ ~closed /\ closed' = TRUE
  /\ UNCHANGED <<state, asked, arrived, read, bytes>>

\* The next n bytes, all of which have arrived.
HandOver(n) ==
  /\ state = "recv" /\ state' = "idle"
  /\ read + n <= arrived
  /\ bytes' = [i \in 0 .. n - 1 |-> read + i + 1]
  /\ read' = read + n
  /\ UNCHANGED <<asked, closed, arrived>>

ReturnAll == ~closed /\ HandOver(IF asked > Max THEN Max ELSE asked)

\* Never more than was asked for, and nothing is kept back.
ReturnRest == closed /\ arrived - read <= asked /\ HandOver(arrived - read)

Throw ==
  /\ state = "recv" /\ state' = "thrown"
  /\ UNCHANGED <<asked, closed, arrived, read, bytes>>

Next ==
  \/ \E n \in Sizes : Read(n)
  \/ Arrive \/ Close \/ ReturnAll \/ ReturnRest \/ Throw

Spec == Init /\ [][Next]_vars
================================================================================
