---------------------------- MODULE SocketReader ----------------------------
(***************************************************************************)
(* SocketReader::ReadBytes: a window of k_ReceiveBufferLength bytes over   *)
(* the stream a TCP socket delivers, refilled by recv() calls that return  *)
(* any positive number of bytes, zero when the peer has closed, or an      *)
(* error.  The i-th byte of the stream is the number i, so the buffer's    *)
(* contents say which bytes memmove and recv have put where.               *)
(***************************************************************************)
EXTENDS Integers

CONSTANTS
  K,             \* k_ReceiveBufferLength
  ReadSizes,     \* values of i_NumberOfBytesToRead
  StreamLength   \* bytes the peer sends before it closes (bounds the model)

ASSUME ReaderAssumption ==
  /\ K \in Nat \ {0}
  /\ ReadSizes \subseteq Nat
  /\ StreamLength \in Nat

VARIABLES
  start,      \* m_DataStartIndex
  size,       \* m_DataSize
  open,       \* m_IsConnectionOpen
  buffer,     \* m_ReceiveBuffer: which byte each cell holds, 0 for none
  pc,         \* "idle": no call is running; "recv": in the while loop;
              \* "thrown": SocketReadException has left the call
  need,       \* i_NumberOfBytesToRead, once clamped
  missing,    \* minNumberOfBytesToBeReadByRecv
  result,     \* offset of the returned pointer in the buffer, and the
              \* o_NumberOfBytesRead of the last call that returned
  asked,      \* history: the argument of the last call
  received,   \* history: bytes taken from the socket
  delivered   \* history: bytes handed to callers

fields == <<start, size, open, buffer>>
locals == <<pc, need, missing, asked>>
vars   == <<fields, locals, result, received, delivered>>

Cells == 0 .. K - 1
Space == K - (start + size)          \* the length argument of recv()

Init ==
  /\ start = 0 /\ size = 0 /\ open = TRUE
  /\ buffer = [c \in Cells |-> 0]
  /\ pc = "idle" /\ need = 0 /\ missing = 0 /\ asked = 0
  /\ result = [at |-> 0, n |-> 0]
  /\ received = 0 /\ delivered = 0

-----------------------------------------------------------------------------
(* The prologue of a call: clamp, and make room when the bytes asked for   *)
(* would run past the end of the buffer.                                   *)

Clamp(n) == IF n > K THEN K ELSE n

\* Mutant: compact only when no free cell is left.
MustCompactLate(n) == size < n /\ open /\ start + size >= K
MustCompact(n) == size < n /\ open /\ n + start > K

\* Mutant: memmove from one byte further.
CompactedOff == [c \in Cells |-> IF c < size /\ start + c + 1 < K
                                 THEN buffer[start + c + 1] ELSE buffer[c]]
Compacted == [c \in Cells |-> IF c < size THEN buffer[start + c] ELSE buffer[c]]

Call(n) ==
  /\ pc = "idle"
  /\ asked' = n
  /\ need' = Clamp(n)
  /\ missing' = IF size < need' THEN need' - size ELSE 0
  /\ IF MustCompact(need')
       THEN buffer' = Compacted /\ start' = 0
       ELSE UNCHANGED <<buffer, start>>
  /\ pc' = "recv"
  /\ UNCHANGED <<size, open, result, received, delivered>>

(* One turn of the while loop: recv() blocks until one of these happens.   *)

Looping == pc = "recv" /\ open /\ missing > 0

RecvData(n) ==
  /\ Looping
  /\ n <= Space /\ received + n <= StreamLength
  /\ buffer' = [c \in Cells |-> IF c \in start + size .. start + size + n - 1
                                THEN received + 1 + (c - (start + size))
                                ELSE buffer[c]]
  /\ size' = size + n
  /\ missing' = missing - n
  /\ received' = received + n
  /\ UNCHANGED <<start, open, pc, need, asked, result, delivered>>

RecvClosed ==
  /\ Looping
  /\ open' = FALSE
  /\ UNCHANGED <<start, size, buffer, locals, result, received, delivered>>

RecvError ==
  /\ Looping
  /\ pc' = "thrown"
  /\ UNCHANGED <<fields, need, missing, asked, result, received, delivered>>

(* After the loop: the caller gets a pointer into the buffer, valid until  *)
(* the next call.                                                          *)

\* Mutant: the closed case leaves m_DataSize alone.
ReturnKeepingSize ==
  /\ pc = "recv" /\ ~Looping
  /\ LET n == IF open THEN need ELSE size
     IN  /\ result' = [at |-> start, n |-> n]
         /\ size' = IF open THEN size - n ELSE size
         /\ start' = start + n
         /\ delivered' = delivered + n
  /\ pc' = "idle"
  /\ UNCHANGED <<open, buffer, need, missing, asked, received>>

Return ==
  /\ pc = "recv" /\ ~Looping
  /\ LET n == IF open THEN need ELSE size
     IN  /\ result' = [at |-> start, n |-> n]
         /\ size' = size - n
         /\ start' = start + n
         /\ delivered' = delivered + n
  /\ pc' = "idle"
  /\ UNCHANGED <<open, buffer, need, missing, asked, received>>

Next ==
  \/ \E n \in ReadSizes : Call(n)
  \/ \E n \in 1 .. K : RecvData(n)
  \/ RecvClosed
  \/ RecvError
  \/ Return

Spec == Init /\ [][Next]_vars

-----------------------------------------------------------------------------
(* Every variable has its type, and the window stays inside the buffer.    *)
TypeOK ==
  /\ start \in 0 .. K /\ size \in 0 .. K /\ start + size <= K
  /\ open \in BOOLEAN
  /\ buffer \in [Cells -> Nat]
  /\ pc \in {"idle", "recv", "thrown"}
  /\ need \in 0 .. K
  /\ missing \in Int
  /\ result \in [at : 0 .. K, n : 0 .. K]
  /\ asked \in Nat /\ received \in Nat /\ delivered \in Nat

(* recv() is never handed a zero length: it would answer 0, and ReadBytes  *)
(* takes 0 for the peer's close.  This is what the memmove is for.         *)
NoZeroLengthRecv == Looping => Space > 0

(* The bytes that the returned pointer shows, until the next call begins.  *)
Shown == IF pc = "idle" THEN [i \in 0 .. result.n - 1 |-> buffer[result.at + i]]
                        ELSE [i \in {} |-> 0]

Provider == INSTANCE TokenProvider WITH
  Max <- K, Sizes <- ReadSizes, state <- pc, closed <- ~open,
  arrived <- received, read <- delivered, bytes <- Shown

(* ReadBytes is what an ITokenProvider promises: each call shows the next  *)
(* bytes of the stream, in order, none lost, repeated or overwritten by a  *)
(* move or by recv(), exactly as many as were asked for; after the peer's  *)
(* close all that did arrive, which is never more than was asked for.      *)
IsTokenProvider == Provider!Spec
=============================================================================
