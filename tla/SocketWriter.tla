---------------------------- MODULE SocketWriter ----------------------------
(***************************************************************************)
(* SocketWriter::WriteBytes and Flush: a buffer of k_SendBufferLength      *)
(* bytes in front of send(), which takes any positive number of the bytes  *)
(* it is offered, returns zero, or fails.  The i-th byte that the callers  *)
(* ask to have written is the number i, so the buffer and the wire say     *)
(* which bytes memcpy and send() have put where.                           *)
(*                                                                         *)
(* The caller is RequestSerializer::WriteRequest: writes of a few sizes,   *)
(* then one Flush at the end of each request.                              *)
(***************************************************************************)
EXTENDS SequencesExt, Integers

CONSTANTS
  K,             \* k_SendBufferLength
  WriteSizes,    \* values of i_NumberOfBytesToWrite
  RequestLength, \* the most bytes between two calls of Flush
  PartialSends,  \* may send() take fewer bytes than it is offered
  StreamLength   \* bytes written in all (bounds the model)

ASSUME WriterAssumption ==
  /\ K \in Nat \ {0}
  /\ WriteSizes \subseteq Nat
  /\ RequestLength \in Nat
  /\ PartialSends \in BOOLEAN
  /\ StreamLength \in Nat

VARIABLES
  size,       \* m_DataSize
  buffer,     \* m_SendBuffer: which byte each cell holds, 0 for none
  open,       \* m_IsConnectionOpen
  immediate,  \* k_SendImmediately
  pc,         \* "idle"; "write": in WriteBytes' loop; "flush": in Flush's;
              \* "thrown": SocketWriteException has left the call
  back,       \* where Flush returns to: "write", or "idle" for the caller
  remaining,  \* numberOfBytesRemainingToCommit
  first,      \* the byte i_BytesToWrite points at
  written,    \* history: bytes the callers have asked to have written
  request,    \* history: bytes written since the last call of Flush
  sent,       \* history: what send() has put on the wire
  whole       \* history: no write has taken a second turn of WriteBytes' loop,
              \* and no send() has taken less than it was offered

fields == <<size, buffer, open, immediate>>
args   == <<first, written, request>>
vars   == <<fields, args, pc, back, remaining, sent, whole>>

Cells == 0 .. K - 1

Init ==
  /\ size = 0 /\ open = TRUE /\ immediate \in BOOLEAN
  /\ buffer = [c \in Cells |-> 0]
  /\ pc = "idle" /\ back = "idle" /\ remaining = 0 /\ first = 0
  /\ written = 0 /\ request = 0 /\ sent = <<>> /\ whole = TRUE

-----------------------------------------------------------------------------
(* WriteBytes.                                                             *)

Write(n) ==
  /\ pc = "idle"
  /\ request + n <= RequestLength /\ written + n <= StreamLength
  /\ pc' = "write"
  /\ remaining' = n
  /\ first' = written + 1
  /\ written' = written + n
  /\ request' = request + n
  /\ UNCHANGED <<fields, back, sent, whole>>

Committing == pc = "write" /\ open /\ remaining > 0

\* numberOfBytesCommitedToBufferDuringThisIteration.  Mutant: no minimum.
ChunkUnbounded == remaining
Chunk == IF remaining < K - size THEN remaining ELSE K - size

\* The buffer after memcpy, whose source is i_BytesToWrite itself in every
\* turn of the loop.  Mutant: the destination is the start of the buffer.
FilledFromStart(n) ==
  [c \in Cells |-> IF c < n THEN first + c ELSE buffer[c]]
Filled(n) ==
  [c \in Cells |-> IF c \in size .. size + n - 1 THEN first + (c - size)
                   ELSE buffer[c]]

\* What the turn leaves to commit.  Mutant: the loop as a single turn.
LeftNothing(n) == 0
Left(n) == remaining - n

MustFlush(n) == n = K

Commit ==
  /\ Committing
  /\ buffer' = Filled(Chunk)
  /\ size' = size + Chunk
  /\ remaining' = Left(Chunk)
  /\ whole' = (whole /\ remaining = written - first + 1)
  /\ IF MustFlush(size + Chunk)
       THEN pc' = "flush" /\ back' = "write"
       ELSE UNCHANGED <<pc, back>>
  /\ UNCHANGED <<open, immediate, args, sent>>

WriteReturns ==
  /\ pc = "write" /\ ~Committing
  /\ pc' = IF immediate THEN "flush" ELSE "idle"
  /\ back' = "idle"
  /\ UNCHANGED <<fields, args, remaining, sent, whole>>

-----------------------------------------------------------------------------
(* Flush.                                                                  *)

Flush ==
  /\ pc = "idle"
  /\ pc' = "flush" /\ back' = "idle"
  /\ request' = 0
  /\ UNCHANGED <<fields, first, written, remaining, sent, whole>>

Sending == pc = "flush" /\ open /\ size > 0

\* The bytes of the buffer from its first cell on: what is left of it after
\* a partial send is not moved to the front.
Send(n) ==
  /\ Sending
  /\ n <= size /\ (n = size \/ PartialSends)
  /\ sent' = sent \o [i \in 1 .. n |-> buffer[i - 1]]
  /\ size' = size - n
  /\ whole' = (whole /\ n = size)
  /\ UNCHANGED <<buffer, open, immediate, args, pc, back, remaining>>

SendClosed ==
  /\ Sending
  /\ open' = FALSE
  /\ UNCHANGED <<size, buffer, immediate, args, pc, back, remaining, sent, whole>>

SendError ==
  /\ Sending
  /\ pc' = "thrown"
  /\ UNCHANGED <<fields, args, back, remaining, sent, whole>>

\* Mutant: an if in the place of the while.
FlushReturnsEarly ==
  /\ pc = "flush"
  /\ pc' = back
  /\ UNCHANGED <<fields, args, back, remaining, sent, whole>>
FlushReturns ==
  /\ pc = "flush" /\ ~Sending
  /\ pc' = back
  /\ UNCHANGED <<fields, args, back, remaining, sent, whole>>

Next ==
  \/ \E n \in WriteSizes : Write(n)
  \/ Commit
  \/ WriteReturns
  \/ Flush
  \/ \E n \in 1 .. K : Send(n)
  \/ SendClosed
  \/ SendError
  \/ FlushReturns

Spec == Init /\ [][Next]_vars

-----------------------------------------------------------------------------
(* Every variable has its type, and the data never exceed the buffer.      *)
TypeOK ==
  /\ size \in 0 .. K
  /\ buffer \in [Cells -> Nat]
  /\ open \in BOOLEAN /\ immediate \in BOOLEAN
  /\ pc \in {"idle", "write", "flush", "thrown"}
  /\ back \in {"idle", "write"}
  /\ remaining \in Nat /\ first \in Nat
  /\ written \in Nat /\ request \in Nat
  /\ sent \in Seq(Nat) /\ whole \in BOOLEAN

(* As long as the connection is open, the number of bytes is right: every  *)
(* byte asked for is on the wire, in the buffer, or still to be committed. *)
CountKept ==
  (open /\ pc # "thrown") => Len(sent) + size + remaining = written

(* Flush keeps nothing back, so a request that has been serialised is      *)
(* wholly on its way before the writing thread sleeps on the queue again.  *)
FlushedRequests ==
  (pc = "idle" /\ open /\ request = 0) => Len(sent) = written

(* The bytes on the wire are the bytes written, in the order in which they *)
(* were written: ITokenConsumer.h's contract of WriteBytes and Flush.      *)
WireInOrder == \A i \in 1 .. Len(sent) : sent[i] = i

(* They are so at least as long as every write has been committed in one   *)
(* turn of the loop and every send() has taken all it was offered, however *)
(* many writes share a buffer and wherever in it they end.                 *)
WholeWritesInOrder == whole => WireInOrder
=============================================================================
