-------------------------- MODULE SocketWriterProofs --------------------------
(***************************************************************************)
(* For any buffer, any writes and any send(): SocketWriter loses no byte   *)
(* by count, never loops on a full buffer, and Flush empties it.  The      *)
(* order of the bytes is right until a write takes a second turn or send() *)
(* takes a part of the buffer, which cannot be when requests fit the       *)
(* buffer and send() takes all it is offered.                              *)
(***************************************************************************)
EXTENDS SocketWriter, SequenceTheorems, TLAPS

-----------------------------------------------------------------------------
(* The number of bytes.                                                    *)

\* Before the next turn of a loop, and between calls, there is room.
Roomy == open /\ pc \in {"idle", "write"} => size < K

\* Only a write that is under way has bytes left to commit.
NothingLeft ==
  open /\ (pc = "idle" \/ (pc = "flush" /\ back = "idle")) => remaining = 0

\* A request of which nothing has been written occupies nothing.
EmptyRequest ==
  open /\ request = 0 =>
    /\ pc \in {"idle", "write"} => size = 0 /\ remaining = 0
    /\ pc = "flush" => back = "idle"

IInv == TypeOK /\ CountKept /\ Roomy /\ NothingLeft /\ EmptyRequest

LEMMA InitIInv == Init => IInv
BY WriterAssumption, SMT
DEF Init, IInv, TypeOK, CountKept, Roomy, NothingLeft, EmptyRequest, Cells

LEMMA WriteIInv ==
  ASSUME IInv, NEW n \in WriteSizes, Write(n) PROVE IInv'
BY WriterAssumption, SMT
DEF IInv, TypeOK, CountKept, Roomy, NothingLeft, EmptyRequest, Write, fields

(* A chunk is what still fits, and never empty.                            *)
LEMMA ChunkFits ==
  ASSUME IInv, Committing
  PROVE  /\ Chunk \in Nat \ {0} /\ Chunk <= remaining /\ size + Chunk <= K
         /\ size + remaining <= K => Chunk = remaining
BY WriterAssumption, SMT DEF IInv, TypeOK, Roomy, Committing, Chunk

LEMMA CommitIInv ==
  ASSUME IInv, Commit PROVE IInv'
<1>1. /\ Chunk \in Nat \ {0} /\ Chunk <= remaining /\ size + Chunk <= K
      /\ pc = "write" /\ open
  BY ChunkFits DEF Commit, Committing
<1> DEFINE n == Chunk
<1>2. /\ n \in Nat \ {0} /\ n <= remaining /\ size + n <= K
      /\ size' = size + n /\ remaining' = remaining - n
      /\ buffer' = Filled(n)
      /\ IF size + n = K
           THEN pc' = "flush" /\ back' = "write"
           ELSE UNCHANGED <<pc, back>>
      /\ UNCHANGED <<open, immediate, args, sent>>
      /\ whole' = (whole /\ remaining = written - first + 1)
  BY <1>1 DEF Commit, Left, MustFlush
<1> HIDE DEF n
<1>3. buffer' \in [Cells -> Nat]
  BY <1>2, SMT DEF IInv, TypeOK, Filled, Cells
<1>4. TypeOK'
  BY <1>2, <1>3, WriterAssumption, SMT DEF IInv, TypeOK, args
<1>5. CountKept' /\ Roomy' /\ NothingLeft'
  BY <1>1, <1>2, WriterAssumption, SMT
  DEF IInv, TypeOK, CountKept, Roomy, NothingLeft, args
<1>6. EmptyRequest'
  BY <1>1, <1>2, SMT DEF IInv, TypeOK, EmptyRequest, args
<1> QED BY <1>4, <1>5, <1>6 DEF IInv

(* What send() takes: bytes from the start of the buffer.                  *)
Taken(n) == [i \in 1 .. n |-> buffer[i - 1]]

LEMMA TakenBytes ==
  ASSUME IInv, NEW n \in Nat, n <= K
  PROVE  /\ Taken(n) \in Seq(Nat)
         /\ Len(Taken(n)) = n
         /\ \A i \in 1 .. n : i - 1 \in Cells /\ Taken(n)[i] = buffer[i - 1]
<1>1. \A i \in 1 .. n : i - 1 \in Cells
  BY WriterAssumption, SMT DEF Cells
<1>2. \A i \in 1 .. n : buffer[i - 1] \in Nat
  BY <1>1 DEF IInv, TypeOK
<1>3. Taken(n) \in Seq(Nat) /\ Len(Taken(n)) = n
  BY <1>2, SMT DEF Taken
<1>4. \A i \in 1 .. n : Taken(n)[i] = buffer[i - 1]
  BY SMT DEF Taken
<1> QED BY <1>1, <1>3, <1>4

LEMMA SendIInv ==
  ASSUME IInv, NEW n \in 1 .. K, Send(n) PROVE IInv'
<1> DEFINE chunk == Taken(n)
<1>1. n \in Nat /\ n <= size /\ size <= K
  BY WriterAssumption, SMT DEF IInv, TypeOK, Send
<1>0. n <= K
  BY <1>1, WriterAssumption, SMT
<1>2. chunk \in Seq(Nat) /\ Len(chunk) = n
  BY <1>0, <1>1, TakenBytes
<1>3. sent' = sent \o chunk
  BY DEF Send, Taken
<1> HIDE DEF chunk
<1>4. sent' \in Seq(Nat) /\ Len(sent') = Len(sent) + n
  <2>1. sent \in Seq(Nat)
    BY DEF IInv, TypeOK
  <2> QED BY <1>2, <1>3, <2>1, ConcatProperties
<1>5. TypeOK'
  BY <1>1, <1>4, WriterAssumption, SMT DEF IInv, TypeOK, Send, args
<1>6. CountKept'
  <2>1. /\ open /\ pc = "flush"
        /\ size' = size - n /\ UNCHANGED <<open, pc, remaining, written>>
    BY DEF Send, Sending, args
  <2>2. Len(sent) + size + remaining = written
    BY <2>1 DEF IInv, CountKept
  <2>3. Len(sent) \in Nat /\ size \in Nat /\ remaining \in Nat
    BY <1>1, SMT DEF IInv, TypeOK
  <2>4. Len(sent') + size' + remaining' = written'
    BY <1>1, <1>4, <2>1, <2>2, <2>3, SMT
  <2> QED BY <2>4 DEF CountKept
<1>7. Roomy' /\ NothingLeft' /\ EmptyRequest'
  BY SMT DEF IInv, Roomy, NothingLeft, EmptyRequest, Send, Sending, args
<1> QED BY <1>5, <1>6, <1>7 DEF IInv

(* Entering and leaving the loops, and the ends of the connection.         *)
LEMMA OtherIInv ==
  ASSUME IInv, WriteReturns \/ Flush \/ SendClosed \/ SendError \/ FlushReturns
  PROVE  IInv'
<1>1. CASE WriteReturns
  BY <1>1, WriterAssumption, SMT
  DEF IInv, TypeOK, CountKept, Roomy, NothingLeft, EmptyRequest, WriteReturns,
      Committing, fields, args
<1>2. CASE Flush
  BY <1>2, WriterAssumption, SMT
  DEF IInv, TypeOK, CountKept, Roomy, NothingLeft, EmptyRequest, Flush, fields
<1>3. CASE SendClosed
  <2>1. TypeOK'
    <3>1. open' \in BOOLEAN
      BY <1>3 DEF SendClosed
    <3> QED BY <1>3, <3>1, Zenon DEF IInv, TypeOK, SendClosed, args
  <2>2. CountKept' /\ Roomy' /\ NothingLeft' /\ EmptyRequest'
    BY <1>3 DEF CountKept, Roomy, NothingLeft, EmptyRequest, SendClosed
  <2> QED BY <2>1, <2>2 DEF IInv
<1>4. CASE SendError
  BY <1>4, WriterAssumption, SMT
  DEF IInv, TypeOK, CountKept, Roomy, NothingLeft, EmptyRequest, SendError,
      fields, args
<1>5. CASE FlushReturns
  BY <1>5, WriterAssumption, SMT
  DEF IInv, TypeOK, CountKept, Roomy, NothingLeft, EmptyRequest, FlushReturns,
      Sending, fields, args
<1> QED BY <1>1, <1>2, <1>3, <1>4, <1>5

(* The accounting of bytes is right whatever is written and sent.          *)
THEOREM Inductive == Spec => []IInv
<1>1. Init => IInv
  BY InitIInv
<1>2. IInv /\ [Next]_vars => IInv'
  <2>1. ASSUME IInv, Next PROVE IInv'
    BY <2>1, WriteIInv, CommitIInv, SendIInv, OtherIInv DEF Next
  <2>2. ASSUME IInv, UNCHANGED vars PROVE IInv'
    BY <2>2, SMT
    DEF IInv, TypeOK, CountKept, Roomy, NothingLeft, EmptyRequest, vars, fields,
        args
  <2> QED BY <2>1, <2>2
<1> QED BY <1>1, <1>2, PTL DEF Spec

(* The loop of WriteBytes makes progress: there is room in the buffer      *)
(* whenever it goes round, or it would copy nothing for ever.              *)
RoomToCommit == Committing => size < K

(* The loop of WriteBytes never goes round with a full buffer, so it ends. *)
THEOREM LoopProgresses == Spec => []RoomToCommit
<1>1. IInv => RoomToCommit
  BY DEF IInv, Roomy, RoomToCommit, Committing
<1> QED BY <1>1, Inductive, PTL

(* Every variable has its type; in particular the count of buffered bytes  *)
(* never exceeds the buffer, whatever is written, sent or failed.          *)
THEOREM Typed == Spec => []TypeOK
<1>1. IInv => TypeOK
  BY DEF IInv
<1> QED BY <1>1, Inductive, PTL

(* While the connection is open every byte that was written is on the      *)
(* wire, buffered or still to be committed, each counted once.             *)
THEOREM NoByteLost == Spec => []CountKept
<1>1. IInv => CountKept
  BY DEF IInv
<1> QED BY <1>1, Inductive, PTL

(* After a Flush over an open connection every byte is on the wire.        *)
THEOREM FlushSendsAll == Spec => []FlushedRequests
<1>1. IInv => FlushedRequests
  BY SMT DEF IInv, TypeOK, CountKept, EmptyRequest, FlushedRequests
<1> QED BY <1>1, Inductive, PTL

-----------------------------------------------------------------------------
(* The order of the bytes.                                                 *)

\* What is buffered follows what has been sent.
BufferInOrder ==
  open /\ pc # "thrown" =>
    \A c \in Cells : c < size => buffer[c] = Len(sent) + 1 + c

OInv == whole => WireInOrder /\ BufferInOrder

(* memcpy in the first turn of a write: its source follows the buffer.     *)
LEMMA CommitOInv == ASSUME IInv, OInv, Commit PROVE OInv'
<1> SUFFICES ASSUME whole' PROVE WireInOrder' /\ BufferInOrder'
  BY DEF OInv
<1> DEFINE n == Chunk
<1>1. /\ open /\ pc = "write" /\ n \in Nat \ {0} /\ n <= remaining
      /\ size \in Nat /\ first \in Nat /\ remaining \in Nat /\ Len(sent) \in Nat
      /\ written \in Nat
  BY ChunkFits, WriterAssumption, SMT DEF Commit, Committing, IInv, TypeOK
<1>2. whole /\ remaining = written - first + 1
  BY DEF Commit
<1>3. first = Len(sent) + size + 1
  <2>1. Len(sent) + size + remaining = written
    BY <1>1 DEF IInv, CountKept
  <2> QED BY <1>1, <1>2, <2>1, SMT
<1>4. size' = size + n /\ buffer' = Filled(n) /\ UNCHANGED <<open, sent>>
  BY DEF Commit
<1> HIDE DEF n
<1>5. WireInOrder'
  BY <1>2, <1>4 DEF OInv, WireInOrder
<1>6. ASSUME NEW c \in Cells, c < size' PROVE buffer'[c] = Len(sent) + 1 + c
  <2>1. c \in Nat
    BY WriterAssumption, SMT DEF Cells
  <2>2. CASE c < size
    <3>1. buffer'[c] = buffer[c]
      BY <1>1, <1>4, <2>1, <2>2, SMT DEF Filled
    <3> QED BY <1>1, <1>2, <2>2, <3>1 DEF OInv, BufferInOrder
  <2>3. CASE c >= size
    <3>1. c \in size .. size + n - 1
      BY <1>1, <1>4, <1>6, <2>1, <2>3, SMT
    <3>2. buffer'[c] = first + (c - size)
      BY <1>4, <3>1 DEF Filled
    <3> QED BY <1>1, <1>3, <2>1, <3>2, SMT
  <2> QED BY <1>1, <2>1, <2>2, <2>3, SMT
<1> QED BY <1>4, <1>5, <1>6, SMT DEF BufferInOrder

(* A send() that takes the whole buffer.                                   *)
LEMMA SendOInv == ASSUME IInv, OInv, NEW n \in 1 .. K, Send(n) PROVE OInv'
<1> SUFFICES ASSUME whole' PROVE WireInOrder' /\ BufferInOrder'
  BY DEF OInv
<1> DEFINE chunk == Taken(n)
<1>1. whole /\ n = size /\ n \in Nat /\ n <= K /\ open /\ pc = "flush"
  <2>1. whole /\ n = size
    BY DEF Send
  <2>2. n \in Nat /\ n <= K /\ open /\ pc = "flush"
    BY WriterAssumption, SMT DEF Send, Sending
  <2> QED BY <2>1, <2>2
<1>2. /\ chunk \in Seq(Nat) /\ Len(chunk) = n
      /\ \A i \in 1 .. n : i - 1 \in Cells /\ chunk[i] = buffer[i - 1]
  BY <1>1, TakenBytes
<1>3. sent \in Seq(Nat) /\ Len(sent) \in Nat
  BY SMT DEF IInv, TypeOK
<1>4. sent' = sent \o chunk /\ size' = size - n
  BY DEF Send, Taken
<1> HIDE DEF chunk
<1>5. ASSUME NEW i \in 1 .. n PROVE chunk[i] = Len(sent) + i
  <2>1. i - 1 \in Cells /\ i - 1 < size /\ chunk[i] = buffer[i - 1]
    BY <1>1, <1>2, SMT
  <2>2. buffer[i - 1] = Len(sent) + 1 + (i - 1)
    BY <1>1, <2>1 DEF OInv, BufferInOrder
  <2> QED BY <1>1, <1>3, <2>1, <2>2, SMT
<1>6. WireInOrder'
  <2> SUFFICES ASSUME NEW i \in 1 .. Len(sent') PROVE sent'[i] = i
    BY DEF WireInOrder
  <2>1. i \in Nat
    OBVIOUS
  <2>2. Len(sent') = Len(sent) + n
    BY <1>2, <1>3, <1>4, ConcatProperties
  <2>3. CASE i <= Len(sent)
    BY <1>1, <1>2, <1>3, <1>4, <2>1, <2>2, <2>3, SMT DEF OInv, WireInOrder
  <2>4. CASE i > Len(sent)
    <3>1. i - Len(sent) \in 1 .. n
      BY <1>1, <1>3, <2>1, <2>2, <2>4, SMT
    <3>2. sent'[i] = chunk[i - Len(sent)]
      BY <1>2, <1>3, <1>4, <2>1, <2>2, <2>4, SMT
    <3>3. chunk[i - Len(sent)] = Len(sent) + (i - Len(sent))
      BY <1>5, <3>1
    <3> QED BY <1>3, <2>1, <3>2, <3>3, SMT
  <2> QED BY <1>3, <2>1, <2>3, <2>4, SMT
<1>7. BufferInOrder'
  <2>1. size' = 0
    BY <1>1, <1>4, SMT
  <2> QED BY <2>1, WriterAssumption, SMT DEF BufferInOrder, Cells
<1> QED BY <1>6, <1>7

(* Steps that move no bytes.                                               *)
LEMMA OtherOInv ==
  ASSUME OInv, UNCHANGED <<size, buffer, sent, whole>>,
         open' => open, pc' # "thrown" => pc # "thrown"
  PROVE  OInv'
BY SMT DEF OInv, WireInOrder, BufferInOrder

LEMMA Quiet ==
  ASSUME \/ \E n \in WriteSizes : Write(n)
         \/ WriteReturns \/ Flush \/ SendClosed \/ SendError \/ FlushReturns
  PROVE  /\ UNCHANGED <<size, buffer, sent, whole>>
         /\ open' => open
         /\ pc' # "thrown" => pc # "thrown"
BY DEF Write, WriteReturns, Flush, SendClosed, SendError, FlushReturns, Sending, fields

(* Writes that are each committed in one turn reach the wire byte for byte *)
(* as they were written, as long as send() takes all it is offered.        *)
THEOREM OrderKept == Spec => []WholeWritesInOrder
<1>1. Init => OInv
  BY WriterAssumption, SMT DEF Init, OInv, WireInOrder, BufferInOrder
<1>2. IInv /\ OInv /\ [Next]_vars => OInv'
  <2>1. ASSUME IInv, OInv, Next PROVE OInv'
    BY <2>1, CommitOInv, SendOInv, Quiet, OtherOInv DEF Next
  <2>2. ASSUME OInv, UNCHANGED vars PROVE OInv'
    BY <2>2, OtherOInv DEF vars, fields
  <2> QED BY <2>1, <2>2
<1>3. OInv => WholeWritesInOrder
  BY DEF OInv, WholeWritesInOrder
<1> QED BY <1>1, <1>2, <1>3, Inductive, PTL DEF Spec

-----------------------------------------------------------------------------
(* Requests that fit the buffer, over a send() that takes all it is        *)
(* offered: every write is then committed in one turn.                     *)

Fits == RequestLength <= K /\ ~PartialSends

\* A write that is under way, with what is buffered, fits the buffer, and
\* nothing of it has been committed.
WithinRequest ==
  open =>
    /\ pc \in {"idle", "write"} => size + remaining <= request
    /\ pc = "flush" /\ back = "write" => size <= request /\ remaining = 0
    /\ pc = "write" /\ remaining > 0 => remaining = written - first + 1
    /\ request <= RequestLength

FInv == whole /\ WithinRequest

LEMMA CommitFInv == ASSUME Fits, IInv, FInv, Commit PROVE FInv'
<1>1. /\ open /\ pc = "write" /\ remaining \in Nat \ {0}
      /\ size \in Nat /\ K \in Nat /\ request \in Nat /\ RequestLength \in Nat
  BY WriterAssumption, SMT DEF Commit, Committing, IInv, TypeOK
<1>2. size + remaining <= K
  BY <1>1, SMT DEF Fits, FInv, WithinRequest
<1>3. Chunk = remaining
  BY <1>2, ChunkFits DEF Commit
<1>4. /\ size' = size + remaining /\ remaining' = 0
      /\ \/ pc' = "flush" /\ back' = "write"
         \/ UNCHANGED <<pc, back>>
      /\ UNCHANGED <<open, request>>
  BY <1>1, <1>3, SMT DEF Commit, Left, args
<1>5. whole'
  <2>1. remaining > 0
    BY DEF Commit, Committing
  <2>2. remaining = written - first + 1
    BY <1>1, <2>1 DEF FInv, WithinRequest
  <2> QED BY <2>2, Zenon DEF FInv, Commit
<1>6. WithinRequest'
  BY <1>1, <1>4, SMT DEF FInv, WithinRequest
<1> QED BY <1>5, <1>6 DEF FInv

LEMMA OtherFInv ==
  ASSUME Fits, IInv, FInv,
         \/ \E n \in WriteSizes : Write(n)
         \/ \E n \in 1 .. K : Send(n)
         \/ WriteReturns \/ Flush \/ SendClosed \/ SendError \/ FlushReturns
  PROVE  FInv'
<1>1. ASSUME NEW n \in WriteSizes, Write(n) PROVE FInv'
  BY <1>1, WriterAssumption, SMT
  DEF IInv, TypeOK, NothingLeft, FInv, WithinRequest, Write, fields
<1>2. ASSUME NEW n \in 1 .. K, Send(n) PROVE FInv'
  <2>1. n = size /\ n \in Nat /\ pc = "flush" /\ open
    BY <1>2, WriterAssumption, SMT DEF Send, Sending, Fits, IInv, TypeOK
  <2>2. /\ whole' = (whole /\ n = size) /\ size' = size - n
        /\ UNCHANGED <<open, pc, back, remaining, first, written, request>>
    BY <1>2 DEF Send, args
  <2>3. request \in Nat
    BY DEF IInv, TypeOK
  <2>4. whole'
    BY <2>1, <2>2, Zenon DEF FInv
  <2>5. WithinRequest'
    BY <2>1, <2>2, <2>3, SMT DEF FInv, WithinRequest
  <2> QED BY <2>4, <2>5 DEF FInv
<1>3. CASE WriteReturns
  BY <1>3, SMT
  DEF IInv, TypeOK, FInv, WithinRequest, WriteReturns, Committing, fields, args
<1>4. CASE Flush
  BY <1>4, WriterAssumption, SMT
  DEF IInv, TypeOK, FInv, WithinRequest, Flush, fields
<1>5. CASE SendClosed \/ SendError
  <2>1. UNCHANGED whole
    BY <1>5 DEF SendClosed, SendError
  <2>2. CASE SendClosed
    BY <2>1, <2>2 DEF FInv, WithinRequest, SendClosed
  <2>3. CASE SendError
    BY <2>1, <2>3, SMT DEF FInv, WithinRequest, SendError, fields, args
  <2> QED BY <1>5, <2>2, <2>3
<1>6. CASE FlushReturns
  BY <1>6, WriterAssumption, SMT
  DEF IInv, TypeOK, NothingLeft, FInv, WithinRequest, FlushReturns, Sending, fields,
      args
<1> QED BY <1>1, <1>2, <1>3, <1>4, <1>5, <1>6

(* Requests that fit the buffer reach the wire as they were written, in    *)
(* the client's case: a blocking socket, whose send() takes everything.    *)
THEOREM WholeRequestsInOrder == ASSUME Fits PROVE Spec => []WireInOrder
<1>1. Init => FInv
  BY WriterAssumption, SMT DEF Init, FInv, WithinRequest
<1>2. IInv /\ FInv /\ [Next]_vars => FInv'
  <2>1. ASSUME IInv, FInv, Next PROVE FInv'
    BY <2>1, CommitFInv, OtherFInv DEF Next
  <2>2. ASSUME FInv, UNCHANGED vars PROVE FInv'
    BY <2>2 DEF FInv, WithinRequest, vars, fields, args
  <2> QED BY <2>1, <2>2
<1>3. FInv /\ WholeWritesInOrder => WireInOrder
  BY DEF FInv, WholeWritesInOrder
<1> QED BY <1>1, <1>2, <1>3, Inductive, OrderKept, PTL DEF Spec
=============================================================================
