-------------------------- MODULE SocketReaderProofs --------------------------
(***************************************************************************)
(* Proofs about SocketReader for every buffer length, every stream and     *)
(* every sequence of read sizes.                                           *)
(***************************************************************************)
EXTENDS SocketReader, TLAPS

(* The window of received and not yet delivered bytes: what it holds, and  *)
(* what a running call knows of it.                                        *)
Window ==
  /\ received = delivered + size
  /\ \A i \in 0 .. size - 1 : buffer[start + i] = delivered + i + 1

Running ==
  pc = "recv" =>
    /\ need = Clamp(asked)
    /\ missing > 0 => missing = need - size
    /\ missing <= 0 /\ open => size >= need
    /\ open /\ missing > 0 => start + need <= K
    /\ ~open => size <= need

Closed == pc = "idle" /\ ~open => size = 0

(* What callers see, in so many words: the bytes that the returned pointer *)
(* shows are the next bytes of the stream; there are never more of them    *)
(* than were asked for; at the peer's close nothing stays in the buffer.   *)
DeliversInOrder ==
  pc = "idle" =>
    \A i \in 0 .. result.n - 1 :
      buffer[result.at + i] = delivered - result.n + i + 1
NeverMoreThanAsked == pc = "idle" => result.n <= asked
NothingLostAtClose == (pc = "idle" /\ ~open) => delivered = received

IInv ==
  /\ TypeOK /\ Window /\ Running /\ Closed
  /\ DeliversInOrder /\ NeverMoreThanAsked

(* The constructor establishes the invariant.                              *)
LEMMA InitIInv == Init => IInv
  BY ReaderAssumption
  DEF Init, IInv, TypeOK, Window, Running, Closed, DeliversInOrder,
      NeverMoreThanAsked, Cells

(* The prologue of a call, with or without the memmove.                    *)
LEMMA CallIInv == ASSUME IInv, NEW n \in ReadSizes, Call(n) PROVE IInv'
<1> USE ReaderAssumption
<1> n \in Nat
  OBVIOUS
<1>0. need' \in 0 .. K /\ need' <= n /\ need' = Clamp(n)
  BY DEF Call, Clamp
<1>1. CASE MustCompact(need')
  <2>1. buffer' = Compacted /\ start' = 0
    BY <1>1 DEF Call
  <2>2. TypeOK'
    BY <2>1, <1>0 DEF IInv, TypeOK, Call, Compacted, Cells
  <2>3. Window'
    <3>1. ASSUME NEW i \in 0 .. size - 1 PROVE buffer'[i] = buffer[start + i]
      BY <2>1 DEF IInv, TypeOK, Compacted, Cells
    <3>2. start' = 0 /\ UNCHANGED <<size, received, delivered>>
      BY <2>1 DEF Call
    <3> QED
      BY <3>1, <3>2 DEF IInv, TypeOK, Window
  <2>4. Running'
    BY <2>1, <1>0, <1>1 DEF IInv, TypeOK, Running, Closed, Call, MustCompact, Clamp
  <2> QED
    BY <2>2, <2>3, <2>4 DEF IInv, Closed, DeliversInOrder, NeverMoreThanAsked, Call
<1>2. CASE ~MustCompact(need')
  <2>1. UNCHANGED <<buffer, start, size, open>>
    BY <1>2 DEF Call
  <2>2. TypeOK'
    BY <2>1, <1>0 DEF IInv, TypeOK, Call, Cells
  <2>3. Window'
    BY <2>1 DEF IInv, Window, Call
  <2>4. Running'
    BY <2>1, <1>0, <1>2 DEF IInv, TypeOK, Running, Closed, Call, MustCompact, Clamp
  <2> QED
    BY <2>2, <2>3, <2>4 DEF IInv, Closed, DeliversInOrder, NeverMoreThanAsked, Call
<1> QED
  BY <1>1, <1>2

(* A recv() that returns n bytes.                                          *)
LEMMA RecvDataIInv == ASSUME IInv, NEW n \in 1 .. K, RecvData(n) PROVE IInv'
<1> USE ReaderAssumption
<1>1. TypeOK'
  BY DEF IInv, TypeOK, RecvData, Space, Cells
<1>2. Window'
  <2> DEFINE end == start + size
  <2>1. received = delivered + size /\ end + n <= K
    BY DEF IInv, TypeOK, Window, RecvData, Space
  <2>2. ASSUME NEW i \in 0 .. size' - 1 PROVE buffer'[start' + i] = delivered' + i + 1
    <3>1. start' + i \in Cells /\ start' = start /\ size' = size + n /\ delivered' = delivered
      BY <2>1 DEF IInv, TypeOK, RecvData, Cells
    <3>2. CASE i < size
      BY <3>1, <3>2 DEF IInv, TypeOK, Window, RecvData
    <3>3. CASE i >= size
      BY <2>1, <3>1, <3>3 DEF IInv, TypeOK, RecvData
    <3> QED
      BY <3>1, <3>2, <3>3 DEF IInv, TypeOK
  <2> QED
    BY <2>1, <2>2 DEF IInv, TypeOK, Window, RecvData
<1>3. Running'
  BY DEF IInv, TypeOK, Running, RecvData, Looping, Clamp
<1> QED
  BY <1>1, <1>2, <1>3
  DEF IInv, Closed, DeliversInOrder, NeverMoreThanAsked, RecvData, Looping

(* A recv() that returns 0 or an error.                                    *)
LEMMA RecvEndIInv == ASSUME IInv, RecvClosed \/ RecvError PROVE IInv'
<1> USE ReaderAssumption
<1>1. CASE RecvClosed
  <2>1. TypeOK' /\ Window'
    BY <1>1 DEF IInv, TypeOK, Window, RecvClosed, locals, Cells
  <2>2. Running'
    BY <1>1 DEF IInv, TypeOK, Running, RecvClosed, Looping, locals, Clamp
  <2> QED
    BY <1>1, <2>1, <2>2
    DEF IInv, Closed, DeliversInOrder, NeverMoreThanAsked, RecvClosed, Looping, locals
<1>2. CASE RecvError
  BY <1>2
  DEF IInv, TypeOK, Window, Running, Closed, DeliversInOrder, NeverMoreThanAsked,
      RecvError, Looping, Cells, fields
<1> QED
  BY <1>1, <1>2

(* The end of a call: what it hands over leaves the window.                *)
LEMMA ReturnIInv == ASSUME IInv, Return PROVE IInv'
<1> USE ReaderAssumption
<1> DEFINE n == IF open THEN need ELSE size
<1>1. n \in 0 .. size /\ n <= asked
  BY DEF IInv, TypeOK, Running, Return, Looping, Clamp
<1>2. /\ start' = start + n /\ size' = size - n /\ delivered' = delivered + n
      /\ result' = [at |-> start, n |-> n] /\ pc' = "idle"
      /\ UNCHANGED <<open, buffer, need, missing, asked, received>>
  BY DEF Return
<1> HIDE DEF n
<1>3. TypeOK'
  BY <1>1, <1>2 DEF IInv, TypeOK, Cells
<1>4. Window' /\ DeliversInOrder' /\ NeverMoreThanAsked'
  BY <1>1, <1>2 DEF IInv, TypeOK, Window, DeliversInOrder, NeverMoreThanAsked
<1>5. Running' /\ Closed'
  <2>1. ~open => n = size
    BY DEF n
  <2> QED
    BY <1>1, <1>2, <2>1 DEF IInv, TypeOK, Running, Closed
<1> QED
  BY <1>3, <1>4, <1>5 DEF IInv

(* IInv is an invariant of the reader.                                     *)
THEOREM Inductive == Spec => []IInv
<1>1. IInv /\ [Next]_vars => IInv'
  <2>1. ASSUME IInv, Next PROVE IInv'
    BY <2>1, CallIInv, RecvDataIInv, RecvEndIInv, ReturnIInv DEF Next
  <2>2. ASSUME IInv, UNCHANGED vars PROVE IInv'
    BY <2>2
    DEF IInv, TypeOK, Window, Running, Closed, DeliversInOrder,
        NeverMoreThanAsked, vars, fields, locals, Clamp
  <2> QED
    BY <2>1, <2>2
<1> QED
  BY InitIInv, <1>1, PTL DEF Spec

(* The indices of the window never leave the buffer.                       *)
THEOREM WindowInBuffer == Spec => []TypeOK
<1>1. IInv => TypeOK
  BY DEF IInv
<1> QED
  BY Inductive, <1>1, PTL

(* Whatever the sizes of the reads and however recv() splits the stream,   *)
(* callers are shown the bytes of the stream in order, each of them once.  *)
THEOREM InOrder == Spec => []DeliversInOrder
<1>1. IInv => DeliversInOrder
  BY DEF IInv
<1> QED
  BY Inductive, <1>1, PTL

(* No call returns more bytes than it was asked for.                       *)
THEOREM AtMostAsked == Spec => []NeverMoreThanAsked
<1>1. IInv => NeverMoreThanAsked
  BY DEF IInv
<1> QED
  BY Inductive, <1>1, PTL

(* recv() always has room, so that its 0 always means the peer's close.    *)
THEOREM AlwaysRoom == Spec => []NoZeroLengthRecv
<1>1. IInv => NoZeroLengthRecv
  BY ReaderAssumption DEF IInv, TypeOK, Running, NoZeroLengthRecv, Looping, Space
<1> QED
  BY Inductive, <1>1, PTL

(* At the peer's close nothing that has arrived is lost.                   *)
THEOREM AllDelivered == Spec => []NothingLostAtClose
<1>1. IInv => NothingLostAtClose
  BY DEF IInv, TypeOK, Window, Closed, NothingLostAtClose
<1> QED
  BY Inductive, <1>1, PTL

-----------------------------------------------------------------------------
(* The refinement: SocketReader is an ITokenProvider.                      *)

LEMMA InitProvider == Init => Provider!Init
<1> SUFFICES ASSUME Init PROVE Provider!Init
  OBVIOUS
<1>1. Shown = [i \in {} |-> 0]
  BY DEF Init, Shown
<1> QED
  BY <1>1 DEF Init, Provider!Init, Provider!Nothing

(* A call shows nothing of the last one, and recv() or an error nothing at *)
(* all.                                                                    *)
LEMMA RunningProvider ==
  ASSUME IInv, \/ \E n \in ReadSizes : Call(n)
               \/ \E n \in 1 .. K : RecvData(n)
               \/ RecvClosed \/ RecvError
  PROVE  Provider!Next
<1>1. CASE \E n \in ReadSizes : Call(n)
  <2>1. PICK n \in ReadSizes : Call(n)
    BY <1>1
  <2>2. Shown' = [i \in {} |-> 0]
    BY <2>1 DEF Call, Shown
  <2>3. Provider!Read(n)
    BY <2>1, <2>2 DEF Call, Provider!Read, Provider!Nothing
  <2> QED
    BY <2>3 DEF Provider!Next
<1>2. CASE \E n \in 1 .. K : RecvData(n)
  <2>1. PICK n \in 1 .. K : RecvData(n)
    BY <1>2
  <2>2. pc = "recv" /\ UNCHANGED <<pc, asked, open, delivered>> /\ received' > received
    BY <2>1, ReaderAssumption DEF RecvData, Looping, IInv, TypeOK
  <2>3. UNCHANGED Shown
    BY <2>2 DEF Shown
  <2>4. Provider!Arrive
    BY <2>1, <2>2, <2>3 DEF RecvData, Looping, Provider!Arrive
  <2> QED
    BY <2>4 DEF Provider!Next
<1>3. CASE RecvClosed
  <2>1. UNCHANGED Shown
    BY <1>3 DEF RecvClosed, Looping, locals, Shown
  <2>2. Provider!Close
    BY <1>3, <2>1 DEF RecvClosed, Looping, locals, Provider!Close
  <2> QED
    BY <2>2 DEF Provider!Next
<1>4. CASE RecvError
  <2>1. UNCHANGED Shown
    BY <1>4 DEF RecvError, Looping, Shown
  <2>2. Provider!Throw
    BY <1>4, <2>1 DEF RecvError, Looping, fields, Provider!Throw
  <2> QED
    BY <2>2 DEF Provider!Next
<1> QED
  BY <1>1, <1>2, <1>3, <1>4

(* The bytes that the returning call shows are those of the window.        *)
LEMMA ReturnProvider == ASSUME IInv, Return PROVE Provider!Next
<1> USE ReaderAssumption
<1> DEFINE n == IF open THEN need ELSE size
<1>1. n \in 0 .. size
  BY DEF IInv, TypeOK, Running, Return, Looping, Clamp
<1>2. /\ result' = [at |-> start, n |-> n] /\ delivered' = delivered + n
      /\ pc = "recv" /\ pc' = "idle" /\ UNCHANGED <<open, buffer, asked, received>>
  BY DEF Return
<1>3. received = delivered + size /\ delivered \in Nat /\ size \in Nat
  BY DEF IInv, TypeOK, Window
<1>4. Shown' = [i \in 0 .. n - 1 |-> delivered + i + 1]
  <2>1. Shown' = [i \in 0 .. n - 1 |-> buffer[start + i]]
    BY <1>2 DEF Shown
  <2>2. \A i \in 0 .. n - 1 : buffer[start + i] = delivered + i + 1
    BY <1>1, <1>3 DEF IInv, Window
  <2> QED
    BY <2>1, <2>2
<1>5. CASE open
  <2>1. n = IF asked > K THEN K ELSE asked
    BY <1>2, <1>5 DEF IInv, Running, Clamp
  <2>2. Provider!HandOver(IF asked > K THEN K ELSE asked)
    BY <1>1, <1>2, <1>3, <1>4, <2>1 DEF Provider!HandOver
  <2> QED
    BY <1>5, <2>2 DEF Provider!ReturnAll, Provider!Next
<1>6. CASE ~open
  <2>1. n = received - delivered /\ received - delivered <= asked
    BY <1>2, <1>3, <1>6 DEF IInv, TypeOK, Running, Clamp
  <2>2. Provider!HandOver(received - delivered)
    BY <1>1, <1>2, <1>3, <1>4, <2>1 DEF Provider!HandOver
  <2> QED
    BY <1>6, <2>1, <2>2 DEF Provider!ReturnRest, Provider!Next
<1> QED
  BY <1>5, <1>6

(* For every buffer length and every fragmentation of the stream, ReadBytes*)
(* is what an ITokenProvider promises.                                     *)
THEOREM Implements == Spec => IsTokenProvider
<1>1. IInv /\ [Next]_vars => [Provider!Next]_(Provider!vars)
  <2>1. ASSUME IInv, Next PROVE Provider!Next
    BY <2>1, RunningProvider, ReturnProvider DEF Next
  <2>2. ASSUME UNCHANGED vars PROVE UNCHANGED Provider!vars
    BY <2>2 DEF vars, fields, locals, Provider!vars, Shown
  <2> QED
    BY <2>1, <2>2
<1> QED
  BY InitProvider, Inductive, <1>1, PTL DEF Spec, IsTokenProvider, Provider!Spec
===============================================================================
