-------------------------------- MODULE Tokens --------------------------------
(***************************************************************************)
(* The units that an ITokenConsumer writes and an ITokenProvider reads: a  *)
(* token has a type, a value and a length in bytes.  A reader that is not  *)
(* at the beginning of a token, or takes fewer or more bytes than it has,  *)
(* gets bytes that mean nothing.                                           *)
(***************************************************************************)
EXTENDS Integers, Sequences

Token(type, value, n) == [t |-> type, v |-> value, n |-> n]
Noise(n)              == Token("noise", "noise", n)

Size(tokens) ==
  LET upTo[i \in 0 .. Len(tokens)] == IF i = 0 THEN 0 ELSE upTo[i - 1] + tokens[i].n
  IN  upTo[Len(tokens)]

-----------------------------------------------------------------------------
(* Writing.                                                                *)

WriteByte(value)  == <<Token("byte", value, 1)>>
WriteInt16(value) == <<Token("int16", value, 2)>>
WriteInt32(value) == <<Token("int32", value, 4)>>
WriteInt64(value) == <<Token("int64", value, 8)>>
\* WriteBytes of n characters.
WriteChars(value, n) == IF n = 0 THEN <<>> ELSE <<Token("chars", value, n)>>

(* WriteBytes commits a token in as many turns as the buffer's end asks    *)
(* for, each of which copies from the token's beginning: a token that does *)
(* not fit into what is left of the buffer is spoiled.                     *)
RECURSIVE CommittedAt(_, _, _)
CommittedAt(used, tokens, buffer) ==
  IF tokens = <<>> THEN <<>>
  ELSE LET n == Head(tokens).n
       IN  <<IF used + n <= buffer THEN Head(tokens) ELSE Noise(n)>>
             \o CommittedAt((used + n) % buffer, Tail(tokens), buffer)

\* What reaches the socket of tokens written to a buffer that starts empty.
Committed(tokens, buffer) == CommittedAt(0, tokens, buffer)

-----------------------------------------------------------------------------
(* Reading.  A cursor has the tokens ahead, the token just read, whether   *)
(* the stream ran out before the read was answered, and whether an         *)
(* assertion has failed.  It stops at either.                              *)

\* The stream without its first n bytes.
RECURSIVE After(_, _)
After(tokens, n) ==
  IF n = 0 \/ tokens = <<>> THEN tokens
  ELSE IF Head(tokens).n <= n THEN After(Tail(tokens), n - Head(tokens).n)
  ELSE <<Noise(Head(tokens).n - n)>> \o Tail(tokens)

\* The stream as far as its first n bytes.
RECURSIVE UpTo(_, _)
UpTo(tokens, n) ==
  IF n = 0 \/ tokens = <<>> THEN <<>>
  ELSE IF Head(tokens).n <= n THEN <<Head(tokens)>> \o UpTo(Tail(tokens), n - Head(tokens).n)
  ELSE <<Noise(n)>>

(* ReadBytes(n), and the assertion that n bytes were read, which fails on  *)
(* an open connection when the buffer is shorter than n.                   *)
Read(c, n, buffer) ==
  IF c.short \/ c.bad THEN c
  ELSE LET k == IF n > buffer THEN buffer ELSE n
       IN  [c EXCEPT !.ahead = After(c.ahead, k),
                     !.token = IF k > 0 /\ c.ahead # <<>> /\ Head(c.ahead).n = k
                               THEN Head(c.ahead) ELSE Noise(k),
                     !.short = Size(c.ahead) < k,
                     !.bad   = k < n /\ Size(c.ahead) >= k]

\* What the token just read is worth to a reader of tokens of a type.
Value(c, type, noise) == IF c.token.t = type THEN c.token.v ELSE noise
===============================================================================
