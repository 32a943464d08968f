-------------------------- MODULE ReplyMessageParser --------------------------
(***************************************************************************)
(* ReplyMessageParser::GetReply: reads of fixed sizes from an              *)
(* ITokenProvider, some of them skipped, each followed by an assertion     *)
(* that as many bytes were read.  "state" says how a call ends: "reply",   *)
(* "threw", or "waits" when the stream has no more bytes yet; a stream     *)
(* that has been closed makes a call that would wait throw.                *)
(***************************************************************************)
EXTENDS Messages, Tokens

CONSTANTS
  ReceiveBufferLength,    \* k_ReceiveBufferLength
  ReplyLongBits           \* the width of a long

\* What a call has: a cursor, and the reply it fills in.
Parsing(stream) ==
  [ahead |-> stream, token |-> Noise(0), short |-> FALSE, bad |-> FALSE,
   reply |-> ReplyMessage]

ReadN(c, n) == Read(c, n, ReceiveBufferLength)

SetField(c, field, value) == [c EXCEPT !.reply[field] = value]

Require(c, ok) == IF ok \/ c.short THEN c ELSE [c EXCEPT !.bad = TRUE]

\* The byte just read says that an object of this kind follows, or none.
Follows(c, object) == Value(c, "byte", 0) = object
NoneFollows(c)     == Require(c, Value(c, "byte", 0) = \h70)

\* A length, and as many characters.
CharsOf(c)    == ReadN(c, Value(c, "int16", 1))
ReadString(c) == CharsOf(ReadN(c, 2))

SetBool(c, field)  == SetField(c, field, Value(c, "byte", 0) = 1)
ReadBool(c, field) == SetBool(ReadN(c, 1), field)

SetInt(c)    == SetField(c, "intField", Value(c, "int32", 0))
ReadInt32(c) == SetInt(ReadN(c, 4))

\* Mutant: the milliseconds are taken for seconds.
SecondsNotDivided(millis) == millis
\* dateFieldTemp is unsigned.
Seconds(millis) ==
  (IF millis < 0 THEN millis + 2 ^ ReplyLongBits ELSE millis) \div 1000

SetDate(c)    == SetField(c, "dateField", Seconds(Value(c, "int64", 0)))
DateObject(c) == ReadN(SetDate(ReadN(ReadN(c, 32), 8)), 1)
DateOrNull(c) == IF Follows(c, \h73) THEN DateObject(c) ELSE NoneFollows(c)
ReadDate(c)   == DateOrNull(ReadN(c, 1))

SetText(c)    == SetField(c, "stringField", Value(c, "chars", Empty))
TextOrNull(c) == IF Follows(c, \h74) THEN SetText(ReadString(c)) ELSE NoneFollows(c)
ReadText(c)   == TextOrNull(ReadN(c, 1))

\* A constant, if the name just read is one's.
SetConstant(c, field, constants) ==
  IF constants = {} THEN Require(c, FALSE)
  ELSE SetField(c, field, CHOOSE x \in constants : TRUE)
NameOf(c)   == Value(c, "chars", "noise")
SetReply(c) == SetConstant(c, "reply", eReplyFromString(NameOf(c)))
SetType(c)  == SetConstant(c, "type", eRequestTypeFromString(NameOf(c)))

\* Mutant: the type's header without its TC_STRING.
TypeHeaderShort == 39
TypeHeader == 40

ReadReply(c) == SetReply(ReadString(ReadN(c, 59)))
\* Mutant: a footer is read after the type, as after the date.
ReadTypeAndFooter(c) == ReadN(SetType(ReadString(ReadN(c, TypeHeader))), 1)
ReadType(c)          == SetType(ReadString(ReadN(c, TypeHeader)))

ReadHead(c, isFirstMessage) == ReadN(IF isFirstMessage THEN ReadN(c, 4) ELSE c, 195)
ReadBools(c) == ReadBool(ReadBool(c, "boolField1"), "boolField2")

GetReply(stream, isFirstMessage) ==
  LET c == ReadType(ReadText(ReadReply(ReadDate(ReadInt32(ReadBools(
             ReadHead(Parsing(stream), isFirstMessage)))))))
  IN  IF c.short THEN [state |-> "waits"]
      ELSE IF c.bad THEN [state |-> "threw"]
      ELSE [state |-> "reply", ahead |-> c.ahead, reply |-> c.reply]
===============================================================================
