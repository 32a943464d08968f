--------------------------- MODULE RequestSerializer ---------------------------
(***************************************************************************)
(* RequestSerializer: the tokens that WriteRequest writes for a request,   *)
(* in Java's serialization format.                                         *)
(***************************************************************************)
EXTENDS Messages, Tokens

CONSTANT LongBits    \* the width of time_t and of a Java long

TC_NULL == \h70          TC_REFERENCE == \h71     TC_CLASSDESC == \h72
TC_OBJECT == \h73        TC_STRING == \h74        TC_BLOCKDATA == \h77
TC_ENDBLOCKDATA == \h78  TC_RESET == \h79         TC_LONGSTRING == \h7C
TC_ENUM == \h7E
STREAM_MAGIC == \haced   STREAM_VERSION == 5
FirstHandle == \h7E0000

\* Two's complement: what a signed multiplication leaves in LongBits bits.
Wrap(x) == ((x + 2 ^ (LongBits - 1)) % 2 ^ LongBits) - 2 ^ (LongBits - 1)

WriteUTF(value, n) ==
  (IF n <= 65535 THEN WriteInt16(n) ELSE WriteInt64(n)) \o WriteChars(value, n)
WriteString(value, n) ==
  WriteByte(IF n <= 65535 THEN TC_STRING ELSE TC_LONGSTRING) \o WriteUTF(value, n)

\* The names of classes, fields and constants, of which there are many.
UTF(name)    == WriteUTF(name, Len(name))
String(name) == WriteString(name, Len(name))

WriteStringField(text) ==
  IF text = Empty THEN WriteByte(TC_NULL) ELSE WriteString(text, Length(text))

EndOfClass == WriteByte(TC_ENDBLOCKDATA) \o WriteByte(TC_NULL)
\* A class description without fields, as far as its superclass.
ClassHead(name, uid, flags) ==
  WriteByte(TC_CLASSDESC) \o UTF(name) \o WriteInt64(uid) \o WriteByte(flags)
    \o WriteInt16(0) \o WriteByte(TC_ENDBLOCKDATA)

I == 73
L == 76

\* Mutant: the back-reference leads to the class name of dateField.
ReferenceToDate == WriteByte(TC_REFERENCE) \o WriteInt32(FirstHandle + 1)
\* The back-reference to the class name of stringField1.
ReferenceToString == WriteByte(TC_REFERENCE) \o WriteInt32(FirstHandle + 2)

WriteClassDesc ==
  WriteByte(TC_CLASSDESC) \o UTF("common.RequestMessage") \o WriteInt64("1")
  \o WriteByte(2) \o WriteInt16(5)
  \o WriteByte(I) \o UTF("intField")
  \o WriteByte(L) \o UTF("dateField")    \o String("Ljava/util/Date;")
  \o WriteByte(L) \o UTF("stringField1") \o String("Ljava/lang/String;")
  \o WriteByte(L) \o UTF("stringField2") \o ReferenceToString
  \o WriteByte(L) \o UTF("type")         \o String("Lcommon/RequestType;")
  \o EndOfClass

WriteDate(date) ==
  IF date = NULL_DATE THEN WriteByte(TC_NULL)
  ELSE WriteByte(TC_OBJECT) \o ClassHead("java.util.Date", "686A81014B597419", 3) \o WriteByte(TC_NULL)
       \o WriteByte(TC_BLOCKDATA) \o WriteByte(8) \o WriteInt64(Wrap(date * 1000))
       \o WriteByte(TC_ENDBLOCKDATA)

WriteClassData(request) ==
  WriteInt32(request.intField)
  \o WriteDate(request.dateField)
  \o WriteStringField(request.stringField1)
  \o WriteStringField(request.stringField2)
  \o WriteByte(TC_ENUM) \o ClassHead("common.RequestType", "0", \h12)
  \o ClassHead("java.lang.Enum", "0", \h12) \o WriteByte(TC_NULL)
  \o String(stringFromERequestType[request.type])

\* What WriteRequest writes before it flushes.
WriteRequest(request, isFirstMessage) ==
  (IF isFirstMessage THEN WriteInt16(STREAM_MAGIC) \o WriteInt16(STREAM_VERSION)
                     ELSE <<>>)
  \o WriteByte(TC_RESET) \o WriteByte(TC_OBJECT)
  \o WriteClassDesc \o WriteClassData(request)
================================================================================
