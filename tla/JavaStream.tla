------------------------------- MODULE JavaStream -------------------------------
(***************************************************************************)
(* The server's end of the wire, which is not in the repository: Java's    *)
(* ObjectInputStream as far as a request exercises it (the grammar in the  *)
(* comments of RequestSerializer.cpp), and what its ObjectOutputStream     *)
(* writes for a reply (the layout in those of ReplyMessageParser.cpp).     *)
(* <<>> stands for null.                                                   *)
(***************************************************************************)
EXTENDS RequestSerializer

-----------------------------------------------------------------------------
(* Reading.  A reader has the tokens ahead, the value just read, the       *)
(* handles assigned since the reset, the description of a class as far as  *)
(* it is read, the classes described, and the values of fields.            *)

Reader(tokens) == [in |-> tokens, v |-> <<>>, handles |-> <<>>, description |-> <<>>,
                   classes |-> <<>>, values |-> <<>>, ok |-> TRUE]

Fail(d)            == [d EXCEPT !.ok = FALSE]
NewHandle(d, what) == [d EXCEPT !.handles = Append(@, what)]
NewString(d)       == NewHandle(d, <<"string", d.v>>)
Describe(d)        == [d EXCEPT !.description = Append(@, d.v)]
Store(d)           == [d EXCEPT !.values = Append(@, <<d.v>>)]
StoreNull(d)       == [d EXCEPT !.values = Append(@, <<>>)]
OneOf(d, values)   == IF d.ok /\ d.v \in values THEN d ELSE Fail(d)

Take(d, type) ==
  IF d.ok /\ d.in # <<>> /\ Head(d.in).t = type
  THEN [d EXCEPT !.in = Tail(@), !.v = Head(d.in).v] ELSE Fail(d)
TakeOneOf(d, bytes) == OneOf(Take(d, "byte"), bytes)

CharsOfLength(d) ==
  IF d.ok /\ d.v > 0 /\ d.in # <<>> /\ Head(d.in).n = d.v
  THEN Take(d, "chars") ELSE Fail(d)
TakeUTF(d) == CharsOfLength(Take(d, "int16"))

\* A string, or a reference to one that has been read.
Referenced(d) ==
  LET k == d.v - FirstHandle + 1
  IN  IF d.ok /\ k \in DOMAIN d.handles /\ d.handles[k][1] = "string"
      THEN [d EXCEPT !.v = d.handles[k][2]] ELSE Fail(d)
StringOf(code) ==
  IF ~code.ok THEN code
  ELSE IF code.v = TC_STRING THEN NewString(TakeUTF(code))
  ELSE Referenced(Take(code, "int32"))
TakeString(d) == StringOf(TakeOneOf(d, {TC_STRING, TC_REFERENCE}))

FieldOf(code) ==
  IF code.ok /\ code.v = L THEN Describe(TakeString(Describe(TakeUTF(code))))
                           ELSE Describe(TakeUTF(code))
RECURSIVE TakeFields(_, _)
TakeFields(d, k) ==
  IF ~d.ok \/ k = 0 THEN d ELSE TakeFields(FieldOf(TakeOneOf(d, {I, L})), k - 1)
CountedFields(d) == IF d.ok THEN TakeFields(d, d.v) ELSE d

(* The classes the server knows: identity, flags and fields in order.      *)
Classes ==
  {<<"common.RequestMessage", "1", 2, 5, "intField",
     "dateField", "Ljava/util/Date;", "stringField1", "Ljava/lang/String;",
     "stringField2", "Ljava/lang/String;", "type", "Lcommon/RequestType;">>,
   <<"java.util.Date", "686A81014B597419", 3, 0>>,
   <<"common.RequestType", "0", \h12, 0>>,
   <<"java.lang.Enum", "0", \h12, 0>>}
Known(d) ==
  IF d.ok /\ d.description \in Classes
  THEN [d EXCEPT !.classes = Append(@, d.description[1]), !.description = <<>>]
  ELSE Fail(d)

\* A class with its superclasses.
ClassName(d) == NewHandle(Describe(Take(Describe(TakeUTF(d)), "int64")), <<"class">>)
ClassInfo(d) == CountedFields(Describe(Take(Describe(Take(d, "byte")), "int16")))
RECURSIVE TakeClass(_)
ClassOf(code) ==
  IF ~code.ok \/ code.v = TC_NULL THEN code
  ELSE TakeClass(Known(TakeOneOf(ClassInfo(ClassName(code)), {TC_ENDBLOCKDATA})))
TakeClass(d) == ClassOf(TakeOneOf(d, {TC_NULL, TC_CLASSDESC}))

\* What begins an object or a constant of a class.
Instance(d, classes) ==
  IF d.ok /\ d.classes = classes
  THEN NewHandle([d EXCEPT !.classes = <<>>], <<"instance">>) ELSE Fail(d)
TakeInstance(d, classes) == Instance(TakeClass(d), classes)

TakeEnum(d) ==
  Store(TakeString(TakeInstance(d, <<"common.RequestType", "java.lang.Enum">>)))

\* A Date, whose class writes its milliseconds itself.
TakeBlock(d)  == TakeOneOf(TakeOneOf(d, {TC_BLOCKDATA}), {8})
TakeMillis(d) == Store(Take(TakeBlock(d), "int64"))
TakeDate(d) ==
  TakeOneOf(TakeMillis(TakeInstance(d, <<"java.util.Date">>)), {TC_ENDBLOCKDATA})

ValueOf(code) ==
  IF ~code.ok THEN code
  ELSE CASE code.v = TC_NULL   -> StoreNull(code)
         [] code.v = TC_STRING -> Store(NewString(TakeUTF(code)))
         [] code.v = TC_OBJECT -> TakeDate(code)
         [] code.v = TC_ENUM   -> TakeEnum(code)
TakeValue(d) == ValueOf(TakeOneOf(d, {TC_NULL, TC_STRING, TC_OBJECT, TC_ENUM}))

(* readObject: a RequestMessage, whose fields come in the order of its     *)
(* class description.                                                      *)
TakeMessage(d) ==
  TakeInstance(TakeOneOf(TakeOneOf(d, {TC_RESET}), {TC_OBJECT}), <<"common.RequestMessage">>)
ReadRequest(tokens) ==
  LET d == TakeValue(TakeValue(TakeValue(TakeValue(
             Store(Take(TakeMessage(Reader(tokens)), "int32"))))))
  IN  IF d.ok
      THEN [ok |-> TRUE, ahead |-> d.in,
            request |-> [intField |-> d.values[1][1], dateField |-> d.values[2],
                         stringField1 |-> d.values[3], stringField2 |-> d.values[4],
                         type |-> d.values[5][1]]]
      ELSE [ok |-> FALSE]

\* The stream's header.
ReadHeader(tokens) ==
  LET version == Take(Take(Reader(tokens), "int16"), "int16")
  IN  [ok |-> version.ok /\ tokens[1].v = STREAM_MAGIC /\ version.v = STREAM_VERSION,
       ahead |-> version.in]

-----------------------------------------------------------------------------
(* Writing.  A reply has <<>> or <<value>> in the fields that may be null. *)

Bool(b) == WriteByte(IF b THEN 1 ELSE 0)

ReplyClass ==
  WriteByte(TC_CLASSDESC) \o UTF("common.ReplyMessage") \o WriteInt64("1")
  \o WriteByte(2) \o WriteInt16(7)
  \o WriteByte(\h5A) \o UTF("boolField1") \o WriteByte(\h5A) \o UTF("boolField2")
  \o WriteByte(I) \o UTF("intField")
  \o WriteByte(L) \o UTF("dateField")   \o String("Ljava/util/Date;")
  \o WriteByte(L) \o UTF("reply")       \o String("Lcommon/Reply;")
  \o WriteByte(L) \o UTF("stringField") \o String("Ljava/lang/String;")
  \o WriteByte(L) \o UTF("type")        \o String("Lcommon/RequestType;")
  \o EndOfClass

JavaDate(date) ==
  IF date = <<>> THEN WriteByte(TC_NULL)
  ELSE WriteByte(TC_OBJECT) \o ClassHead("java.util.Date", "686A81014B597419", 3)
       \o WriteByte(TC_NULL) \o WriteByte(TC_BLOCKDATA) \o WriteByte(8)
       \o WriteInt64(date[1]) \o WriteByte(TC_ENDBLOCKDATA)
JavaText(text) ==
  IF text = <<>> THEN WriteByte(TC_NULL) ELSE WriteString(text[1], Length(text[1]))

\* The handle of java.lang.Enum depends on what comes before; it is not read.
EnumHandle == WriteByte(TC_REFERENCE) \o WriteInt32(FirstHandle)

WriteReply(m, first) ==
  (IF first THEN WriteInt16(STREAM_MAGIC) \o WriteInt16(STREAM_VERSION) ELSE <<>>)
  \o WriteByte(TC_RESET) \o WriteByte(TC_OBJECT) \o ReplyClass
  \o Bool(m.boolField1) \o Bool(m.boolField2) \o WriteInt32(m.intField)
  \o JavaDate(m.dateField)
  \o WriteByte(TC_ENUM) \o ClassHead("common.Reply", "0", \h12)
  \o ClassHead("java.lang.Enum", "0", \h12) \o WriteByte(TC_NULL)
  \o String(stringFromEReply[m.reply])
  \o JavaText(m.stringField)
  \o WriteByte(TC_ENUM) \o ClassHead("common.RequestType", "0", \h12) \o EnumHandle
  \o String(stringFromERequestType[m.type])
=================================================================================
