--------------------------------- MODULE Wire ---------------------------------
(***************************************************************************)
(* A connection as its two ends see it: requests that the methods of Model *)
(* make, written by RequestSerializer through SocketWriter and read by the *)
(* server; replies that the server writes, read by ReplyMessageParser      *)
(* through SocketReader.  The server may close the connection anywhere in  *)
(* what it has sent.                                                       *)
(*                                                                         *)
(* The two directions share nothing, so the model has one under way at a   *)
(* time.                                                                   *)
(***************************************************************************)
EXTENDS JavaStream, ReplyMessageParser

CONSTANTS
  SendBufferLength,   \* k_SendBufferLength
  Names, Passwords,   \* texts the client passes
  Spots, Dates,       \* spots and dates it passes
  ReplyTexts, ReplyDates, \* texts and milliseconds the server answers with
  LongestTexts,       \* the greatest length of the texts of a request together
                      \* for which a request must arrive
  MaxInFlight,        \* bounds the messages under way
  Cuts                \* bounds where, in bytes, the server may cut a reply off

ASSUME WireAssumption ==
  /\ SendBufferLength \in Nat \ {0} /\ ReceiveBufferLength \in Nat \ {0}
  /\ LongBits \in Nat \ {0} /\ ReplyLongBits = LongBits
  /\ Spots \subseteq Int /\ Dates \subseteq Int
  /\ LongestTexts \in Nat /\ MaxInFlight \in Nat /\ Cuts \subseteq Nat

VARIABLES
  isFirstRequest,   \* the serialiser's m_IsFirstMessage
  isFirstReply,     \* the parser's m_IsFirstMessage
  toServer,         \* tokens on their way to the server
  toClient,         \* tokens on their way to the client
  atServer,         \* the server's stream: "new" before its header is read,
                    \* then "open"; "corrupt" when it cannot be read
  atClient,         \* the reading thread's: "new" before the server has
                    \* written, then "open"; "closed" by the server; "threw"
                    \* when GetReply has
  made, sent        \* history: requests and replies under way, oldest first

vars == <<isFirstRequest, isFirstReply, toServer, toClient, atServer, atClient,
          made, sent>>

Init ==
  /\ isFirstRequest = TRUE /\ isFirstReply = TRUE
  /\ toServer = <<>> /\ toClient = <<>> /\ atServer = "new" /\ atClient = "new"
  /\ made = <<>> /\ sent = <<>>

-----------------------------------------------------------------------------
(* To the server.                                                          *)

\* The requests that calls of Model's methods put in the queue.
Requests ==
  LET Words == Passwords \cup {Empty}
  IN  Logout \cup OpenGate \cup requestNextExpiredUser
      \cup UNION {CancelReservation(s) \cup requestParkingStatus(s) : s \in Spots}
      \cup UNION {DeleteDriver(u) : u \in Words}
      \cup UNION {Login(u, p) \cup ChangePassword(u, p) : u \in Words, p \in Words}
      \cup UNION {UpdateDriverExpiration(u, d) : u \in Words, d \in Dates}
      \cup UNION {AddDriver(n, p, d) : n \in Names, p \in Words, d \in Dates}
      \cup UNION {ReserveParkingSpot(s, u, d) : s \in Spots, u \in Words, d \in Dates}

\* WriteRequest and its Flush.
Write(request) ==
  /\ made' = Append(made, request)
  /\ toServer' = toServer \o Committed(WriteRequest(request, isFirstRequest),
                                       SendBufferLength)
  /\ isFirstRequest' = FALSE

\* The writing thread takes a request from the queue; a login comes first.
SendRequest ==
  /\ atClient \in {"new", "open"} /\ sent = <<>>
  /\ Len(made) < MaxInFlight
  /\ \E request \in Requests :
       /\ isFirstRequest => request.type = "Login"
       /\ Write(request)
  /\ UNCHANGED <<isFirstReply, toClient, atServer, atClient, sent>>

ServerOpens ==
  /\ atServer = "new" /\ toServer # <<>>
  /\ LET header == ReadHeader(toServer)
     IN  IF header.ok THEN atServer' = "open" /\ toServer' = header.ahead
                      ELSE atServer' = "corrupt" /\ UNCHANGED toServer
  /\ UNCHANGED <<isFirstRequest, isFirstReply, toClient, atClient, made, sent>>

ServerReads ==
  /\ atServer = "open" /\ toServer # <<>>
  /\ LET read == ReadRequest(toServer)
     IN  IF read.ok
           THEN toServer' = read.ahead /\ made' = Tail(made) /\ UNCHANGED atServer
           ELSE toServer' = <<>> /\ atServer' = "corrupt" /\ UNCHANGED made
  /\ UNCHANGED <<isFirstRequest, isFirstReply, toClient, atClient, sent>>

-----------------------------------------------------------------------------
(* To the client.                                                          *)

Maybe(S) == {<<>>} \cup {<<x>> : x \in S}

\* Replies that carry every field, and those of each type and each result.
Replies ==
  [type : {"GetNextExpired"}, reply : {"Success"},
   intField : {7}, stringField : Maybe(ReplyTexts), boolField1 : {TRUE},
   boolField2 : {FALSE}, dateField : Maybe(ReplyDates)]
  \cup
  {[type |-> t, reply |-> r, intField |-> 0, stringField |-> <<>>,
    boolField1 |-> FALSE, boolField2 |-> TRUE, dateField |-> <<>>] :
     <<t, r>> \in (eRequestType \X {"Success"}) \cup ({"Login"} \X eReply)}

ServerReplies ==
  /\ atClient \in {"new", "open"} /\ atServer = "open" /\ made = <<>>
  /\ Len(sent) < MaxInFlight
  /\ \E m \in Replies :
       /\ sent' = Append(sent, m)
       /\ toClient' = toClient \o WriteReply(m, atClient = "new")
  /\ atClient' = "open"
  /\ UNCHANGED <<isFirstRequest, isFirstReply, toServer, atServer, made>>

\* The peer closes: of what it has sent, all or only the first bytes arrive.
ServerCloses ==
  /\ atClient \in {"new", "open"} /\ made = <<>>
  /\ \E n \in Cuts \cup {Size(toClient)} : toClient' = UpTo(toClient, n)
  /\ atClient' = "closed"
  /\ UNCHANGED <<isFirstRequest, isFirstReply, toServer, atServer, made, sent>>

\* Mutant: m_IsFirstMessage is never cleared.
ReadKeepingFirst == isFirstReply' = isFirstReply
ReadFirst == isFirstReply' = FALSE

\* The reading thread calls GetReply; it waits while its bytes are still to come.
ClientReads ==
  /\ atClient \in {"new", "open", "closed"}
  /\ LET read == GetReply(toClient, isFirstReply)
     IN  \/ /\ read.state = "reply"
            /\ toClient' = read.ahead /\ sent' = Tail(sent) /\ ReadFirst
            /\ UNCHANGED atClient
         \/ /\ read.state = "threw" \/ (read.state = "waits" /\ atClient = "closed")
            /\ atClient' = "threw"
            /\ UNCHANGED <<toClient, isFirstReply, sent>>
  /\ UNCHANGED <<isFirstRequest, toServer, atServer, made>>

Next ==
  \/ SendRequest \/ ServerOpens \/ ServerReads
  \/ ServerReplies \/ ServerCloses \/ ClientReads

Spec == Init /\ [][Next]_vars

-----------------------------------------------------------------------------
(* Every variable has its type, and between calls a stream is at the       *)
(* beginning of a message: of what it does not look at, GetReply skips     *)
(* exactly as much as there is.                                            *)
TypeOK ==
  /\ isFirstRequest \in BOOLEAN /\ isFirstReply \in BOOLEAN
  /\ atServer \in {"new", "open", "corrupt"}
  /\ atClient \in {"new", "open", "closed", "threw"}
  /\ Len(made) <= MaxInFlight /\ Len(sent) <= MaxInFlight
  /\ atClient = "open" =>
       toClient = IF sent = <<>> THEN <<>>
                  ELSE WriteReply(Head(sent), isFirstReply)
                       \o (IF Len(sent) = 2 THEN WriteReply(sent[2], FALSE) ELSE <<>>)

\* What a Java server understands when it reads a request of the client's.
NullIfEmpty(text) == IF text = Empty THEN <<>> ELSE <<text>>
Understood(request) ==
  [type |-> stringFromERequestType[request.type], intField |-> request.intField,
   stringField1 |-> NullIfEmpty(request.stringField1),
   stringField2 |-> NullIfEmpty(request.stringField2),
   dateField |-> IF request.dateField = NULL_DATE THEN <<>>
                 ELSE <<1000 * request.dateField>>]

Texts(request) == Length(request.stringField1) + Length(request.stringField2)
Representable(date) == 1000 * date < 2 ^ (LongBits - 1)

(* Every request that a method of Model accepts is read by the server as   *)
(* it was made, one after the other: back-references lead where they       *)
(* should, a date of none and an empty text are null, and seconds become   *)
(* milliseconds.  The texts may be as long as LongestTexts together, which *)
(* is what fits the send buffer beside the rest of a request: SocketWriter *)
(* spoils a write across its end.  The milliseconds must fit a long.       *)
RequestsArrive ==
  /\ LET request == Head(made)
         read    == ReadRequest(toServer)
     IN  atServer = "open" /\ made # <<>>
           /\ Texts(request) <= LongestTexts /\ Representable(request.dateField)
         => read.ok /\ read.request = Understood(request)
  /\ atServer = "corrupt" => Texts(Head(made)) > LongestTexts

\* What the client is to make of a reply of the server's.
Meant(m) ==
  [ReplyMessage EXCEPT
     !.type = m.type, !.reply = m.reply, !.intField = m.intField,
     !.boolField1 = m.boolField1, !.boolField2 = m.boolField2,
     !.stringField = IF m.stringField = <<>> THEN Empty ELSE m.stringField[1],
     !.dateField = IF m.dateField = <<>> THEN NULL_DATE ELSE m.dateField[1] \div 1000]

(* A reply that GetReply returns is the one the server sent first of those *)
(* not yet read, field by field: never one put together from two, and      *)
(* never one whose end the closing connection has cut off.                 *)
RepliesArrive ==
  LET read == GetReply(toClient, isFirstReply)
  IN  read.state = "reply" => sent # <<>> /\ read.reply = Meant(Head(sent))

(* GetReply throws, which ends the process, only when the server has       *)
(* closed the connection or a text is longer than the receive buffer.      *)
ThrowsWithReason ==
  [][atClient = "open" /\ atClient' = "threw" =>
       /\ sent # <<>> /\ Head(sent).stringField # <<>>
       /\ Length(Head(sent).stringField[1]) > ReceiveBufferLength]_vars

(* While a reply is on its way the reading thread does not wait for bytes  *)
(* that no reply has: it goes on to hand the reply over, or to throw.      *)
RepliesTaken ==
  atClient = "open" /\ sent # <<>> => GetReply(toClient, isFirstReply).state # "waits"
=================================================================================
