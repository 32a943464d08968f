------------------------- MODULE SessionPromiseProofs -------------------------
(***************************************************************************)
(* Proofs about Session for a careful client: what the flags mean to it,   *)
(* and that the session keeps its promise to it.  It has one thread, which *)
(* logs out, cleans up or sets the number of spots only when it has been   *)
(* told whether its Login has succeeded; requests and Logout it leaves to  *)
(* the thread, or to its event handlers, which make them whenever they     *)
(* like.                                                                   *)
(***************************************************************************)
EXTENDS SessionTalkProofs

\* Who makes the requests and logs out: the client's thread, or its handlers.
ThreadLeads == HandlerMay["Request"] = {} /\ HandlerMay["Logout"] = {}
HandlersLead ==
  AppMay["Request"] = {} /\ AppMay["Logout"] = {} /\ AppMay["Cleanup"] \subseteq {"out"}

(* The clients of session_careful and of session_handlers, and all between *)
(* them, for any requests, spots and bounds.                               *)
CarefulClient ==
  /\ \A a, b \in Apps : a = b
  /\ HandlerMay["Login"] = {} /\ HandlerMay["Cleanup"] = {}
  /\ UnsetFlag \subseteq {FALSE}
  /\ AppMay["Logout"] \subseteq {"in"}
  /\ AppMay["Request"] \subseteq {"pending", "in"}
  /\ AppMay["Set"] \subseteq {"out", "in", "leaving"}
  /\ AppMay["Cleanup"] \subseteq {"out", "in", "leaving"}
  /\ ThreadLeads \/ HandlersLead

(* The server has the two reasons for a refusal that LoginReply reports.   *)
KnownAnswers == LoginReplies \subseteq {"Success", "UsernameNotFound", "WrongPW"}

LEMMA CarefulIsSingle == ASSUME CarefulClient PROVE SingleClient
BY DEF CarefulClient, SingleClient

-----------------------------------------------------------------------------
(* A process that has ended stays as it is.                                *)

Stopped ==
  /\ wr = "off" /\ rd = "off" /\ server = "none"
  /\ \A t \in Callers : pc[t] = "ended"

Ended == fault # "none" => Stopped

LEMMA StoppedStays == ASSUME Stopped, Next PROVE FALSE
<1>1. ASSUME NEW t \in Callers, Call(t) \/ Continue(t) PROVE FALSE
  BY <1>1
  DEF Stopped, Call, Begin, Continue, Refuse, Refusals, Login, LoginGuard,
      LoginBadArguments, LoginClaim, Join, LoginClear, Connect, ConnectThrows,
      LoginEnqueue, LoginSpawn, LoginAssign, Logout, LogoutGuard, LogoutClaim,
      LogoutEnqueue, Request, RequestGuard, RequestEnqueue, RequestBadArguments,
      Set, SetGuard, SetApply, Cleanup, CleanupGuard, CleanupLogout, JoinDeleted, Branch
<1>2. CASE Writer \/ ThreadThrows \/ ServerAnswers \/ ServerPushes
  BY <1>2
  DEF Stopped, Writer, WriterStart, WriterSend, WriterJoin, WriterClearConnected,
      WriterClearDisconnecting, ThreadThrows, ServerAnswers, ServerPushes
<1>3. CASE Reading
  BY <1>3, ReadingTakes DEF Stopped
<1> QED
  BY <1>1, <1>2, <1>3 DEF Next

(* The only steps that end the process.                                    *)
LEMMA EndsOrGoesOn ==
  ASSUME Next
  PROVE  \/ ThreadThrows \/ \E t \in Callers : JoinDeleted(t)
         \/ UNCHANGED fault
<1>1. ASSUME NEW t \in Callers, Call(t) \/ Continue(t), ~JoinDeleted(t)
      PROVE  UNCHANGED fault
  BY <1>1, CallerCases
  DEF Call, Begin, Continue, Refuse, Refusals, Login, LoginGuard,
      LoginBadArguments, LoginClaim, Join, LoginClear, Connect, ConnectThrows,
      LoginEnqueue, LoginSpawn, LoginAssign, Logout, LogoutGuard, LogoutClaim,
      LogoutEnqueue, Request, RequestGuard, RequestEnqueue, RequestBadArguments,
      Set, SetGuard, SetApply, Cleanup, CleanupGuard, CleanupLogout, Branch
<1>2. CASE Writer \/ Reading \/ ServerAnswers \/ ServerPushes
  BY <1>2
  DEF Writer, WriterStart, WriterSend, WriterJoin, WriterClearConnected,
      WriterClearDisconnecting, Reading, ReceiveLogin, Poll, ReceiveStatus,
      PublishConnected, PublishLoggedIn, ReceiveLogout, ReceiveExpired, ReceiveOther,
      HandlersReturn, ServerAnswers, ServerPushes
<1> QED
  BY <1>1, <1>2 DEF Next

LEMMA EndedInvariant == Spec => []Ended
<1>1. Init => Ended
  BY DEF Init, Ended
<1>2. Ended /\ [Next]_vars => Ended'
  <2>1. ASSUME Ended, Next PROVE Ended'
    <3>1. CASE ThreadThrows \/ \E t \in Callers : JoinDeleted(t)
      BY <3>1 DEF ThreadThrows, JoinDeleted, ProcessEnds, Ended, Stopped
    <3>2. CASE UNCHANGED fault
      BY <2>1, <3>2, StoppedStays DEF Ended
    <3> QED
      BY <2>1, <3>1, <3>2, EndsOrGoesOn
  <2>2. ASSUME Ended, UNCHANGED vars PROVE Ended'
    BY <2>2 DEF Ended, Stopped, vars, threads, net
  <2> QED
    BY <2>1, <2>2
<1> QED
  BY <1>1, <1>2, PTL DEF Spec

-----------------------------------------------------------------------------
(* The last reply and the answer to the Login.                             *)

(* A reply to a Logout is the last of its connection, and one to a Login   *)
(* is one of the server's answers.                                         *)
Arriving ==
  \A i \in DOMAIN toClient :
    /\ toClient[i].type = "Logout" => i = Len(toClient) /\ server = "out"
    /\ toClient[i].type = "Login" => toClient[i].reply \in LoginReplies

(* And so is what the reading thread has read.                             *)
Parting == Arriving /\ (rd # "off" /\ ~Unread => latestLogin \in LoginReplies)

LEMMA TakeArriving ==
  ASSUME TypeOK, Arriving, toClient # <<>>, toClient' = Tail(toClient), UNCHANGED server
  PROVE  Arriving'
<1>1. /\ DOMAIN toClient' = 1 .. Len(toClient) - 1 /\ DOMAIN toClient = 1 .. Len(toClient)
      /\ \A i \in 1 .. Len(toClient) - 1 : toClient'[i] = toClient[i + 1]
      /\ Len(toClient') = Len(toClient) - 1 /\ Len(toClient) \in Nat \ {0}
  BY HeadTailProperties, LenProperties, EmptySeq DEF TypeOK, NetOK
<1>2. ASSUME NEW i \in DOMAIN toClient'
      PROVE  i + 1 \in DOMAIN toClient /\ toClient'[i] = toClient[i + 1]
  BY <1>1
<1>3. ASSUME NEW i \in DOMAIN toClient', i + 1 = Len(toClient) PROVE i = Len(toClient')
  BY <1>1, <1>3
<1> QED
  BY <1>2, <1>3 DEF Arriving

LEMMA SayArriving ==
  ASSUME TypeOK, Arriving, server # "out", NEW x \in Packets,
         toClient' = Append(toClient, x),
         x.type = "Logout" => server' = "out",
         x.type = "Login" => x.reply \in LoginReplies
  PROVE  Arriving'
<1>1. /\ DOMAIN toClient' = 1 .. Len(toClient) + 1 /\ DOMAIN toClient = 1 .. Len(toClient)
      /\ \A i \in 1 .. Len(toClient) : toClient'[i] = toClient[i]
      /\ toClient'[Len(toClient) + 1] = x
      /\ Len(toClient') = Len(toClient) + 1 /\ Len(toClient) \in Nat
  BY AppendProperties, LenProperties DEF TypeOK, NetOK
<1>2. ASSUME NEW i \in DOMAIN toClient'
      PROVE  \/ i \in DOMAIN toClient /\ toClient'[i] = toClient[i]
             \/ i = Len(toClient') /\ toClient'[i] = x
  BY <1>1
<1> QED
  BY <1>2 DEF Arriving

LEMMA CallerParting ==
  ASSUME TypeOK, Lifecycle, Parting, NEW t \in Callers, Call(t) \/ Continue(t)
  PROVE  Parting'
<1>1. CASE JoinDeleted(t)
  BY <1>1 DEF JoinDeleted, ProcessEnds, Parting, Arriving
<1>2. CASE Join(t, "login.join", "login.clear") \/ Join(t, "cleanup.join", "idle")
  <2>1. UNCHANGED <<toClient, server, latestLogin>> /\ (rd' # "off" => rd # "off")
    BY <1>2 DEF Join, net
  <2> QED
    BY <2>1 DEF Parting, Arriving, Unread, Has
<1>3. CASE Connect(t)
  <2>1. /\ pc[t] = "login.connect" /\ UNCHANGED rd
        /\ toClient' = <<>> /\ server' = "new"
    BY <1>3 DEF Connect, threads
  <2>2. rd = "off"
    BY <2>1 DEF Lifecycle, Starting, HandlerLabels, Callers
  <2> QED
    BY <2>1, <2>2 DEF Parting, Arriving
<1>4. CASE ~(\/ JoinDeleted(t) \/ Join(t, "login.join", "login.clear")
             \/ Join(t, "cleanup.join", "idle") \/ Connect(t))
  <2>1. UNCHANGED <<toClient, server, latestLogin, rd>>
    BY <1>4, CallerCases
    DEF Quiet, LoginGuard, LogoutGuard, Branch, LoginClaim, LogoutClaim, LoginClear,
        ConnectThrows, LoginEnqueue, LoginSpawn, LoginAssign, LogoutEnqueue,
        RequestEnqueue, threads, net
  <2> QED
    BY <2>1 DEF Parting, Arriving, Unread, Has
<1> QED
  BY <1>1, <1>2, <1>3, <1>4

LEMMA ReadingParting == ASSUME TypeOK, Parting, Reading PROVE Parting'
<1>1. UNCHANGED server /\ rd # "off"
  BY DEF Reading, ReceiveLogin, Poll, ReceiveStatus, PublishConnected,
         PublishLoggedIn, ReceiveLogout, ReceiveExpired, ReceiveOther, HandlersReturn,
         Receive, net
<1>2. CASE ~ReceiveLogin /\ UNCHANGED toClient
  <2>1. UNCHANGED latestLogin
    BY <1>2
    DEF Reading, Poll, ReceiveStatus, PublishConnected, PublishLoggedIn,
        ReceiveLogout, ReceiveExpired, ReceiveOther, HandlersReturn
  <2> QED
    BY <1>1, <1>2, <2>1 DEF Parting, Arriving, Unread, Has
<1>3. CASE ReceiveLogin
  <2>1. /\ toClient # <<>> /\ toClient' = Tail(toClient) /\ Head(toClient).type = "Login"
        /\ latestLogin' = Head(toClient).reply
    BY <1>3 DEF ReceiveLogin, Receive
  <2>2. 1 \in DOMAIN toClient /\ Head(toClient) = toClient[1]
    BY <2>1, EmptySeq DEF TypeOK, NetOK
  <2> QED
    BY <1>1, <2>1, <2>2, TakeArriving DEF Parting, Arriving
<1>4. CASE toClient' # toClient /\ ~ReceiveLogin
  <2>1. /\ toClient # <<>> /\ toClient' = Tail(toClient) /\ Head(toClient).type # "Login"
        /\ UNCHANGED latestLogin
    BY <1>4
    DEF Reading, Poll, ReceiveStatus, PublishConnected, PublishLoggedIn,
        ReceiveLogout, ReceiveExpired, ReceiveOther, HandlersReturn, Receive, net,
        RequestTypes
  <2>2. Has(toClient, "Login") <=> Has(toClient', "Login")
    BY <2>1, TailHas DEF TypeOK, NetOK
  <2> QED
    BY <1>1, <2>1, <2>2, TakeArriving DEF Parting, Unread
<1> QED
  BY <1>2, <1>3, <1>4

LEMMA ServerParting ==
  ASSUME TypeOK, Talk, Parting, ServerAnswers \/ ServerPushes PROVE Parting'
<1>1. UNCHANGED <<rd, latestLogin>> /\ server # "out"
  BY DEF ServerAnswers, ServerPushes, threads
<1>2. CASE ServerAnswers
  <2>1. toServer # <<>> /\ Head(toServer) \in Entries
    BY <1>2, HeadTailProperties DEF ServerAnswers, TypeOK, NetOK
  <2>2. PICK reply \in Answers(Head(toServer)) :
          /\ toClient' = Append(toClient, [type |-> Head(toServer).type, reply |-> reply,
                                           spot |-> Head(toServer).spot])
          /\ Head(toServer).type = "Logout" => server' = "out"
    BY <1>2 DEF ServerAnswers
  <2> DEFINE x == [type |-> Head(toServer).type, reply |-> reply,
                   spot |-> Head(toServer).spot]
  <2>3. x.type = Head(toServer).type /\ x.reply = reply
    OBVIOUS
  <2>4. x \in Packets
    BY <2>1, <2>2, SessionAssumption DEF Answers, Replies, Entries, Packets
  <2>5. x.type = "Login" => x.reply \in LoginReplies
    BY <2>2, <2>3 DEF Answers
  <2>6. toClient' = Append(toClient, x)
    BY <2>2
  <2> HIDE DEF x
  <2>7. Arriving'
    BY <1>1, <2>2, <2>3, <2>4, <2>5, <2>6, SayArriving DEF Parting
  <2>8. Unread => Unread'
    <3>1. Has(toClient, "Login") \/ x.type = "Login" => Has(toClient', "Login")
      BY <2>4, <2>6, AppendHas DEF TypeOK, NetOK
    <3>2. 1 \in DOMAIN toServer /\ Head(toServer) = toServer[1]
      BY <2>1, EmptySeq DEF TypeOK, NetOK
    <3>3. server = "new" => x.type = "Login"
      BY <2>3, <3>2 DEF Talk, Conversation
    <3> QED
      BY <3>1, <3>3 DEF Unread
  <2> QED
    BY <1>1, <2>7, <2>8 DEF Parting
<1>3. CASE ServerPushes
  <2>1. PICK id \in 1 .. spots :
          toClient' = Append(toClient, [type |-> "GetParkingStatus",
                                        reply |-> "Success", spot |-> id])
    BY <1>3 DEF ServerPushes
  <2> DEFINE x == [type |-> "GetParkingStatus", reply |-> "Success", spot |-> id]
  <2>2. x \in Packets /\ x.type = "GetParkingStatus"
    BY <2>1 DEF Packets, Replies, TypeOK, StoreOK
  <2>3. toClient' = Append(toClient, x) /\ UNCHANGED server
    BY <1>3, <2>1 DEF ServerPushes
  <2> HIDE DEF x
  <2>4. Arriving'
    BY <1>1, <2>2, <2>3, SayArriving DEF Parting
  <2>5. Has(toClient, "Login") => Has(toClient', "Login")
    BY <2>2, <2>3, AppendHas DEF TypeOK, NetOK
  <2> QED
    BY <1>1, <2>3, <2>4, <2>5 DEF Parting, Unread
<1> QED
  BY <1>2, <1>3

LEMMA PartingInvariant == ASSUME SingleClient PROVE Spec => []Parting
<1>1. Init => Parting
  BY DEF Init, Parting, Arriving
<1>2. TypeOK /\ Lifecycle /\ Talk /\ Parting /\ [Next]_vars => Parting'
  <2>1. ASSUME TypeOK, Lifecycle, Talk, Parting, Next PROVE Parting'
    <3>1. CASE Writer
      BY <2>1, <3>1
      DEF Writer, WriterStart, WriterSend, WriterJoin, WriterClearConnected,
          WriterClearDisconnecting, net, Talk, Fresh, Parting, Arriving, Unread, Has
    <3>2. CASE ThreadThrows
      BY <3>2 DEF ThreadThrows, ProcessEnds, Parting, Arriving
    <3> QED
      BY <2>1, <3>1, <3>2, CallerParting, ReadingParting, ServerParting DEF Next
  <2>2. ASSUME Parting, UNCHANGED vars PROVE Parting'
    BY <2>2 DEF Parting, Arriving, Unread, Has, vars, threads, net
  <2> QED
    BY <2>1, <2>2
<1> QED
  BY <1>1, <1>2, TypeCorrect, LifecycleInvariant, TalkInvariant, PTL DEF Spec

-----------------------------------------------------------------------------
(* What is owed.                                                           *)

LogoutWaits == Has(queue, "Logout")

\* No event of the latest session is to come but those of its last handlers.
Over == rd \in {"off", "last.handler", "exited"} /\ wr # "start"

(* The requests whose calls are all answered by events, one by one.        *)
Ordinary == Requests \ {"GetNextExpired"}

\* A session has begun in which the client cannot have made a request yet.
Early == wr = "start" \/ (rd \notin {"off", "last.handler", "exited"} /\ ~isConnected)

\* The client makes no request after its Logout.
LogoutLast ==
  \A i, j \in DOMAIN queue :
    i < j /\ queue[i].type = "Logout" => queue[j].type \notin Ordinary

(* A request is owed for as long as it or its reply is under way, and none *)
(* is when a session begins, nor when its reading thread is done.          *)
Account(e) ==
  /\ owed[e] = Total(e)
  /\ wr # "loop" => Count(e, queue) = 0
  /\ Over => owed[e] = 0

Accounts ==
  fault = "none" =>
    /\ rd \in {"off", "last.handler", "exited"} => wr # "loop"
    /\ Early => \A e \in Requests : Total(e) = 0
    /\ \A e \in Ordinary : Account(e)
    /\ LogoutLast

LEMMA AppendLast ==
  ASSUME TypeOK, LogoutLast, NEW x \in Entries, queue' = Append(queue, x),
         x.type \in Ordinary => ~LogoutWaits
  PROVE  LogoutLast'
<1>1. /\ DOMAIN queue' = 1 .. Len(queue) + 1 /\ DOMAIN queue = 1 .. Len(queue)
      /\ \A i \in 1 .. Len(queue) : queue'[i] = queue[i]
      /\ queue'[Len(queue) + 1] = x /\ Len(queue) \in Nat
  BY AppendProperties, LenProperties DEF TypeOK
<1> SUFFICES ASSUME NEW i \in DOMAIN queue', NEW j \in DOMAIN queue', i < j,
                    queue'[i].type = "Logout"
             PROVE  queue'[j].type \notin Ordinary
  BY DEF LogoutLast
<1>2. i \in DOMAIN queue /\ queue[i].type = "Logout"
  BY <1>1
<1>3. CASE j \in DOMAIN queue
  BY <1>1, <1>2, <1>3 DEF LogoutLast
<1>4. CASE j \notin DOMAIN queue
  <2>1. queue'[j] = x
    BY <1>1, <1>4
  <2>2. LogoutWaits
    BY <1>2 DEF LogoutWaits, Has
  <2> QED
    BY <2>1, <2>2
<1> QED
  BY <1>3, <1>4

LEMMA TailLast ==
  ASSUME TypeOK, LogoutLast, queue # <<>>, queue' = Tail(queue)
  PROVE  /\ LogoutLast'
         /\ Head(queue).type = "Logout" => \A e \in Ordinary : Count(e, queue') = 0
<1>1. /\ DOMAIN queue' = 1 .. Len(queue) - 1 /\ DOMAIN queue = 1 .. Len(queue)
      /\ \A i \in 1 .. Len(queue) - 1 : queue'[i] = queue[i + 1]
      /\ Head(queue) = queue[1] /\ Len(queue) \in Nat \ {0}
  BY HeadTailProperties, LenProperties, EmptySeq DEF TypeOK
<1>2. ASSUME NEW i \in DOMAIN queue'
      PROVE  i \in Int /\ i + 1 \in DOMAIN queue /\ queue'[i] = queue[i + 1] /\ 1 < i + 1
  BY <1>1
<1>3. LogoutLast'
  <2> SUFFICES ASSUME NEW i \in DOMAIN queue', NEW j \in DOMAIN queue', i < j,
                      queue'[i].type = "Logout"
               PROVE  queue'[j].type \notin Ordinary
    BY DEF LogoutLast
  <2>1. i + 1 < j + 1
    BY <1>2
  <2> QED
    BY <1>2, <2>1 DEF LogoutLast
<1>4. ASSUME Head(queue).type = "Logout", NEW e \in Ordinary PROVE Count(e, queue') = 0
  <2>1. \A i \in DOMAIN queue' : queue'[i].type # e
    BY <1>1, <1>2, <1>4 DEF LogoutLast
  <2>2. Places(e, queue') = {}
    BY <2>1 DEF Places
  <2> QED
    BY <2>2, FS_EmptySet DEF Count
<1> QED
  BY <1>3, <1>4

(* How a step of a caller changes what is owed and what is under way.      *)
LEMMA CallerTotal ==
  ASSUME TypeOK, NEW e \in Requests, NEW t \in Callers, Call(t) \/ Continue(t),
         ~JoinDeleted(t)
  PROVE  \/ /\ RequestEnqueue(t) /\ UNCHANGED <<toServer, toClient>>
            /\ owed'[e] - owed[e] = Count(e, queue') - Count(e, queue)
         \/ /\ ~RequestEnqueue(t)
            /\ owed'[e] = owed[e] \/ (LoginEnqueue(t) /\ owed'[e] = 0)
            /\ Count(e, queue') = Count(e, queue) \/ (LoginClear(t) /\ queue' = <<>>)
            /\ \/ UNCHANGED <<toServer, toClient>>
               \/ Connect(t) /\ toServer' = <<>> /\ toClient' = <<>>
<1>1. CASE RequestEnqueue(t)
  <2>1. PICK type \in Requests : Enqueue(type, 0) /\ owed' = [owed EXCEPT ![type] = @ + 1]
    BY <1>1 DEF RequestEnqueue
  <2>2. Count(e, queue') = Count(e, queue) + IF type = e THEN 1 ELSE 0
    BY <2>1, TotalType, EnqueueCount
  <2>3. owed'[e] = owed[e] + IF type = e THEN 1 ELSE 0
    BY <2>1, TotalType DEF TypeOK, ClientOK
  <2>4. UNCHANGED <<toServer, toClient>>
    BY <1>1 DEF RequestEnqueue, net
  <2> QED
    BY <1>1, <2>2, <2>3, <2>4, TotalType
<1>2. CASE LoginEnqueue(t) \/ LogoutEnqueue(t)
  <2>1. PICK type \in {"Login", "Logout"} : Enqueue(type, 0)
    BY <1>2 DEF LoginEnqueue, LogoutEnqueue
  <2>2. Count(e, queue') = Count(e, queue)
    <3>1. type \in EntryTypes /\ type # e /\ Enqueue(type, 0) /\ 0 \in Nat
      BY <2>1, TotalType DEF EntryTypes
    <3>2. Count(e, queue') = Count(e, queue) + IF type = e THEN 1 ELSE 0
      BY <3>1, EnqueueCount
    <3> QED
      BY <3>1, <3>2, TotalType
  <2>3. owed'[e] = owed[e] \/ (LoginEnqueue(t) /\ owed'[e] = 0)
    BY <1>2, TotalType DEF LoginEnqueue, LogoutEnqueue, TypeOK, ClientOK
  <2>4. UNCHANGED <<toServer, toClient>> /\ ~RequestEnqueue(t)
    BY <1>2 DEF LoginEnqueue, LogoutEnqueue, RequestEnqueue, net
  <2> QED
    BY <2>2, <2>3, <2>4
<1>3. CASE ~(RequestEnqueue(t) \/ LoginEnqueue(t) \/ LogoutEnqueue(t))
  <2>1. /\ UNCHANGED owed
        /\ UNCHANGED queue \/ (LoginClear(t) /\ queue' = <<>>)
        /\ \/ UNCHANGED <<toServer, toClient>>
           \/ Connect(t) /\ toServer' = <<>> /\ toClient' = <<>>
    BY <1>3, CallerCases
    DEF Quiet, LoginGuard, LogoutGuard, Branch, LoginClaim, LogoutClaim, Join, LoginClear,
        Connect, ConnectThrows, LoginSpawn, LoginAssign, net, client
  <2> QED
    BY <1>3, <2>1
<1> QED
  BY <1>1, <1>2, <1>3

LEMMA SendTotal ==
  ASSUME TypeOK, NEW e \in Requests, WriterSend
  PROVE  /\ Total(e)' = Total(e)
         /\ Count(e, queue) = 0 => Count(e, queue') = 0
<1>1. /\ queue # <<>> /\ queue' = Tail(queue) /\ toServer' = Append(toServer, Head(queue))
      /\ UNCHANGED toClient
  BY DEF WriterSend
<1>2. /\ queue \in Seq(Entries) /\ toServer \in Seq(Entries) /\ Head(queue) \in Entries
      /\ queue' \in Seq(Entries)
  BY <1>1, HeadTailProperties DEF TypeOK, NetOK
<1>3. /\ Count(e, queue) = Count(e, queue') + IF Head(queue).type = e THEN 1 ELSE 0
      /\ Count(e, toServer') = Count(e, toServer) + IF Head(queue).type = e THEN 1 ELSE 0
      /\ Count(e, queue') \in Nat
  BY <1>1, <1>2, CountTail, CountAppend, CountType
<1>4. Count(e, toClient') = Count(e, toClient)
  BY <1>1
<1> QED
  BY <1>3, <1>4, TotalType DEF Total

LEMMA ServerTotal ==
  ASSUME TypeOK, Talk, NEW e \in Requests, ServerAnswers \/ ServerPushes
  PROVE  Total(e)' = Total(e)
<1>1. UNCHANGED queue
  BY DEF ServerAnswers, ServerPushes
<1>2. PICK x \in Packets :
        /\ toClient' = Append(toClient, x)
        /\ \/ x.type = "GetParkingStatus" /\ UNCHANGED toServer
           \/ /\ toServer # <<>> /\ toServer' = Tail(toServer)
              /\ x.type = Head(toServer).type
  BY ServerSays
<1>3. Count(e, toClient') = Count(e, toClient) + IF x.type = e THEN 1 ELSE 0
  BY <1>2, CountAppend DEF TypeOK, NetOK
<1>4. CASE x.type = "GetParkingStatus" /\ UNCHANGED toServer
  <2>1. Count(e, toClient') = Count(e, toClient)
    BY <1>3, <1>4, TotalType
  <2> QED
    BY <1>1, <1>4, <2>1 DEF Total
<1>5. CASE /\ toServer # <<>> /\ toServer' = Tail(toServer)
           /\ x.type = Head(toServer).type
  <2>1. toServer \in Seq(Entries) /\ toServer' \in Seq(Entries)
    BY <1>5, HeadTailProperties DEF TypeOK, NetOK
  <2>2. /\ Count(e, toServer) = Count(e, toServer') + IF Head(toServer).type = e THEN 1 ELSE 0
        /\ Count(e, toServer') \in Nat
    BY <1>5, <2>1, CountTail, CountType
  <2>3. Count(e, queue') = Count(e, queue)
    BY <1>1
  <2> QED
    BY <1>3, <1>5, <2>2, <2>3, TotalType DEF Total
<1> QED
  BY <1>2, <1>4, <1>5

LEMMA ReadingTotal ==
  ASSUME TypeOK, NEW e \in Requests, Reading
  PROVE  /\ Total(e) = 0 => Total(e)' = 0
         /\ e \in Ordinary =>
              /\ Count(e, queue') = Count(e, queue)
              /\ owed'[e] - owed[e] = Total(e)' - Total(e)
<1>1. UNCHANGED toServer
  BY ReadingTakes
<1>2. CASE PublishConnected \/ PublishLoggedIn \/ HandlersReturn
  <2>1. UNCHANGED <<queue, toClient>> /\ owed'[e] = owed[e]
    BY <1>2, TotalType
    DEF PublishConnected, PublishLoggedIn, HandlersReturn, Raise, net, client, TypeOK, ClientOK
  <2>2. Total(e)' = Total(e)
    BY <1>1, <2>1 DEF Total
  <2> QED
    BY <2>1, <2>2, TotalType DEF Total
<1>3. CASE Poll
  <2>1. UNCHANGED <<toClient, owed>>
    BY <1>3 DEF Poll, net, client
  <2>2. Count(e, queue') = Count(e, queue)
    <3>1. UNCHANGED queue \/ (Enqueue("GetParkingStatus", nextSpot) /\ nextSpot \in Nat)
      BY <1>3 DEF Poll, TypeOK, ThreadsOK
    <3>2. CASE Enqueue("GetParkingStatus", nextSpot) /\ nextSpot \in Nat
      <4>1. "GetParkingStatus" \in EntryTypes
        BY DEF EntryTypes
      <4>2. Count(e, queue') = Count(e, queue) + IF "GetParkingStatus" = e THEN 1 ELSE 0
        BY <3>2, <4>1, EnqueueCount
      <4> QED
        BY <4>2, TotalType
    <3> QED
      BY <3>1, <3>2
  <2>3. Total(e)' = Total(e)
    BY <1>1, <2>1, <2>2 DEF Total
  <2> QED
    BY <2>1, <2>2, <2>3, TotalType DEF Total
<1>4. CASE ReceiveLogin \/ ReceiveStatus \/ ReceiveLogout
  <2>1. toClient # <<>> /\ toClient' = Tail(toClient) /\ UNCHANGED queue
        /\ Head(toClient).type # e
    BY <1>4, TotalType DEF ReceiveLogin, ReceiveStatus, ReceiveLogout, Receive
  <2>2. UNCHANGED owed \/ \E name \in {"Login", "Logout"} : \E n : owed' = [owed EXCEPT ![name] = n]
    <3>1. "ParkingStatusUpdate" \notin EventNames
      BY SessionAssumption DEF EventNames, RequestTypes
    <3> QED
      BY <1>4, <3>1 DEF ReceiveLogin, ReceiveStatus, ReceiveLogout, Raise, client
  <2>3. owed'[e] = owed[e]
    BY <2>2, TotalType DEF TypeOK, ClientOK
  <2>4. Count(e, toClient') = Count(e, toClient)
    BY <2>1, TakeCount
  <2>5. Total(e)' = Total(e)
    BY <1>1, <2>1, <2>4 DEF Total
  <2> QED
    BY <2>1, <2>3, <2>5, TotalType DEF Total
<1>5. CASE ReceiveExpired \/ ReceiveOther
  <2>1. toClient # <<>> /\ toClient' = Tail(toClient)
    BY <1>5 DEF ReceiveExpired, ReceiveOther, Receive
  <2>2. CASE ReceiveExpired /\ Head(toClient).reply = "Success"
    <3>1. /\ Enqueue("GetNextExpired", 0) /\ UNCHANGED owed
          /\ Head(toClient).type = "GetNextExpired"
      BY <2>2 DEF ReceiveExpired, Receive
    <3>2. Count(e, queue') = Count(e, queue) + IF "GetNextExpired" = e THEN 1 ELSE 0
      BY <3>1, EnqueueCount DEF EntryTypes, RequestTypes
    <3>3. Total(e)' = Total(e)
      BY <1>1, <2>1, <3>1, <3>2, TakeCount, TotalType DEF Total
    <3>4. e \in Ordinary => Count(e, queue') = Count(e, queue)
      BY <3>2, TotalType DEF Ordinary
    <3> QED
      BY <3>1, <3>3, <3>4, TotalType DEF Total
  <2>3. CASE ~(ReceiveExpired /\ Head(toClient).reply = "Success")
    <3>1. Raise(Head(toClient).type, TRUE, "handler") /\ UNCHANGED queue
      BY <1>5, <2>3 DEF ReceiveExpired, ReceiveOther, Receive
    <3>2. owed'[e] = owed[e] - IF Head(toClient).type = e THEN 1 ELSE 0
      BY <3>1, TotalType DEF Raise, TypeOK, ClientOK
    <3> QED
      BY <1>1, <2>1, <3>1, <3>2, TakeCount, TotalType DEF Total
  <2> QED
    BY <2>2, <2>3
<1> QED
  BY <1>2, <1>3, <1>4, <1>5 DEF Reading

(* How a step of a caller changes what the two threads are at.             *)
LEMMA CallerThreads ==
  ASSUME TypeOK, SingleClient, Lifecycle, HandlersDone, NEW t \in Callers,
         Call(t) \/ Continue(t), ~JoinDeleted(t)
  PROVE  /\ UNCHANGED isConnected
         /\ \/ UNCHANGED <<wr, rd>>
            \/ LoginSpawn(t) /\ wr = "off" /\ rd = "off" /\ wr' = "start" /\ UNCHANGED rd
            \/ wr \in {"off", "done"} /\ wr' = "off" /\ rd' = "off" /\ rd \in {"off", "exited"}
               /\ (Join(t, "login.join", "login.clear") \/ Join(t, "cleanup.join", "idle"))
         /\ pc[t] \in Starting => wr = "off" /\ rd = "off" /\ t \in Apps
<1>1. pc[t] \in Starting => wr = "off" /\ rd = "off" /\ t \in Apps
  BY DEF Lifecycle, Starting, HandlerLabels, Callers
<1>2. CASE LoginSpawn(t)
  BY <1>1, <1>2 DEF LoginSpawn, flags, Starting
<1>3. CASE Join(t, "login.join", "login.clear") \/ Join(t, "cleanup.join", "idle")
  BY <1>1, <1>3 DEF Join, flags, Lifecycle
<1>4. CASE ~(LoginSpawn(t) \/ Join(t, "login.join", "login.clear") \/ Join(t, "cleanup.join", "idle"))
  BY <1>1, <1>4, CallerCases
  DEF Quiet, LoginGuard, LogoutGuard, Branch, LoginClaim, LogoutClaim, LoginClear, Connect,
      ConnectThrows, LoginAssign, LoginEnqueue, LogoutEnqueue, RequestEnqueue, flags, threads
<1> QED
  BY <1>2, <1>3, <1>4

LEMMA CallerLast ==
  ASSUME TypeOK, LogoutLast, NEW t \in Callers, Call(t) \/ Continue(t), ~JoinDeleted(t),
         RequestEnqueue(t) => ~LogoutWaits
  PROVE  LogoutLast'
<1>1. ASSUME NEW type \in EntryTypes, Enqueue(type, 0), type \in Ordinary => ~LogoutWaits
      PROVE  LogoutLast'
  <2> DEFINE x == [type |-> type, spot |-> 0, session |-> session]
  <2>1. x \in Entries /\ queue' = Append(queue, x) /\ x.type = type
    BY <1>1 DEF Enqueue, Entries, EntryTypes, TypeOK, ClientOK
  <2> QED
    BY <1>1, <2>1, AppendLast
<1>2. CASE RequestEnqueue(t)
  <2>1. PICK type \in Requests : Enqueue(type, 0)
    BY <1>2 DEF RequestEnqueue
  <2> QED
    BY <1>1, <1>2, <2>1, TotalType
<1>3. CASE LoginEnqueue(t) \/ LogoutEnqueue(t)
  <2>1. PICK type \in {"Login", "Logout"} : Enqueue(type, 0)
    BY <1>3 DEF LoginEnqueue, LogoutEnqueue
  <2>2. type \in EntryTypes /\ type \notin Ordinary
    BY <2>1, TotalType DEF EntryTypes, Ordinary
  <2> QED
    BY <1>1, <2>1, <2>2
<1>4. CASE ~(RequestEnqueue(t) \/ LoginEnqueue(t) \/ LogoutEnqueue(t))
  <2>1. UNCHANGED queue \/ queue' = <<>>
    BY <1>4, CallerCases
    DEF Quiet, LoginGuard, LogoutGuard, Branch, LoginClaim, LogoutClaim, Join, LoginClear,
        Connect, ConnectThrows, LoginSpawn, LoginAssign
  <2> QED
    BY <2>1 DEF LogoutLast
<1> QED
  BY <1>2, <1>3, <1>4

-----------------------------------------------------------------------------
(* What is under way.                                                      *)

(* A request that the client cannot make is nowhere.                       *)
Absent(e) == ~Has(queue, e) /\ ~Has(toServer, e) /\ ~Has(toClient, e)
Unknown == RequestTypes \ Requests

LEMMA CallerAbsent ==
  ASSUME TypeOK, NEW e \in Unknown, Absent(e), NEW t \in Callers, Call(t) \/ Continue(t)
  PROVE  Absent(e)'
<1>1. e \in EntryTypes \ ({"Login", "Logout"} \cup Requests)
  BY DEF Unknown, EntryTypes, RequestTypes
<1>2. CASE JoinDeleted(t)
  BY <1>2, EmptyHas DEF JoinDeleted, ProcessEnds, Absent
<1>3. CASE RequestEnqueue(t) \/ LoginEnqueue(t) \/ LogoutEnqueue(t)
  <2>1. PICK type \in {"Login", "Logout"} \cup Requests : Enqueue(type, 0)
    BY <1>3 DEF RequestEnqueue, LoginEnqueue, LogoutEnqueue
  <2>2. UNCHANGED <<toServer, toClient>>
    BY <1>3 DEF RequestEnqueue, LoginEnqueue, LogoutEnqueue, net
  <2>3. type \in EntryTypes /\ e # type
    BY <1>1, TotalType DEF EntryTypes
  <2>4. ~Has(queue', e)
    BY <1>1, <2>1, <2>3, EnqueueOther DEF Absent
  <2> QED
    BY <2>2, <2>4 DEF Absent
<1>4. CASE ~(JoinDeleted(t) \/ RequestEnqueue(t) \/ LoginEnqueue(t) \/ LogoutEnqueue(t))
  <2>1. /\ queue' \in {queue, <<>>} /\ toServer' \in {toServer, <<>>}
        /\ toClient' \in {toClient, <<>>}
    BY <1>4, CallerCases
    DEF Quiet, LoginGuard, LogoutGuard, Branch, LoginClaim, LogoutClaim, Join, LoginClear,
        Connect, ConnectThrows, LoginSpawn, LoginAssign, net
  <2> QED
    BY <2>1, EmptyHas DEF Absent
<1> QED
  BY <1>2, <1>3, <1>4

LEMMA AbsentStep ==
  ASSUME TypeOK, Talk, NEW e \in Unknown, Absent(e), Next PROVE Absent(e)'
<1>0. e \in EntryTypes \ ({"Login", "Logout", "GetParkingStatus"} \cup Requests)
  BY DEF Unknown, EntryTypes, RequestTypes
<1>1. CASE WriterSend
  <2>1. /\ queue # <<>> /\ queue' = Tail(queue) /\ UNCHANGED toClient
        /\ toServer' = Append(toServer, Head(queue)) /\ Head(queue) \in Entries
    BY <1>1, HeadTailProperties DEF WriterSend, TypeOK
  <2>2. ~Has(queue', e) /\ Head(queue).type # e
    BY <2>1, TailHas DEF Absent, TypeOK
  <2> QED
    BY <2>1, <2>2, AppendHas DEF Absent, TypeOK, NetOK
<1>2. CASE Writer /\ ~WriterSend
  BY <1>2
  DEF Writer, WriterStart, WriterJoin, WriterClearConnected, WriterClearDisconnecting,
      net, Absent
<1>3. CASE Reading
  <2>1. UNCHANGED toServer /\ ~Has(toClient', e)
    BY <1>3, ReadingTakes, TailHas DEF Absent, TypeOK, NetOK
  <2>2. ~Has(queue', e)
    <3>1. CASE UNCHANGED queue
      BY <3>1 DEF Absent
    <3>2. CASE nextSpot \in Nat /\ Enqueue("GetParkingStatus", nextSpot)
      <4>1. "GetParkingStatus" \in EntryTypes
        BY DEF EntryTypes
      <4> QED
        BY <1>0, <3>2, <4>1, EnqueueOther DEF Absent
    <3>3. CASE ReceiveExpired /\ Enqueue("GetNextExpired", 0)
      <4>1. toClient # <<>> /\ Head(toClient).type = "GetNextExpired"
        BY <3>3 DEF ReceiveExpired, Receive
      <4>2. e # "GetNextExpired"
        BY <4>1, TailHas DEF Absent, TypeOK, NetOK
      <4>3. "GetNextExpired" \in EntryTypes
        BY DEF EntryTypes, RequestTypes
      <4> QED
        BY <1>0, <3>3, <4>2, <4>3, EnqueueOther DEF Absent
    <3> QED
      BY <1>3, <3>1, <3>2, <3>3, ReadingEnqueues
  <2> QED
    BY <2>1, <2>2 DEF Absent
<1>4. CASE ThreadThrows
  BY <1>4, EmptyHas DEF ThreadThrows, ProcessEnds, Absent
<1>5. CASE ServerAnswers \/ ServerPushes
  <2>1. PICK x \in Packets :
          /\ toClient' = Append(toClient, x)
          /\ \/ x.type = "GetParkingStatus" /\ UNCHANGED toServer
             \/ /\ toServer # <<>> /\ toServer' = Tail(toServer)
                /\ x.type = Head(toServer).type
    BY <1>5, ServerSays
  <2>2. ~Has(toServer', e) /\ x.type # e
    BY <1>0, <2>1, TailHas DEF Absent, TypeOK, NetOK
  <2>3. UNCHANGED queue
    BY <1>5 DEF ServerAnswers, ServerPushes
  <2> QED
    BY <2>1, <2>2, <2>3, AppendHas DEF Absent, TypeOK, NetOK
<1> QED
  BY <1>1, <1>2, <1>3, <1>4, <1>5, CallerAbsent DEF Next

NothingUnknown == \A e \in Unknown : Absent(e)

LEMMA NothingUnknownInvariant == ASSUME SingleClient PROVE Spec => []NothingUnknown
<1>1. Init => NothingUnknown
  BY EmptyHas DEF Init, NothingUnknown, Absent
<1>2. TypeOK /\ Talk /\ NothingUnknown /\ [Next]_vars => NothingUnknown'
  <2>1. ASSUME TypeOK, Talk, NothingUnknown, Next PROVE NothingUnknown'
    <3>1. ASSUME NEW e \in Unknown PROVE Absent(e)'
      BY <2>1, AbsentStep DEF NothingUnknown
    <3> QED
      BY <3>1 DEF NothingUnknown, Unknown
  <2>2. ASSUME NothingUnknown, UNCHANGED vars PROVE NothingUnknown'
    BY <2>2 DEF NothingUnknown, Absent, vars, net
  <2> QED
    BY <2>1, <2>2
<1> QED
  BY <1>1, <1>2, TypeCorrect, TalkInvariant, PTL DEF Spec

(* A reply that arrives is one to a request that the client can make.      *)
LEMMA KnownReply ==
  ASSUME TypeOK, NothingUnknown, toClient # <<>>,
         Head(toClient).type \in RequestTypes
  PROVE  Head(toClient).type \in Requests
BY TailHas DEF NothingUnknown, Absent, Unknown, TypeOK, NetOK

-----------------------------------------------------------------------------
(* What the client is told, where its one thread a stands, and the flags.  *)

CleanupLabels ==
  {"cleanup.connected", "cleanup.connecting", "cleanup.logout", "cleanup.join"}
RequestLabels ==
  {"request.connected", "request.disconnecting", "request.enqueue", "request.refused"}

\* The writing thread will send whatever joins the queue.
Open == wr = "loop" /\ isConnected /\ ~isDisconnecting /\ ~LogoutWaits

\* A session has begun whose m_IsConnected is still to be set, and will be
\* unless the server refuses the Login.
Entering ==
  \/ wr = "start" \/ rd \in {"poll", "connected", "connecting"}
  \/ rd \in {"recv", "handler"} /\ ~isConnected /\ (Unread \/ latestLogin = "Success")

(* What the flags mean: m_IsConnected is no older than its session, and    *)
(* nobody logs out of a session before the client has been told of it.     *)
FlagsMean ==
  /\ isConnected =>
       /\ wr \in {"loop", "join", "connected"} /\ latestLogin = "Success"
       /\ rd \in {"connecting", "recv", "handler", "last.handler", "exited"}
  /\ rd = "handler" => isConnected
  /\ rd = "last.handler" => wr = "join" /\ isDisconnecting
  /\ Entering => wr \in {"start", "loop"} /\ ~isDisconnecting /\ ~LogoutWaits

\* The Logout of this session is in the queue, or has been sent.
Sent ==
  \/ wr \in {"start", "loop"} /\ LogoutWaits
  \/ wr \in {"join", "connected", "disconnecting"}

(* A Logout is sent once, under m_IsDisconnecting: whoever claims it finds *)
(* the flag clear, and whoever has claimed it has it to enqueue.           *)
Marked(t) ==
  /\ pc[t] = "logout.claim" => ~isDisconnecting
  /\ pc[t] = "logout.enqueue" => isDisconnecting /\ ~Sent
LogoutMarked(a) == (Sent => isDisconnecting) /\ Marked(a) /\ Marked(Reader)

(* m_IsDisconnecting has its Logout behind it.                             *)
LogoutBehind(a) ==
  isDisconnecting /\ view # "gone" =>
    pc[a] = "logout.enqueue" \/ pc[Reader] = "logout.enqueue" \/ Sent

\* Caller t is in a Logout that the client has called.
Asks(t) == by[t] = "client" /\ pc[t] \in LogoutLabels

(* Where the session stands when the client has been told what it has.     *)
Standing(a) ==
  /\ view = "out" => Over /\ pc[a] # "login.spawn"
  /\ view = "pending" => Pending \/ pc[a] = "login.spawn"
  /\ view = "in" => wr = "loop" /\ ~LogoutWaits
  /\ view \in {"in", "leaving"} => isConnected /\ rd \in {"recv", "handler"}
  /\ view = "leaving" => isDisconnecting
  /\ view = "gone" => ~Pending /\ pc[a] \in LogoutLabels \cup CleanupLabels \cup {"idle"}

(* What a caller knows by having got as far as label in a method that it   *)
(* runs for who.                                                           *)
At(label, who) ==
  /\ label \in {"request.connected", "request.refused"} => view \in {"out", "pending", "in"}
  /\ label = "request.connected" /\ view = "out" => ~isConnected
  /\ label \in {"request.disconnecting", "request.enqueue"} =>
       view \in {"pending", "in"} /\ Open
  /\ label \notin LogoutLabels => who = "client"
  /\ label \in LogoutLabels /\ who = "client" =>
       /\ view = "in"
       /\ isDisconnecting <=> label = "logout.enqueue"
       /\ label \notin {"logout.connecting", "logout.refused"}
  /\ label \in LogoutLabels /\ who = "cleanup" => view = "gone"
  /\ label \in CleanupLabels => view = "gone"
  /\ label \in {"set.connected", "set.refused"} => view \in {"out", "in", "leaving"}
  /\ label \in {"set.connecting", "set.apply"} => view = "out" /\ ~isConnected
  /\ label \in {"login.claim", "login.join"} => view \in {"out", "in", "leaving"}
  /\ label \in {"login.clear", "login.connect", "login.enqueue"} => view = "out"
  /\ label = "login.spawn" => view = "pending"

(* And what a handler knows.  The session stands still while its reading   *)
(* thread runs a handler, but for what the client's thread does.           *)
HandlerAt(label) ==
  /\ rd \in {"handler", "last.handler"}
  /\ label \in {"logout.claim", "logout.enqueue", "request.enqueue"} => rd = "handler"
  /\ label \in {"set.connecting", "set.apply", "logout.connecting"} => rd = "last.handler"
  /\ label \in {"set.connecting", "set.apply"} => ~isConnected
  /\ label \in RequestLabels /\ rd = "handler" => view # "gone"
  /\ label \in {"request.enqueue", "logout.enqueue"} => view = "in"
  /\ label \in LogoutLabels /\ rd = "handler" => view \in {"in", "leaving"}
  /\ label = "logout.refused" => isDisconnecting
ReaderAt == by[Reader] = "client" /\ pc[Reader] # "idle" => HandlerAt(pc[Reader])

\* The client's thread and its handlers do not both make requests and log out.
Sides(a) ==
  /\ pc[a] \in RequestLabels \/ Asks(a) => ~HandlersLead
  /\ pc[Reader] \in RequestLabels \/ Asks(Reader) => HandlersLead

(* All of it.                                                              *)
Core(a) ==
  fault = "none" =>
    /\ FlagsMean /\ LogoutMarked(a) /\ LogoutBehind(a)
    /\ Standing(a) /\ At(pc[a], by[a]) /\ Sides(a) /\ ReaderAt

(* A step that touches nothing that Core speaks of but the places of the   *)
(* callers and what the client is told.                                    *)
Steady ==
  /\ UNCHANGED <<isConnected, isDisconnecting, wr, rd, latestLogin, fault>>
  /\ (Unread' <=> Unread) /\ (LogoutWaits' <=> LogoutWaits)

\* Only a moves: to label, where it runs for who.
Moves(a, label, who) ==
  /\ pc'[a] = label /\ by'[a] = who
  /\ pc'[Reader] = pc[Reader] /\ by'[Reader] = by[Reader]

\* No Logout that anyone has claimed or will enqueue comes or goes.
Passes(t) ==
  \/ pc'[t] = pc[t]
  \/ /\ "logout.enqueue" \notin {pc[t], pc'[t]}
     /\ pc'[t] = "logout.claim" => ~isDisconnecting

LEMMA SteadyFlags ==
  ASSUME NEW a, FlagsMean, LogoutMarked(a), LogoutBehind(a), Steady,
         Passes(a), Passes(Reader), view = "gone" => view' = "gone"
  PROVE  FlagsMean' /\ LogoutMarked(a)' /\ LogoutBehind(a)'
<1>1. FlagsMean'
  BY DEF Steady, FlagsMean, Entering
<1>2. Sent' <=> Sent
  BY DEF Steady, Sent
<1>3. LogoutBehind(a)'
  BY <1>2 DEF Steady, LogoutBehind, Passes
<1>4. LogoutMarked(a)'
  BY <1>2 DEF Steady, LogoutMarked, Marked, Passes
<1> QED
  BY <1>1, <1>3, <1>4

LEMMA StepCore ==
  ASSUME NEW a, Core(a), fault = "none", Steady, UNCHANGED view,
         NEW label, NEW who, Moves(a, label, who),
         pc[a] \notin {"logout.enqueue", "login.spawn"},
         label \notin {"logout.enqueue", "login.spawn"},
         label = "logout.claim" => ~isDisconnecting,
         view = "gone" => label \in LogoutLabels \cup CleanupLabels \cup {"idle"},
         label \in RequestLabels \/ (label \in LogoutLabels /\ who = "client")
           => ~HandlersLead,
         At(label, who)
  PROVE  Core(a)'
<1>1. FlagsMean' /\ LogoutMarked(a)' /\ LogoutBehind(a)'
  BY SteadyFlags DEF Core, Moves, Passes
<1>2. Standing(a)'
  BY DEF Core, Standing, Steady, Moves, Over, Pending
<1>3. At(label, who)'
  BY DEF At, Steady, Open
<1>4. Sides(a)'
  BY DEF Core, Sides, Moves, Asks
<1>5. ReaderAt'
  BY DEF Core, ReaderAt, HandlerAt, Moves, Steady
<1> QED
  BY <1>1, <1>2, <1>3, <1>4, <1>5 DEF Core, Moves, Steady

(* What the Logout of handleLoginReply and the one of a handler find.      *)
LEMMA ReaderLogout ==
  ASSUME TypeOK, Lifecycle, RefusedLogin, NEW a \in Apps, Core(a), fault = "none",
         pc[Reader] \in {"logout.claim", "logout.enqueue"}
  PROVE  \/ by[Reader] = "handler" /\ rd = "recv" /\ ~isConnected /\ ~Entering
            /\ view = "pending"
         \/ Asks(Reader) /\ HandlersLead /\ rd = "handler" /\ isConnected /\ ~Entering
            /\ view = "in"
<1>1. by[Reader] \in {"client", "handler"} /\ view \in Views
  BY DEF Lifecycle, TypeOK, CallersOK, ClientOK, Callers
<1>2. CASE by[Reader] = "handler"
  <2>1. rd = "recv" /\ ~isConnected /\ ~Unread /\ latestLogin # "Success"
    BY <1>2 DEF RefusedLogin
  <2>2. view = "pending"
    BY <1>1, <2>1 DEF Core, Standing, Over, Pending, Views
  <2>3. ~Entering
    BY <2>1 DEF Entering, Lifecycle
  <2> QED
    BY <1>2, <2>1, <2>2, <2>3
<1>3. CASE by[Reader] = "client"
  <2>1. Asks(Reader) /\ HandlersLead
    BY <1>3 DEF Asks, Core, Sides, LogoutLabels
  <2>2. rd = "handler" /\ view = "in"
    BY <1>3 DEF Core, ReaderAt, HandlerAt, LogoutLabels, Standing, LogoutMarked, Marked
  <2>3. isConnected /\ ~Entering
    BY <2>2 DEF Core, FlagsMean, Entering, Lifecycle
  <2> QED
    BY <2>1, <2>2, <2>3
<1> QED
  BY <1>1, <1>2, <1>3

(* A client that is logged in has m_IsDisconnecting clear, but for a caller *)
(* that is about to enqueue its Logout.                                    *)
LEMMA Unclaimed ==
  ASSUME TypeOK, Lifecycle, RefusedLogin, NEW a \in Apps, Core(a), fault = "none",
         view = "in", pc[a] # "logout.enqueue",
         pc[Reader] = "logout.enqueue" => ~HandlersLead
  PROVE  ~isDisconnecting
<1>1. pc[Reader] # "logout.enqueue"
  BY ReaderLogout
<1>2. ~Sent
  BY DEF Core, Standing, Sent
<1> QED
  BY <1>1, <1>2 DEF Core, LogoutBehind

LEMMA CallCore ==
  ASSUME CarefulClient, TypeOK, Lifecycle, RefusedLogin, NEW a \in Apps, Core(a),
         fault = "none", Call(a)
  PROVE  Core(a)'
<1>1. /\ pc \in [Callers -> Labels] /\ a \in Callers /\ a # Reader
      /\ Reader \in Callers /\ view \in Views
  BY SessionAssumption DEF TypeOK, CallersOK, ClientOK, Callers
<1>2. ASSUME NEW method, NEW first, Begin(a, method, first)
      PROVE  /\ pc[a] = "idle" /\ Moves(a, first, by[a]) /\ Steady
             /\ view # "gone" /\ view \in AppMay[method]
             /\ view' = IF method = "Cleanup" THEN "gone" ELSE view
  BY <1>1, <1>2
  DEF Begin, Goto, flags, threads, net, Steady, Moves, Unread, LogoutWaits, Has
<1>3. by[a] = "client" \/ pc[a] # "idle"
  BY DEF Core, At, LogoutLabels
<1>4. ASSUME NEW method \in Methods \ {"Cleanup"}, NEW first, Begin(a, method, first),
             first \notin {"login.spawn", "logout.claim", "logout.enqueue"},
             first \in RequestLabels \cup LogoutLabels => ~HandlersLead,
             At(first, "client")
      PROVE  Core(a)'
  BY <1>2, <1>3, <1>4, StepCore DEF Methods
<1>5. CASE Begin(a, "Login", "login.connecting")
  BY <1>4, <1>5 DEF At, LogoutLabels, CleanupLabels, RequestLabels, Methods
<1>6. CASE Begin(a, "Request", "request.connected")
  <2>1. view \in {"pending", "in"} /\ ~HandlersLead
    BY <1>2, <1>6 DEF CarefulClient, HandlersLead
  <2> QED
    BY <1>4, <1>6, <2>1 DEF At, LogoutLabels, CleanupLabels, Methods
<1>7. CASE Begin(a, "Set", "set.connected")
  <2>1. view \in {"out", "in", "leaving"}
    BY <1>2, <1>7 DEF CarefulClient
  <2> QED
    BY <1>4, <1>7, <2>1 DEF At, LogoutLabels, CleanupLabels, RequestLabels, Methods
<1>8. CASE Begin(a, "Logout", "logout.connected")
  <2>1. view = "in" /\ ~HandlersLead /\ pc[a] = "idle"
    BY <1>2, <1>8 DEF CarefulClient, HandlersLead
  <2>2. ~isDisconnecting
    BY <2>1, Unclaimed
  <2>3. At("logout.connected", "client")
    BY <2>1, <2>2 DEF At, LogoutLabels, CleanupLabels
  <2> QED
    BY <1>4, <1>8, <2>1, <2>3 DEF Methods
<1>9. CASE Begin(a, "Cleanup", "cleanup.connected")
  <2>1. view \in {"out", "in", "leaving"} /\ view' = "gone"
    BY <1>2, <1>9 DEF CarefulClient
  <2>2. Moves(a, "cleanup.connected", "client") /\ Steady /\ pc[a] = "idle"
    BY <1>2, <1>3, <1>9
  <2>3. FlagsMean' /\ LogoutMarked(a)' /\ LogoutBehind(a)'
    BY <2>1, <2>2, SteadyFlags DEF Core, Moves, Passes
  <2>4. ~Pending
    BY <2>1 DEF Core, Standing, FlagsMean, Pending, Over
  <2>5. Standing(a)' /\ At("cleanup.connected", "client")'
    BY <2>1, <2>2, <2>4
    DEF Standing, At, Pending, Steady, Moves, LogoutLabels, CleanupLabels
  <2>6. pc[Reader] \in RequestLabels \/ Asks(Reader) => rd # "handler"
    <3>1. HandlersLead => view = "out"
      BY <1>2, <1>9 DEF HandlersLead
    <3> QED
      BY <3>1 DEF Core, Sides, Standing, Over
  <2>7. Sides(a)' /\ ReaderAt'
    BY <2>1, <2>2, <2>6
    DEF Core, Sides, Moves, Asks, ReaderAt, HandlerAt, Steady, RequestLabels, LogoutLabels
  <2> QED
    BY <2>2, <2>3, <2>5, <2>7 DEF Core, Moves
<1> QED
  BY <1>5, <1>6, <1>7, <1>8, <1>9 DEF Call

(* Where a branch leads: out of no Logout and into none, into no request,  *)
(* and never straight to a store or an Enqueue that Core speaks of.        *)
Way(from, to) ==
  /\ to \notin {"logout.enqueue", "login.spawn"}
  /\ to \in RequestLabels => from \in RequestLabels
  /\ to \in LogoutLabels <=> from \in LogoutLabels

LEMMA BranchCore ==
  ASSUME TypeOK, NEW a \in Apps, Core(a), fault = "none",
         NEW from, NEW flag, NEW yes, NEW no, Branch(a, from, flag, yes, no),
         from \notin {"logout.enqueue", "login.spawn"}, Way(from, yes), Way(from, no),
         yes # "logout.claim", no = "logout.claim" /\ ~flag => ~isDisconnecting,
         view = "gone" => {yes, no} \subseteq LogoutLabels \cup CleanupLabels \cup {"idle"},
         IF flag THEN At(yes, by[a]) ELSE At(no, by[a])
  PROVE  Core(a)'
<1> DEFINE label == IF flag THEN yes ELSE no
<1>1. /\ pc[a] = from /\ Moves(a, label, by[a]) /\ Steady /\ UNCHANGED view
  BY SessionAssumption
  DEF Branch, Goto, Moves, Steady, TypeOK, CallersOK, Callers, flags, threads, net, client,
      Unread, LogoutWaits, Has
<1>2. /\ Way(from, label) /\ At(label, by[a])
      /\ view = "gone" => label \in LogoutLabels \cup CleanupLabels \cup {"idle"}
      /\ label = "logout.claim" => ~isDisconnecting
  BY <1>1
<1> HIDE DEF label
<1>3. label \in RequestLabels \/ (label \in LogoutLabels /\ by[a] = "client") => ~HandlersLead
  BY <1>1, <1>2 DEF Core, Sides, Asks, Way
<1> QED
  BY <1>1, <1>2, <1>3, StepCore DEF Way

LEMMA Ways ==
  /\ Way("login.connecting", "login.refused") /\ Way("login.connecting", "login.connected")
  /\ Way("login.connected", "login.disconnecting") /\ Way("login.connected", "login.claim")
  /\ Way("login.disconnecting", "login.claim") /\ Way("login.disconnecting", "login.refused")
  /\ Way("logout.connected", "logout.disconnecting")
  /\ Way("logout.connected", "logout.connecting")
  /\ Way("logout.connecting", "logout.disconnecting")
  /\ Way("logout.connecting", "logout.refused")
  /\ Way("logout.disconnecting", "logout.refused") /\ Way("logout.disconnecting", "logout.claim")
  /\ Way("request.connected", "request.disconnecting")
  /\ Way("request.connected", "request.refused")
  /\ Way("request.disconnecting", "request.refused")
  /\ Way("request.disconnecting", "request.enqueue")
  /\ Way("set.connected", "set.refused") /\ Way("set.connected", "set.connecting")
  /\ Way("set.connecting", "set.refused") /\ Way("set.connecting", "set.apply")
  /\ Way("cleanup.connected", "cleanup.logout")
  /\ Way("cleanup.connected", "cleanup.connecting")
  /\ Way("cleanup.connecting", "cleanup.logout") /\ Way("cleanup.connecting", "cleanup.join")
BY DEF Way, RequestLabels, LogoutLabels

LEMMA GuardCore ==
  ASSUME TypeOK, Attempt, OwnCalls, Lifecycle, RefusedLogin, NEW a \in Apps, Core(a),
         fault = "none",
         LoginGuard(a) \/ LogoutGuard(a) \/ RequestGuard(a) \/ SetGuard(a) \/ CleanupGuard(a)
  PROVE  Core(a)'
<1>1. /\ by[a] \in {"client", "cleanup"} /\ view \in Views
      /\ At(pc[a], by[a]) /\ Standing(a) /\ FlagsMean
  BY DEF Core, OwnCalls, TypeOK, CallersOK, Callers, ClientOK
<1>2. CASE LoginGuard(a)
  <2>1. CASE Branch(a, "login.connecting", isConnecting, "login.refused", "login.connected")
    <3>1. pc[a] = "login.connecting"
      BY <2>1 DEF Branch
    <3>2. view # "gone" /\ At("login.refused", by[a]) /\ At("login.connected", by[a])
      BY <1>1, <3>1 DEF At, Standing, LogoutLabels, CleanupLabels
    <3> QED
      BY <2>1, <3>2, BranchCore, Ways DEF LogoutLabels
  <2>2. CASE Branch(a, "login.connected", isConnected, "login.disconnecting", "login.claim")
    <3>1. pc[a] = "login.connected"
      BY <2>2 DEF Branch
    <3>2. view # "gone" /\ At("login.disconnecting", by[a])
      BY <1>1, <3>1 DEF At, Standing, LogoutLabels, CleanupLabels
    <3>3. ~isConnected => At("login.claim", by[a])
      <4>1. ~Pending
        BY <3>1 DEF Attempt, Opening
      <4> QED
        BY <1>1, <3>1, <4>1 DEF At, Standing, Views, LogoutLabels, CleanupLabels
    <3> QED
      BY <2>2, <3>2, <3>3, BranchCore, Ways DEF LogoutLabels
  <2>3. CASE Branch(a, "login.disconnecting", isDisconnecting, "login.claim", "login.refused")
    <3>1. pc[a] = "login.disconnecting"
      BY <2>3 DEF Branch
    <3>2. view # "gone" /\ At("login.refused", by[a])
      BY <1>1, <3>1 DEF At, Standing, LogoutLabels, CleanupLabels
    <3>3. isDisconnecting => At("login.claim", by[a])
      <4>1. ~Pending
        BY <3>1 DEF Attempt, Opening
      <4> QED
        BY <1>1, <3>1, <4>1 DEF At, Standing, Views, LogoutLabels, CleanupLabels
    <3> QED
      BY <2>3, <3>2, <3>3, BranchCore, Ways DEF LogoutLabels
  <2> QED
    BY <1>2, <2>1, <2>2, <2>3 DEF LoginGuard
<1>3. CASE LogoutGuard(a)
  <2>1. /\ pc[a] \in {"logout.connected", "logout.connecting", "logout.disconnecting"}
        /\ view = "in" => by[a] = "client" /\ isConnected /\ ~isDisconnecting
        /\ view # "in" => by[a] = "cleanup" /\ view = "gone"
    BY <1>1, <1>3 DEF LogoutGuard, Branch, At, Standing, LogoutLabels
  <2>2. /\ view = "in" =>
             At("logout.disconnecting", by[a]) /\ At("logout.claim", by[a])
        /\ view # "in" =>
             \A label \in LogoutLabels : At(label, by[a])
    BY <1>1, <2>1 DEF At, LogoutLabels, CleanupLabels
  <2>3. pc[a] = "logout.connecting" => view # "in"
    BY <1>1, <2>1 DEF At, LogoutLabels
  <2>4. CASE Branch(a, "logout.connected", isConnected, "logout.disconnecting", "logout.connecting")
    BY <2>1, <2>2, <2>4, BranchCore, Ways DEF LogoutLabels
  <2>5. CASE Branch(a, "logout.connecting", isConnecting, "logout.disconnecting", "logout.refused")
    <3>1. view # "in"
      BY <2>3, <2>5 DEF Branch
    <3> QED
      BY <3>1, <2>1, <2>2, <2>5, BranchCore, Ways DEF LogoutLabels
  <2>6. CASE Branch(a, "logout.disconnecting", isDisconnecting, "logout.refused", "logout.claim")
    BY <2>1, <2>2, <2>6, BranchCore, Ways DEF LogoutLabels
  <2> QED
    BY <1>3, <2>4, <2>5, <2>6 DEF LogoutGuard
<1>4. CASE RequestGuard(a)
  <2>1. /\ pc[a] \in {"request.connected", "request.disconnecting"} /\ by[a] = "client"
        /\ view \in {"out", "pending", "in"}
    BY <1>1, <1>4 DEF RequestGuard, Branch, At, LogoutLabels
  <2>2. At("request.refused", by[a])
    BY <2>1 DEF At, LogoutLabels, CleanupLabels
  <2>3. CASE Branch(a, "request.connected", isConnected, "request.disconnecting", "request.refused")
    <3>1. isConnected => view \in {"pending", "in"} /\ Open
      <4>1. pc[a] = "request.connected" /\ ~HandlersLead
        BY <2>3 DEF Branch, Core, Sides, RequestLabels
      <4>2. view = "in" => ~isDisconnecting
        BY <4>1, Unclaimed
      <4> QED
        BY <1>1, <2>1, <4>1, <4>2 DEF At, Standing, Pending, FlagsMean, Entering, Open
    <3>2. isConnected => At("request.disconnecting", by[a])
      BY <2>1, <3>1 DEF At, LogoutLabels, CleanupLabels
    <3> QED
      BY <2>1, <2>2, <2>3, <3>2, BranchCore, Ways DEF LogoutLabels
  <2>4. CASE Branch(a, "request.disconnecting", isDisconnecting, "request.refused", "request.enqueue")
    <3>1. At("request.enqueue", by[a])
      BY <1>1, <2>1, <2>4 DEF Branch, At, LogoutLabels, CleanupLabels
    <3> QED
      BY <2>1, <2>2, <2>4, <3>1, BranchCore, Ways DEF LogoutLabels
  <2> QED
    BY <1>4, <2>3, <2>4 DEF RequestGuard
<1>5. CASE SetGuard(a)
  <2>1. /\ pc[a] \in {"set.connected", "set.connecting"} /\ by[a] = "client"
        /\ view \in {"out", "in", "leaving"}
    BY <1>1, <1>5 DEF SetGuard, Branch, At, LogoutLabels
  <2>2. At("set.refused", by[a])
    BY <2>1 DEF At, LogoutLabels, CleanupLabels
  <2>3. CASE Branch(a, "set.connected", isConnected, "set.refused", "set.connecting")
    <3>1. ~isConnected => At("set.connecting", by[a])
      BY <1>1, <2>1 DEF At, Standing, LogoutLabels, CleanupLabels
    <3> QED
      BY <2>1, <2>2, <2>3, <3>1, BranchCore, Ways DEF LogoutLabels
  <2>4. CASE Branch(a, "set.connecting", isConnecting, "set.refused", "set.apply")
    <3>1. At("set.apply", by[a])
      BY <1>1, <2>1, <2>4 DEF Branch, At, LogoutLabels, CleanupLabels
    <3> QED
      BY <2>1, <2>2, <2>4, <3>1, BranchCore, Ways DEF LogoutLabels
  <2> QED
    BY <1>5, <2>3, <2>4 DEF SetGuard
<1>6. CASE CleanupGuard(a)
  <2>1. /\ pc[a] \in {"cleanup.connected", "cleanup.connecting"} /\ by[a] = "client"
        /\ view = "gone"
    BY <1>1, <1>6 DEF CleanupGuard, Branch, At, LogoutLabels, CleanupLabels
  <2>2. \A label \in CleanupLabels : At(label, by[a])
    BY <2>1 DEF At, LogoutLabels, CleanupLabels
  <2>3. CASE Branch(a, "cleanup.connected", isConnected, "cleanup.logout", "cleanup.connecting")
    BY <2>1, <2>2, <2>3, BranchCore, Ways DEF LogoutLabels, CleanupLabels
  <2>4. CASE Branch(a, "cleanup.connecting", isConnecting, "cleanup.logout", "cleanup.join")
    BY <2>1, <2>2, <2>4, BranchCore, Ways DEF LogoutLabels, CleanupLabels
  <2> QED
    BY <1>6, <2>3, <2>4 DEF CleanupGuard
<1> QED
  BY <1>2, <1>3, <1>4, <1>5, <1>6

(* A method's last step, and those between that set no flag but            *)
(* m_IsConnecting.                                                         *)
Returns(t) ==
  \/ Refuse(t) \/ LoginBadArguments(t) \/ LoginClaim(t) \/ ConnectThrows(t)
  \/ LoginAssign(t) \/ RequestEnqueue(t) \/ RequestBadArguments(t) \/ SetApply(t)
  \/ CleanupLogout(t)

LEMMA ReturnSteady ==
  ASSUME TypeOK, NEW t \in Callers, Returns(t) PROVE Steady /\ UNCHANGED view
<1>1. ASSUME ~RequestEnqueue(t) PROVE UNCHANGED <<queue, server, toClient>>
  BY <1>1
  DEF Returns, Refuse, LoginBadArguments, LoginClaim, ConnectThrows, LoginAssign,
      RequestBadArguments, SetApply, CleanupLogout, net
<1>2. RequestEnqueue(t) => UNCHANGED <<server, toClient>> /\ (LogoutWaits' <=> LogoutWaits)
  <2>1. ASSUME RequestEnqueue(t) PROVE LogoutWaits' <=> LogoutWaits
    <3>1. PICK type \in Requests : Enqueue(type, 0)
      BY <2>1 DEF RequestEnqueue
    <3>2. type \in EntryTypes /\ "Logout" \in EntryTypes \ {type}
      BY SessionAssumption DEF EntryTypes, RequestTypes
    <3> QED
      BY <3>1, <3>2, EnqueueOther DEF LogoutWaits
  <2> QED
    BY <2>1 DEF RequestEnqueue, net
<1>3. UNCHANGED <<isConnected, isDisconnecting, wr, rd, latestLogin, fault, view>>
  BY DEF Returns, Refuse, LoginBadArguments, LoginClaim, ConnectThrows, LoginAssign,
         RequestEnqueue, RequestBadArguments, SetApply, CleanupLogout, flags, threads, client
<1>4. (Unread' <=> Unread) /\ (LogoutWaits' <=> LogoutWaits)
  BY <1>1, <1>2 DEF Unread, LogoutWaits, Has
<1> QED
  BY <1>3, <1>4 DEF Steady

LEMMA ReturnCore ==
  ASSUME TypeOK, OwnCalls, NEW a \in Apps, Core(a), fault = "none", Returns(a)
  PROVE  Core(a)'
<1>1. /\ by[a] \in {"client", "cleanup"} /\ view \in Views
      /\ At(pc[a], by[a]) /\ Standing(a)
      /\ pc \in [Callers -> Labels] /\ by \in [Callers -> {"client", "cleanup", "handler"}]
      /\ a \in Callers /\ Reader \in Callers /\ a # Reader
  BY SessionAssumption DEF Core, OwnCalls, TypeOK, CallersOK, Callers, ClientOK
<1>2. UNCHANGED view
  BY <1>1, ReturnSteady
<1>3. Steady
  BY <1>1, ReturnSteady
<1>4. CASE Refuse(a) /\ pc[a] = "logout.refused" /\ by[a] = "cleanup"
  <2>1. Moves(a, "cleanup.join", "client") /\ view = "gone"
    BY <1>1, <1>4 DEF Refuse, Goto, Moves, At, LogoutLabels
  <2>2. At("cleanup.join", "client")
    BY <2>1 DEF At, LogoutLabels, CleanupLabels
  <2> QED
    BY <1>2, <1>3, <1>4, <2>1, <2>2, StepCore
    DEF CleanupLabels, RequestLabels, LogoutLabels
<1>5. CASE CleanupLogout(a)
  <2>1. Moves(a, "logout.connected", "cleanup") /\ view = "gone" /\ pc[a] = "cleanup.logout"
    BY <1>1, <1>5 DEF CleanupLogout, Goto, Moves, At, CleanupLabels
  <2>2. At("logout.connected", "cleanup")
    BY <2>1 DEF At, LogoutLabels, CleanupLabels
  <2> QED
    BY <1>2, <1>3, <2>1, <2>2, StepCore DEF LogoutLabels, RequestLabels
<1>6. CASE LoginBadArguments(a) \/ LoginClaim(a)
  <2>1. PICK label \in {"login.refused", "login.join"} : Goto(a, label)
    BY <1>6 DEF LoginBadArguments, LoginClaim
  <2>2. pc[a] = "login.claim" /\ UNCHANGED by /\ by[a] = "client"
    BY <1>1, <1>6 DEF LoginBadArguments, LoginClaim, At, LogoutLabels
  <2>3. Moves(a, label, "client")
    BY <1>1, <2>1, <2>2 DEF Goto, Moves
  <2>4. view \in {"out", "in", "leaving"} /\ At(label, "client")
    BY <1>1, <2>1, <2>2 DEF At, LogoutLabels, CleanupLabels
  <2> QED
    BY <1>2, <1>3, <2>1, <2>2, <2>3, <2>4, StepCore DEF LogoutLabels, RequestLabels
<1>7. CASE ~(\/ Refuse(a) /\ pc[a] = "logout.refused" /\ by[a] = "cleanup"
             \/ CleanupLogout(a) \/ LoginBadArguments(a) \/ LoginClaim(a))
  <2>1. Goto(a, "idle") /\ pc[a] \notin {"logout.enqueue", "login.spawn", "idle"}
        /\ (pc[a] \in LogoutLabels => pc[a] = "logout.refused")
    BY <1>7
    DEF Returns, Refuse, Refusals, ConnectThrows, LoginAssign, RequestEnqueue,
        RequestBadArguments, SetApply, LogoutLabels
  <2>2. pc[a] \notin LogoutLabels
    BY <1>1, <1>7, <2>1
    DEF Returns, Refuse, ConnectThrows, LoginAssign, RequestEnqueue, RequestBadArguments,
        SetApply, At, LogoutLabels
  <2>3. by[a] = "client"
    BY <1>1, <2>2 DEF At
  <2>4. Moves(a, "idle", "client")
    <3>1. by' = by \/ by' = [by EXCEPT ![a] = "client"]
      BY <1>7
      DEF Returns, Refuse, ConnectThrows, LoginAssign, RequestEnqueue, RequestBadArguments,
          SetApply
    <3> QED
      BY <1>1, <2>1, <2>3, <3>1 DEF Goto, Moves
  <2>5. At("idle", "client")
    BY DEF At, LogoutLabels, CleanupLabels
  <2> QED
    BY <1>2, <1>3, <2>1, <2>2, <2>4, <2>5, StepCore DEF RequestLabels, LogoutLabels
<1> QED
  BY <1>4, <1>5, <1>6, <1>7

(* No two callers log out of a session, one past the flag's test.          *)
LEMMA OneLogout ==
  ASSUME TypeOK, OwnCalls, Lifecycle, RefusedLogin, NEW a \in Apps, Core(a), fault = "none",
         pc[Reader] \in {"logout.claim", "logout.enqueue"}
  PROVE  /\ pc[a] \notin {"logout.claim", "logout.enqueue"}
         /\ ~Asks(a)
         /\ pc[a] \notin {"request.disconnecting", "request.enqueue"}
<1>1. by[a] \in {"client", "cleanup"} /\ At(pc[a], by[a])
  BY DEF Core, OwnCalls, TypeOK, CallersOK, Callers
<1>2. /\ view \in {"pending", "in"}
      /\ view = "in" => HandlersLead
      /\ view = "pending" => ~isConnected
  BY ReaderLogout
<1>3. ~Asks(a)
  BY <1>2 DEF Core, At, Sides, Asks
<1>4. pc[a] \notin {"logout.claim", "logout.enqueue"}
  BY <1>1, <1>2, <1>3 DEF At, Asks, LogoutLabels
<1>5. pc[a] \notin {"request.disconnecting", "request.enqueue"}
  BY <1>1, <1>2 DEF At, Open, Core, Sides, RequestLabels
<1> QED
  BY <1>3, <1>4, <1>5

\* The Logout joins the queue.
LEMMA LogoutEnqueued ==
  ASSUME TypeOK, NEW t, LogoutEnqueue(t) PROVE LogoutWaits'
<1> DEFINE x == [type |-> "Logout", spot |-> 0, session |-> session]
<1>1. queue \in Seq(Entries) /\ x \in Entries /\ queue' = Append(queue, x) /\ x.type = "Logout"
  BY DEF LogoutEnqueue, TypeOK, ClientOK, Entries, Enqueue
<1> HIDE DEF x
<1> QED
  BY <1>1, AppendHas DEF LogoutWaits

(* Only the session's end takes the writing thread from the loop.          *)
LEMMA LogoutCore ==
  ASSUME TypeOK, OwnCalls, Lifecycle, RefusedLogin, NEW a \in Apps, Core(a), fault = "none",
         LogoutClaim(a) \/ LogoutEnqueue(a)
  PROVE  Core(a)'
<1>1. /\ by[a] \in {"client", "cleanup"} /\ view \in Views
      /\ At(pc[a], by[a]) /\ Standing(a) /\ FlagsMean /\ LogoutBehind(a)
      /\ LogoutMarked(a)
      /\ pc \in [Callers -> Labels] /\ by \in [Callers -> {"client", "cleanup", "handler"}]
      /\ a \in Callers /\ Reader \in Callers /\ a # Reader
  BY SessionAssumption DEF Core, OwnCalls, TypeOK, CallersOK, Callers, ClientOK
<1>2. /\ pc[a] \in {"logout.claim", "logout.enqueue"}
      /\ isDisconnecting => isDisconnecting'
      /\ UNCHANGED <<isConnected, wr, rd, latestLogin, fault>> /\ (Unread' <=> Unread)
      /\ pc'[Reader] = pc[Reader] /\ by'[Reader] = by[Reader]
  BY <1>1 DEF LogoutClaim, LogoutEnqueue, Goto, flags, threads, net, client, Unread, Has
<1>3. /\ by[a] = "client" => view = "in" /\ wr = "loop" /\ isConnected
      /\ by[a] = "cleanup" => view = "gone"
      /\ pc[Reader] \notin {"logout.claim", "logout.enqueue"}
  BY <1>1, <1>2, OneLogout DEF At, Standing, LogoutLabels
<1>4. ~Entering
  BY <1>1, <1>3 DEF Standing, Pending, Entering, FlagsMean
<1>5. FlagsMean'
  BY <1>1, <1>2, <1>4 DEF FlagsMean, Entering
<1>6. CASE LogoutClaim(a)
  <2>1. /\ pc[a] = "logout.claim" /\ pc'[a] = "logout.enqueue" /\ by'[a] = by[a]
        /\ isDisconnecting' /\ (LogoutWaits' <=> LogoutWaits) /\ UNCHANGED view
    BY <1>1, <1>6 DEF LogoutClaim, Goto, LogoutWaits, Has, client
  <2>2. LogoutBehind(a)' /\ LogoutMarked(a)'
    <3>1. ~Sent /\ ~Sent'
      BY <1>1, <1>2, <2>1 DEF LogoutMarked, Marked, Sent
    <3> QED
      BY <1>2, <1>3, <2>1, <3>1 DEF LogoutBehind, LogoutMarked, Marked
  <2>3. Standing(a)'
    BY <1>1, <1>2, <1>3, <2>1 DEF Standing, Pending, LogoutLabels
  <2>4. At(pc[a], by[a])'
    BY <1>1, <1>2, <1>3, <2>1 DEF At, LogoutLabels, CleanupLabels
  <2>5. Sides(a)' /\ ReaderAt'
    BY <1>2, <2>1
    DEF Core, Sides, Asks, ReaderAt, HandlerAt, RequestLabels, LogoutLabels
  <2> QED
    BY <1>2, <1>5, <2>2, <2>3, <2>4, <2>5 DEF Core
<1>7. CASE LogoutEnqueue(a)
  <2>1. /\ pc[a] = "logout.enqueue" /\ by'[a] = "client" /\ UNCHANGED isDisconnecting
        /\ pc'[a] = IF by[a] = "cleanup" THEN "cleanup.join" ELSE "idle"
        /\ view' = IF by[a] = "client" THEN "leaving" ELSE view
    BY <1>1, <1>3, <1>7 DEF LogoutEnqueue, Goto, flags
  <2>2. LogoutWaits' /\ isDisconnecting
    BY <1>1, <1>7, <2>1, LogoutEnqueued DEF LogoutMarked, Marked
  <2>3. LogoutBehind(a)' /\ LogoutMarked(a)'
    BY <1>1, <1>2, <1>3, <2>1, <2>2 DEF LogoutBehind, LogoutMarked, Marked, Sent
  <2>4. Standing(a)'
    BY <1>1, <1>2, <1>3, <2>1, <2>2 DEF Standing, Pending, CleanupLabels
  <2>5. At(pc[a], by[a])'
    BY <1>1, <1>2, <1>3, <2>1 DEF At, LogoutLabels, CleanupLabels
  <2>6. Sides(a)'
    BY <1>2, <2>1 DEF Core, Sides, Asks, RequestLabels, LogoutLabels
  <2>7. ReaderAt'
    <3>1. CASE UNCHANGED view
      BY <1>2, <2>1, <3>1 DEF Core, ReaderAt, HandlerAt
    <3>2. CASE by[a] = "client"
      <4>1. pc[Reader] \notin RequestLabels /\ ~Asks(Reader)
        BY <2>1, <3>2 DEF Core, Sides, Asks, LogoutLabels
      <4> QED
        BY <1>2, <2>1, <4>1 DEF Core, ReaderAt, HandlerAt, Asks, RequestLabels, LogoutLabels
    <3> QED
      BY <2>1, <3>1, <3>2
  <2> QED
    BY <1>2, <1>5, <2>3, <2>4, <2>5, <2>6, <2>7 DEF Core
<1> QED
  BY <1>6, <1>7

(* The steps of Login that begin a session.                                *)
LEMMA BeginCore ==
  ASSUME TypeOK, Lifecycle, HandlersDone, Talk, NEW a \in Apps, Core(a), fault = "none",
         LoginClear(a) \/ Connect(a) \/ LoginEnqueue(a) \/ LoginSpawn(a)
  PROVE  Core(a)'
<1>1. /\ view \in Views /\ wr = "off" /\ rd = "off" /\ pc[a] \in Starting
      /\ At(pc[a], by[a]) /\ Standing(a) /\ FlagsMean /\ LogoutBehind(a)
      /\ pc \in [Callers -> Labels] /\ by \in [Callers -> {"client", "cleanup", "handler"}]
      /\ a \in Callers /\ Reader \in Callers /\ a # Reader
  BY SessionAssumption
  DEF Core, TypeOK, CallersOK, Callers, ClientOK, Lifecycle, LoginClear, Connect,
      LoginEnqueue, LoginSpawn, Starting
<1>2. by[a] = "client" /\ pc[Reader] \in {"idle", "ended"} /\ view \in {"out", "pending"}
  BY <1>1 DEF At, HandlersDone, Starting, LogoutLabels
<1>3. /\ UNCHANGED <<isConnected, isDisconnecting, rd, latestLogin, fault, by>>
      /\ pc'[Reader] = pc[Reader] /\ pc[a] # "logout.enqueue"
      /\ pc'[a] \in {"login.connect", "login.enqueue", "login.spawn", "login.assign"}
  BY <1>1 DEF LoginClear, Connect, LoginEnqueue, LoginSpawn, Goto, flags, threads
<1>4. ~isConnected /\ ~isDisconnecting
  BY <1>1, <1>2, <1>3 DEF FlagsMean, LogoutBehind, Sent
<1>5. LogoutBehind(a)' /\ Sides(a)' /\ ReaderAt'
  BY <1>1, <1>2, <1>3, <1>4
  DEF LogoutBehind, Core, Sides, Asks, ReaderAt, HandlerAt, RequestLabels, LogoutLabels
<1>6. ASSUME ~Sent' PROVE LogoutMarked(a)'
  BY <1>2, <1>3, <1>6 DEF LogoutMarked, Marked
<1>7. CASE LoginClear(a) \/ Connect(a)
  <2>1. /\ UNCHANGED <<wr, view>> /\ pc'[a] \in {"login.connect", "login.enqueue"}
        /\ pc[a] \in {"login.clear", "login.connect"}
    BY <1>1, <1>7 DEF LoginClear, Connect, Goto, threads, client
  <2>2. view = "out"
    BY <1>1, <2>1 DEF At
  <2>3. FlagsMean' /\ Standing(a)'
    BY <1>1, <1>3, <1>4, <2>1, <2>2 DEF FlagsMean, Standing, Entering, Over
  <2>4. At(pc[a], by[a])'
    BY <1>2, <1>3, <2>1, <2>2 DEF At, LogoutLabels, CleanupLabels
  <2> QED
    BY <1>1, <1>3, <1>5, <1>6, <2>1, <2>3, <2>4 DEF Core, Sent
<1>8. CASE LoginEnqueue(a)
  <2>1. /\ UNCHANGED wr /\ pc'[a] = "login.spawn" /\ pc[a] = "login.enqueue"
        /\ (view # "gone" => view' = "pending")
    BY <1>1, <1>8 DEF LoginEnqueue, Goto, threads
  <2>2. view' = "pending"
    BY <1>2, <2>1
  <2>3. FlagsMean' /\ Standing(a)'
    BY <1>1, <1>3, <1>4, <2>1, <2>2 DEF FlagsMean, Standing, Entering, Over
  <2>4. At(pc[a], by[a])'
    BY <1>2, <1>3, <2>1, <2>2 DEF At, LogoutLabels, CleanupLabels
  <2> QED
    BY <1>1, <1>3, <1>5, <1>6, <2>1, <2>3, <2>4 DEF Core, Sent
<1>9. CASE LoginSpawn(a)
  <2>1. /\ wr' = "start" /\ pc'[a] = "login.assign" /\ pc[a] = "login.spawn"
        /\ UNCHANGED <<view, queue>>
    BY <1>1, <1>9 DEF LoginSpawn, Goto, client
  <2>2. view = "pending"
    BY <1>1, <2>1 DEF At
  <2>3. ~LogoutWaits'
    <3>1. queue \in Seq(Entries) /\ LoginFirst /\ Tail(queue) = <<>>
      BY <2>1 DEF Talk, TypeOK
    <3>2. ~LogoutWaits
      BY <3>1, TailHas, EmptyHas DEF LoginFirst, LogoutWaits
    <3> QED
      BY <2>1, <3>2 DEF LogoutWaits, Has
  <2>4. FlagsMean' /\ Standing(a)'
    BY <1>1, <1>3, <1>4, <2>1, <2>2, <2>3 DEF FlagsMean, Standing, Entering, Pending
  <2>5. At(pc[a], by[a])'
    BY <1>2, <1>3, <2>1, <2>2 DEF At, LogoutLabels, CleanupLabels
  <2> QED
    BY <1>1, <1>3, <1>5, <1>6, <2>1, <2>3, <2>4, <2>5 DEF Core, Sent
<1> QED
  BY <1>7, <1>8, <1>9

(* A join finds the session over.                                          *)
LEMMA JoinCore ==
  ASSUME TypeOK, Lifecycle, HandlersDone, NEW a \in Apps, Core(a), fault = "none",
         Join(a, "login.join", "login.clear") \/ Join(a, "cleanup.join", "idle")
  PROVE  Core(a)'
<1>1. /\ view \in Views
      /\ At(pc[a], by[a]) /\ Standing(a) /\ FlagsMean /\ LogoutBehind(a)
      /\ pc \in [Callers -> Labels] /\ by \in [Callers -> {"client", "cleanup", "handler"}]
      /\ a \in Callers /\ Reader \in Callers /\ a # Reader
  BY SessionAssumption DEF Core, TypeOK, CallersOK, Callers, ClientOK
<1>2. PICK label \in {"login.clear", "idle"} :
        /\ pc[a] = (IF label = "idle" THEN "cleanup.join" ELSE "login.join")
        /\ Goto(a, label)
        /\ UNCHANGED <<flags, queue, latestLogin, by, net, fault, client>>
        /\ \/ UNCHANGED <<wr, rd>> /\ wr = "off"
           \/ wr = "done" /\ wr' = "off" /\ rd' = "off"
  <2>1. pc[a] \in {"login.join", "cleanup.join"}
    BY DEF Join
  <2>2. writingThread = "null" => wr = "off"
    BY <2>1 DEF Lifecycle
  <2> QED
    BY <2>2 DEF Join
<1>3. by[a] = "client"
  BY <1>1, <1>2 DEF At, LogoutLabels
<1>4. /\ Moves(a, label, "client") /\ UNCHANGED <<isConnected, isDisconnecting, view, fault>>
      /\ (Unread' <=> Unread) /\ (LogoutWaits' <=> LogoutWaits)
      /\ pc[a] \notin LogoutLabels
  BY <1>1, <1>2, <1>3
  DEF Goto, Moves, flags, net, client, Unread, LogoutWaits, Has, LogoutLabels
<1>5. rd \in {"off", "exited"} /\ wr' = "off" /\ rd' = "off" /\ ~isConnected
  BY <1>1, <1>2 DEF Lifecycle, FlagsMean
<1>6. view = (IF label = "idle" THEN "gone" ELSE "out")
  BY <1>1, <1>2, <1>5 DEF At, Standing, CleanupLabels
<1>7. FlagsMean'
  BY <1>4, <1>5 DEF FlagsMean, Entering
<1>8. LogoutBehind(a)'
  BY <1>1, <1>2, <1>4, <1>5 DEF LogoutBehind, Sent, Moves
<1>9. LogoutMarked(a)'
  <2>1. ~Sent' /\ pc'[Reader] \in {"idle", "ended"} /\ pc'[a] \in {"login.clear", "idle"}
    BY <1>4, <1>5 DEF Sent, Moves, HandlersDone
  <2> QED
    BY <2>1 DEF LogoutMarked, Marked
<1>10. Sides(a)' /\ ReaderAt'
  BY <1>4, <1>5
  DEF Core, Sides, Asks, ReaderAt, HandlerAt, Moves, RequestLabels, LogoutLabels
<1>11. Standing(a)'
  BY <1>4, <1>5, <1>6 DEF Standing, Moves, Over, Pending
<1>12. At(label, "client")'
  BY <1>2, <1>4, <1>6 DEF At, LogoutLabels, CleanupLabels
<1> QED
  BY <1>4, <1>7, <1>8, <1>9, <1>10, <1>11, <1>12 DEF Core, Moves

(* The calls of the reading thread: the Logout of handleLoginReply, after  *)
(* the server has refused, and those of the handlers.                      *)

\* Only the reading thread moves: to label, where it runs for who.
HandlerMoves(a, label, who) ==
  /\ pc'[Reader] = label /\ by'[Reader] = who
  /\ pc'[a] = pc[a] /\ by'[a] = by[a]

LEMMA HandlerStepCore ==
  ASSUME NEW a, Core(a), fault = "none", Steady, UNCHANGED view,
         NEW label, NEW who, HandlerMoves(a, label, who),
         "logout.enqueue" \notin {pc[Reader], label},
         label = "logout.claim" => ~isDisconnecting,
         label \in RequestLabels \/ (label \in LogoutLabels /\ who = "client")
           => HandlersLead,
         who = "client" /\ label # "idle" => HandlerAt(label)
  PROVE  Core(a)'
<1>1. FlagsMean' /\ LogoutMarked(a)' /\ LogoutBehind(a)'
  BY SteadyFlags DEF Core, HandlerMoves, Passes
<1>2. Standing(a)'
  BY DEF Core, Standing, Steady, HandlerMoves, Over, Pending
<1>3. At(pc[a], by[a])'
  BY DEF Core, At, Steady, Open, HandlerMoves
<1>4. Sides(a)'
  BY DEF Core, Sides, HandlerMoves, Asks
<1>5. ReaderAt'
  BY DEF ReaderAt, HandlerAt, HandlerMoves, Steady
<1> QED
  BY <1>1, <1>2, <1>3, <1>4, <1>5 DEF Core, Steady

LEMMA HandlerBranchCore ==
  ASSUME TypeOK, NEW a \in Apps, Core(a), fault = "none",
         NEW from, NEW flag, NEW yes, NEW no, Branch(Reader, from, flag, yes, no),
         from # "logout.enqueue", Way(from, yes), Way(from, no),
         yes # "logout.claim", no = "logout.claim" /\ ~flag => ~isDisconnecting,
         by[Reader] = "client" => IF flag THEN HandlerAt(yes) ELSE HandlerAt(no)
  PROVE  Core(a)'
<1> DEFINE label == IF flag THEN yes ELSE no
<1>1. /\ pc[Reader] = from /\ HandlerMoves(a, label, by[Reader]) /\ Steady /\ UNCHANGED view
  BY SessionAssumption
  DEF Branch, Goto, HandlerMoves, Steady, TypeOK, CallersOK, Callers, flags, threads, net,
      client, Unread, LogoutWaits, Has
<1>2. /\ Way(from, label) /\ (by[Reader] = "client" => HandlerAt(label))
      /\ label = "logout.claim" => ~isDisconnecting
  BY <1>1
<1> HIDE DEF label
<1>3. label \in RequestLabels \/ (label \in LogoutLabels /\ by[Reader] = "client")
        => HandlersLead
  BY <1>1, <1>2 DEF Core, Sides, Asks, Way
<1> QED
  BY <1>1, <1>2, <1>3, HandlerStepCore DEF Way

(* Where the client stands while a handler of LoginReply, or of a later    *)
(* event that is not its session's last, makes a request or logs out.      *)
LEMMA HandlersView ==
  ASSUME TypeOK, Lifecycle, NEW a \in Apps, Core(a), fault = "none", rd = "handler"
  PROVE  isConnected /\ view \in {"in", "leaving", "gone"}
<1>1. isConnected /\ wr \notin {"off", "start"}
  BY DEF Core, FlagsMean, Lifecycle
<1>2. view \notin {"out", "pending"}
  BY <1>1 DEF Core, Standing, Over, Pending, Lifecycle, Starting
<1> QED
  BY <1>1, <1>2 DEF TypeOK, ClientOK, Views

LEMMA HandlerGuardCore ==
  ASSUME TypeOK, Lifecycle, RefusedLogin, NEW a \in Apps, Core(a), fault = "none",
         LogoutGuard(Reader) \/ RequestGuard(Reader) \/ SetGuard(Reader)
  PROVE  Core(a)'
<1>1. pc[Reader] # "idle" /\ pc[Reader] # "ended"
  BY DEF LogoutGuard, RequestGuard, SetGuard, Branch
<1>2. by[Reader] = "client" =>
        /\ HandlerAt(pc[Reader])
        /\ rd \in {"handler", "last.handler"}
        /\ rd = "handler" => isConnected
        /\ rd = "last.handler" => isDisconnecting
  BY <1>1 DEF Core, ReaderAt, HandlerAt, FlagsMean
<1>3. CASE LogoutGuard(Reader)
  <2>1. CASE Branch(Reader, "logout.connected", isConnected, "logout.disconnecting",
                    "logout.connecting")
    <3>1. by[Reader] = "client" =>
            /\ HandlerAt("logout.disconnecting")
            /\ ~isConnected => HandlerAt("logout.connecting")
      BY <1>2, <2>1 DEF Branch, HandlerAt, LogoutLabels, RequestLabels
    <3> QED
      BY <2>1, <3>1, HandlerBranchCore, Ways
  <2>2. CASE Branch(Reader, "logout.connecting", isConnecting, "logout.disconnecting",
                    "logout.refused")
    <3>1. by[Reader] = "client" =>
            HandlerAt("logout.disconnecting") /\ HandlerAt("logout.refused")
      BY <1>2, <2>2 DEF Branch, HandlerAt, LogoutLabels, RequestLabels
    <3> QED
      BY <2>2, <3>1, HandlerBranchCore, Ways
  <2>3. CASE Branch(Reader, "logout.disconnecting", isDisconnecting, "logout.refused",
                    "logout.claim")
    <3>1. by[Reader] = "client" =>
            IF isDisconnecting THEN HandlerAt("logout.refused") ELSE HandlerAt("logout.claim")
      BY <1>2, <2>3 DEF Branch, HandlerAt, LogoutLabels, RequestLabels
    <3> QED
      BY <2>3, <3>1, HandlerBranchCore, Ways
  <2> QED
    BY <1>3, <2>1, <2>2, <2>3 DEF LogoutGuard
<1>4. CASE RequestGuard(Reader)
  <2>1. /\ pc[Reader] \in {"request.connected", "request.disconnecting"}
        /\ by[Reader] = "client" /\ HandlersLead
    <3>1. pc[Reader] \in {"request.connected", "request.disconnecting"}
      BY <1>4 DEF RequestGuard, Branch
    <3>2. by[Reader] = "client"
      BY <3>1 DEF RefusedLogin, LogoutLabels, Lifecycle, TypeOK, CallersOK, Callers
    <3> QED
      BY <3>1, <3>2 DEF Core, Sides, RequestLabels
  <2>2. HandlerAt("request.refused") /\ HandlerAt("request.disconnecting")
    BY <1>2, <2>1 DEF HandlerAt, LogoutLabels, RequestLabels
  <2>3. CASE Branch(Reader, "request.connected", isConnected, "request.disconnecting",
                    "request.refused")
    BY <2>2, <2>3, HandlerBranchCore, Ways
  <2>4. CASE Branch(Reader, "request.disconnecting", isDisconnecting, "request.refused",
                    "request.enqueue")
    <3>1. ASSUME ~isDisconnecting PROVE HandlerAt("request.enqueue")
      <4>1. rd = "handler" /\ view # "gone"
        BY <1>2, <2>1, <3>1 DEF HandlerAt, RequestLabels
      <4>2. view # "leaving"
        BY <3>1 DEF Core, Standing
      <4>3. view = "in"
        BY <4>1, <4>2, HandlersView
      <4> QED
        BY <4>1, <4>3 DEF HandlerAt, LogoutLabels, RequestLabels
    <3> QED
      BY <2>2, <2>4, <3>1, HandlerBranchCore, Ways
  <2> QED
    BY <1>4, <2>3, <2>4 DEF RequestGuard
<1>5. CASE SetGuard(Reader)
  <2>1. /\ pc[Reader] \in {"set.connected", "set.connecting"} /\ by[Reader] = "client"
    BY <1>5
    DEF SetGuard, Branch, RefusedLogin, LogoutLabels, Lifecycle, TypeOK, CallersOK, Callers
  <2>2. HandlerAt("set.refused")
    BY <1>2, <2>1 DEF HandlerAt, LogoutLabels, RequestLabels
  <2>3. CASE Branch(Reader, "set.connected", isConnected, "set.refused", "set.connecting")
    <3>1. ~isConnected => HandlerAt("set.connecting")
      BY <1>2, <2>1 DEF HandlerAt, LogoutLabels, RequestLabels
    <3> QED
      BY <2>2, <2>3, <3>1, HandlerBranchCore, Ways
  <2>4. CASE Branch(Reader, "set.connecting", isConnecting, "set.refused", "set.apply")
    <3>1. HandlerAt("set.apply")
      BY <1>2, <2>1, <2>4 DEF Branch, HandlerAt, LogoutLabels, RequestLabels
    <3> QED
      BY <2>2, <2>4, <3>1, HandlerBranchCore, Ways
  <2> QED
    BY <1>5, <2>3, <2>4 DEF SetGuard
<1> QED
  BY <1>3, <1>4, <1>5

LEMMA HandlerReturnCore ==
  ASSUME TypeOK, Lifecycle, RefusedLogin, NEW a \in Apps, Core(a), fault = "none",
         \/ Refuse(Reader) \/ RequestEnqueue(Reader) \/ RequestBadArguments(Reader)
         \/ SetApply(Reader)
  PROVE  Core(a)'
<1>1. /\ pc \in [Callers -> Labels] /\ by \in [Callers -> {"client", "cleanup", "handler"}]
      /\ a \in Callers /\ Reader \in Callers /\ a # Reader
  BY SessionAssumption DEF TypeOK, CallersOK, Callers
<1>2. Steady /\ UNCHANGED view
  BY <1>1, ReturnSteady DEF Returns
<1>3. /\ pc[Reader] \in {"request.refused", "logout.refused", "set.refused", "login.refused",
                         "request.enqueue", "set.apply"}
      /\ by[Reader] # "cleanup"
  BY DEF Refuse, Refusals, RequestEnqueue, RequestBadArguments, SetApply, Lifecycle
<1>4. pc[Reader] # "logout.refused" => by[Reader] = "client"
  BY <1>1, <1>3 DEF RefusedLogin, LogoutLabels
<1>5. HandlerMoves(a, "idle", "client")
  <2>1. Goto(Reader, "idle") /\ (by' = by \/ by' = [by EXCEPT ![Reader] = "client"])
    BY <1>3 DEF Refuse, RequestEnqueue, RequestBadArguments, SetApply
  <2>2. ~Refuse(Reader) => by[Reader] = "client"
    BY <1>4 DEF RequestEnqueue, RequestBadArguments, SetApply
  <2>3. Refuse(Reader) => by' = [by EXCEPT ![Reader] = "client"]
    BY DEF Refuse
  <2> QED
    BY <1>1, <2>1, <2>2, <2>3 DEF Goto, HandlerMoves
<1> QED
  BY <1>2, <1>3, <1>5, HandlerStepCore DEF RequestLabels, LogoutLabels

LEMMA HandlerCallCore ==
  ASSUME CarefulClient, TypeOK, Lifecycle, RefusedLogin, NEW a \in Apps, Core(a),
         fault = "none", Call(Reader)
  PROVE  Core(a)'
<1>1. /\ pc \in [Callers -> Labels] /\ by \in [Callers -> {"client", "cleanup", "handler"}]
      /\ a \in Callers /\ Reader \in Callers /\ a # Reader /\ view \in Views
  BY SessionAssumption DEF TypeOK, CallersOK, Callers, ClientOK
<1>2. ASSUME NEW method, NEW first, Begin(Reader, method, first)
      PROVE  /\ pc[Reader] = "idle" /\ by[Reader] = "client"
             /\ HandlerMoves(a, first, "client") /\ Steady
             /\ view # "gone" /\ view \in HandlerMay[method]
             /\ rd \in {"handler", "last.handler"}
             /\ view' = IF method = "Cleanup" THEN "gone" ELSE view
  <2>1. pc[Reader] = "idle" /\ by[Reader] = "client"
    BY <1>1, <1>2 DEF Begin, RefusedLogin, LogoutLabels, Lifecycle
  <2> QED
    BY <1>1, <1>2, <2>1
    DEF Begin, Goto, flags, threads, net, Steady, HandlerMoves, Unread, LogoutWaits, Has
<1>3. ~Begin(Reader, "Login", "login.connecting") /\ ~Begin(Reader, "Cleanup", "cleanup.connected")
  BY <1>2 DEF CarefulClient
<1>4. CASE Begin(Reader, "Request", "request.connected")
  <2>1. HandlersLead /\ UNCHANGED view
    BY <1>2, <1>4 DEF CarefulClient, ThreadLeads
  <2>2. HandlerAt("request.connected")
    BY <1>2, <1>4 DEF HandlerAt, LogoutLabels
  <2> QED
    BY <1>2, <1>4, <2>1, <2>2, HandlerStepCore
<1>5. CASE Begin(Reader, "Set", "set.connected")
  <2>1. HandlerAt("set.connected") /\ UNCHANGED view
    BY <1>2, <1>5 DEF HandlerAt, LogoutLabels, RequestLabels
  <2> QED
    BY <1>2, <1>5, <2>1, HandlerStepCore DEF LogoutLabels, RequestLabels
<1>6. CASE Begin(Reader, "Logout", "logout.connected")
  <2>1. HandlersLead
    BY <1>2, <1>6 DEF CarefulClient, ThreadLeads
  <2>2. rd = "handler" => view \in {"in", "leaving"}
    BY <1>2, <1>6, HandlersView
  <2>3. HandlerAt("logout.connected") /\ UNCHANGED view
    BY <1>2, <1>6, <2>2 DEF HandlerAt, LogoutLabels, RequestLabels
  <2> QED
    BY <1>2, <1>6, <2>1, <2>3, HandlerStepCore
<1> QED
  BY <1>3, <1>4, <1>5, <1>6 DEF Call

LEMMA HandlerLogoutCore ==
  ASSUME TypeOK, OwnCalls, Lifecycle, RefusedLogin, NEW a \in Apps, Core(a), fault = "none",
         LogoutClaim(Reader) \/ LogoutEnqueue(Reader)
  PROVE  Core(a)'
<1>1. /\ FlagsMean /\ LogoutBehind(a) /\ LogoutMarked(a) /\ Standing(a) /\ At(pc[a], by[a])
      /\ pc \in [Callers -> Labels] /\ by \in [Callers -> {"client", "cleanup", "handler"}]
      /\ a \in Callers /\ Reader \in Callers /\ a # Reader
  BY SessionAssumption DEF Core, TypeOK, CallersOK, Callers
<1>2. /\ pc[Reader] \in {"logout.claim", "logout.enqueue"}
      /\ isDisconnecting => isDisconnecting'
      /\ UNCHANGED <<isConnected, wr, rd, latestLogin, fault>> /\ (Unread' <=> Unread)
      /\ pc'[a] = pc[a] /\ by'[a] = by[a]
      /\ view' = IF pc[Reader] = "logout.enqueue" /\ by[Reader] = "client"
                   /\ view \in {"pending", "in"} THEN "leaving" ELSE view
  BY <1>1 DEF LogoutClaim, LogoutEnqueue, Goto, flags, threads, net, client, Unread, Has
<1>3. /\ pc[a] \notin {"logout.claim", "logout.enqueue"} /\ ~Asks(a)
      /\ pc[a] \notin {"request.disconnecting", "request.enqueue"}
  BY <1>2, OneLogout
<1>4. /\ rd \in {"recv", "handler"} /\ ~Entering
      /\ by[Reader] = "handler" => view = "pending"
      /\ by[Reader] # "handler" =>
           /\ by[Reader] = "client" /\ view = "in" /\ HandlersLead
           /\ rd = "handler" /\ isConnected
  BY <1>2, ReaderLogout DEF Asks
<1>5. FlagsMean'
  BY <1>1, <1>2, <1>4 DEF FlagsMean, Entering
<1>6. At(pc[a], by[a])'
  <2>1. CASE UNCHANGED view
    BY <1>1, <1>2, <1>3, <2>1 DEF At, Asks
  <2>2. CASE by[Reader] = "client"
    <3>1. pc[a] \notin RequestLabels /\ view = "in" /\ view' \in {"in", "leaving"}
      BY <1>2, <1>4, <2>2 DEF Core, Sides
    <3> QED
      BY <1>1, <1>2, <1>3, <3>1 DEF At, Asks, RequestLabels
  <2> QED
    BY <1>2, <2>1, <2>2
<1>7. ~Sent /\ wr = "loop"
  <2>1. ~Sent
    BY <1>1, <1>2 DEF LogoutMarked, Marked
  <2> QED
    BY <1>4, <2>1 DEF Sent, Lifecycle, TypeOK, ThreadsOK
<1>8. CASE LogoutClaim(Reader)
  <2>1. /\ pc[Reader] = "logout.claim" /\ pc'[Reader] = "logout.enqueue"
        /\ by'[Reader] = by[Reader] /\ isDisconnecting' /\ (LogoutWaits' <=> LogoutWaits)
        /\ UNCHANGED view
    BY <1>1, <1>8 DEF LogoutClaim, Goto, LogoutWaits, Has, client
  <2>2. ~Sent'
    BY <1>2, <1>7, <2>1 DEF Sent
  <2>3. LogoutBehind(a)' /\ LogoutMarked(a)'
    BY <1>2, <1>3, <2>1, <2>2 DEF LogoutBehind, LogoutMarked, Marked
  <2>4. Standing(a)'
    BY <1>1, <1>2, <1>4, <2>1 DEF Standing, Pending
  <2>5. Sides(a)' /\ ReaderAt'
    BY <1>2, <1>4, <1>7, <2>1
    DEF Core, Sides, Asks, ReaderAt, HandlerAt, RequestLabels, LogoutLabels
  <2> QED
    BY <1>2, <1>5, <1>6, <2>3, <2>4, <2>5 DEF Core
<1>9. CASE LogoutEnqueue(Reader)
  <2>1. /\ pc[Reader] = "logout.enqueue" /\ pc'[Reader] = "idle" /\ UNCHANGED isDisconnecting
        /\ by'[Reader] = "client"
        /\ view' = IF by[Reader] = "client" THEN "leaving" ELSE view
    BY <1>1, <1>2, <1>4, <1>9 DEF LogoutEnqueue, Goto, flags
  <2>2. LogoutWaits' /\ isDisconnecting
    BY <1>1, <1>9, <2>1, LogoutEnqueued DEF LogoutMarked, Marked
  <2>3. LogoutBehind(a)' /\ LogoutMarked(a)'
    BY <1>2, <1>3, <1>7, <2>1, <2>2 DEF LogoutBehind, LogoutMarked, Marked, Sent
  <2>4. Standing(a)'
    BY <1>1, <1>2, <1>4, <2>1, <2>2 DEF Standing, Pending
  <2>5. Sides(a)' /\ ReaderAt'
    BY <1>2, <2>1 DEF Core, Sides, Asks, ReaderAt, RequestLabels, LogoutLabels
  <2> QED
    BY <1>2, <1>5, <1>6, <2>3, <2>4, <2>5 DEF Core
<1> QED
  BY <1>8, <1>9

LEMMA HandlerCore ==
  ASSUME CarefulClient, TypeOK, OwnCalls, Lifecycle, RefusedLogin, NEW a \in Apps, Core(a),
         fault = "none", Call(Reader) \/ Continue(Reader)
  PROVE  Core(a)'
<1>1. /\ ~Login(Reader) /\ ~Cleanup(Reader) /\ ~JoinDeleted(Reader)
  BY DEF Lifecycle, HandlerLabels, Login, Cleanup, Branch, LoginGuard, LoginBadArguments,
         LoginClaim, Join, LoginClear, Connect, ConnectThrows, LoginEnqueue, LoginSpawn,
         LoginAssign, CleanupGuard, CleanupLogout, JoinDeleted
<1> QED
  BY <1>1, HandlerCallCore, HandlerGuardCore, HandlerReturnCore, HandlerLogoutCore
  DEF Continue, Logout, Request, Set

LEMMA WriterCore ==
  ASSUME TypeOK, Lifecycle, HandlersDone, Talk, NEW a \in Apps, Core(a), fault = "none", Writer
  PROVE  Core(a)'
<1>1. /\ view \in Views /\ At(pc[a], by[a]) /\ Standing(a) /\ FlagsMean /\ LogoutBehind(a)
      /\ LogoutMarked(a) /\ ReaderAt
  BY DEF Core, TypeOK, ClientOK
<1>2. UNCHANGED <<pc, by, view, fault>> /\ (Unread' <=> Unread)
  BY DEF Writer, WriterStart, WriterSend, WriterJoin, WriterClearConnected,
         WriterClearDisconnecting, net, client, Unread, Has
<1>3. ASSUME FlagsMean', LogoutMarked(a)', LogoutBehind(a)', Standing(a)', At(pc[a], by[a])',
             ReaderAt'
      PROVE  Core(a)'
  BY <1>2, <1>3 DEF Core, Sides, Asks
<1>4. CASE WriterStart
  <2>1. /\ wr = "start" /\ wr' = "loop" /\ rd = "off" /\ rd' = "recv"
        /\ UNCHANGED <<isConnected, isDisconnecting>> /\ (LogoutWaits' <=> LogoutWaits)
        /\ Unread
    BY <1>4 DEF WriterStart, flags, LogoutWaits, Has, Lifecycle, Talk, Fresh, Unread
  <2>2. ~isConnected /\ ~isDisconnecting /\ ~LogoutWaits
    BY <1>1, <2>1 DEF FlagsMean, Entering
  <2>3. FlagsMean' /\ LogoutBehind(a)'
    BY <2>1, <2>2 DEF FlagsMean, LogoutBehind
  <2>4. Standing(a)' /\ At(pc[a], by[a])'
    BY <1>1, <1>2, <2>1, <2>2 DEF Standing, At, Over, Open, Pending
  <2>5. LogoutMarked(a)'
    BY <1>1, <1>2, <2>1, <2>2 DEF LogoutMarked, Marked, Sent
  <2>6. ReaderAt'
    BY <1>1, <1>2, <2>1 DEF ReaderAt, HandlerAt
  <2> QED
    BY <1>3, <2>3, <2>4, <2>5, <2>6
<1>5. CASE WriterSend
  <2>1. /\ wr = "loop" /\ UNCHANGED <<isConnected, isDisconnecting, rd, latestLogin>>
        /\ wr' = (IF Head(queue).type = "Logout" THEN "join" ELSE "loop")
    BY <1>5 DEF WriterSend, flags
  <2>2. LogoutWaits <=> Head(queue).type = "Logout" \/ LogoutWaits'
    BY <1>5, TailHas DEF WriterSend, TypeOK, LogoutWaits
  <2>3. Sent' <=> Sent
    BY <2>1, <2>2 DEF Sent
  <2>4. FlagsMean' /\ LogoutMarked(a)' /\ LogoutBehind(a)'
    BY <1>1, <1>2, <2>1, <2>2, <2>3
    DEF FlagsMean, LogoutMarked, Marked, LogoutBehind, Entering, Lifecycle
  <2>5. wr' # "loop" => Sent
    BY <2>1, <2>2 DEF Sent
  <2>6. Standing(a)' /\ At(pc[a], by[a])'
    BY <1>1, <1>2, <2>1, <2>2 DEF Standing, At, Over, Open, Pending
  <2>7. ReaderAt'
    BY <1>1, <1>2, <2>1, <2>5 DEF ReaderAt, HandlerAt, LogoutMarked, Marked
  <2> QED
    BY <1>3, <2>4, <2>6, <2>7
<1>6. CASE WriterJoin \/ WriterClearConnected \/ WriterClearDisconnecting
  <2>1. /\ rd = "exited" /\ UNCHANGED <<rd, latestLogin>>
        /\ wr \in {"join", "connected", "disconnecting"}
        /\ wr' \in {"connected", "disconnecting", "done"}
        /\ (isConnected' => isConnected) /\ (isDisconnecting' => isDisconnecting)
        /\ (wr' # "done" => UNCHANGED isDisconnecting)
        /\ wr' # "connected" => ~isConnected'
        /\ wr' = "done" => ~isDisconnecting'
    <3>1. CASE WriterJoin
      BY <3>1 DEF WriterJoin, flags
    <3>2. CASE WriterClearConnected
      BY <3>2 DEF WriterClearConnected, Lifecycle
    <3>3. CASE WriterClearDisconnecting
      BY <1>1, <3>3 DEF WriterClearDisconnecting, Lifecycle, FlagsMean
    <3> QED
      BY <1>6, <3>1, <3>2, <3>3
  <2>2. FlagsMean' /\ LogoutBehind(a)'
    BY <1>1, <1>2, <2>1 DEF FlagsMean, LogoutBehind, Entering, Sent
  <2>3. Standing(a)' /\ At(pc[a], by[a])'
    BY <1>1, <1>2, <2>1 DEF Standing, At, Over, Open, Pending
  <2>4. LogoutMarked(a)'
    BY <1>1, <1>2, <2>1 DEF LogoutMarked, Marked, Sent
  <2>5. ReaderAt'
    BY <1>1, <1>2, <2>1 DEF ReaderAt, HandlerAt
  <2> QED
    BY <1>3, <2>2, <2>3, <2>4, <2>5
<1> QED
  BY <1>4, <1>5, <1>6 DEF Writer

(* A reply that is no answer to the Login leaves the way.                  *)
LEMMA TakeUnread ==
  ASSUME TypeOK, toClient # <<>>, toClient' = Tail(toClient), Head(toClient).type # "Login",
         UNCHANGED server
  PROVE  Unread' <=> Unread
BY TailHas DEF TypeOK, NetOK, Unread

\* What Raise tells the client, when nothing else is for it to hear.
LEMMA RaiseCore ==
  ASSUME TypeOK, Lifecycle, NEW a \in Apps, Core(a), fault = "none",
         NEW name, NEW ok, name \notin {"Login", "Logout"}, Raise(name, ok, "handler"),
         rd = "recv", pc[Reader] = "idle", isConnected,
         UNCHANGED <<isConnected, isDisconnecting, wr, latestLogin, fault, pc, by>>,
         Unread' <=> Unread, LogoutWaits' <=> LogoutWaits
  PROVE  Core(a)'
<1>1. /\ view \in Views /\ At(pc[a], by[a]) /\ Standing(a) /\ FlagsMean /\ LogoutBehind(a)
      /\ LogoutMarked(a)
  BY DEF Core, TypeOK, ClientOK
<1>2. view' = view /\ rd' = "handler"
  BY DEF Raise
<1>3. FlagsMean' /\ LogoutBehind(a)' /\ LogoutMarked(a)'
  BY <1>1, <1>2 DEF FlagsMean, LogoutBehind, Entering, LogoutMarked, Marked, Sent
<1>4. Standing(a)' /\ At(pc[a], by[a])'
  BY <1>1, <1>2 DEF Standing, At, Over, Open, Pending
<1>5. Sides(a)' /\ ReaderAt'
  BY DEF Core, Sides, Asks, ReaderAt
<1> QED
  BY <1>3, <1>4, <1>5 DEF Core

(* No request is answered before m_IsConnected is set.                     *)
LEMMA AnsweredConnected ==
  ASSUME TypeOK, NothingUnknown, Accounts, fault = "none", rd = "recv",
         toClient # <<>>, toClient' = Tail(toClient), Head(toClient).type \in RequestTypes
  PROVE  isConnected
<1>1. Head(toClient).type \in Requests
  BY KnownReply
<1> DEFINE e == Head(toClient).type
<1>2. Count(e, toClient) = Count(e, toClient') + 1 /\ Count(e, toClient') \in Nat
  BY <1>1, TakeCount
<1>3. Total(e) # 0
  BY <1>1, <1>2, TotalType DEF Total
<1> QED
  BY <1>1, <1>3 DEF Accounts, Early

LEMMA ReadingCore ==
  ASSUME KnownAnswers, TypeOK, Lifecycle, Talk, Attempt, Answer, Parting, RefusedLogin,
         NothingUnknown, Accounts, NEW a \in Apps, Core(a), fault = "none", Reading
  PROVE  Core(a)'
<1>1. /\ view \in Views /\ At(pc[a], by[a]) /\ Standing(a) /\ FlagsMean /\ LogoutBehind(a)
      /\ LogoutMarked(a)
      /\ rd \notin {"handler", "last.handler"} => pc[Reader] = "idle" \/ by[Reader] = "handler"
      /\ pc \in [Callers -> Labels] /\ by \in [Callers -> {"client", "cleanup", "handler"}]
      /\ a \in Callers /\ Reader \in Callers /\ a # Reader
  BY SessionAssumption
  DEF Core, TypeOK, CallersOK, Callers, ClientOK, ReaderAt, HandlerAt, Lifecycle
<1>2. /\ UNCHANGED <<isDisconnecting, wr, fault, server>>
      /\ rd # "off" /\ wr \in {"loop", "join"} \cup {"connected", "disconnecting", "done"}
  BY DEF Reading, ReceiveLogin, Poll, ReceiveStatus, PublishConnected, PublishLoggedIn,
         ReceiveLogout, ReceiveExpired, ReceiveOther, HandlersReturn, Receive, flags, net,
         Lifecycle, TypeOK, ThreadsOK
<1>3. ASSUME FlagsMean', LogoutBehind(a)', Standing(a)', At(pc[a], by[a])', fault' = "none",
             LogoutWaits' <=> LogoutWaits, pc'[a] = pc[a], by'[a] = by[a],
             \/ pc'[Reader] = "idle"
             \/ by'[Reader] = "handler" /\ pc'[Reader] \in {pc[Reader], "logout.connected"}
      PROVE  Core(a)'
  <2>1. LogoutMarked(a)'
    BY <1>1, <1>2, <1>3 DEF LogoutMarked, Marked, Sent
  <2>2. Sides(a)' /\ ReaderAt'
    BY <1>3 DEF Core, Sides, Asks, ReaderAt, RequestLabels, LogoutLabels
  <2> QED
    BY <1>3, <2>1, <2>2 DEF Core
<1>4. CASE ReceiveLogin
  <2>1. /\ rd = "recv" /\ toClient # <<>> /\ toClient' = Tail(toClient)
        /\ Head(toClient).type = "Login" /\ pc[Reader] = "idle"
        /\ UNCHANGED <<isConnected, queue, view>>
        /\ rd' = (IF latestLogin' = "Success" THEN "poll" ELSE "recv")
        /\ pc'[a] = pc[a] /\ by'[a] = by[a]
        /\ IF latestLogin' = "Success" THEN UNCHANGED <<pc, by>>
           ELSE by'[Reader] = "handler" /\ pc'[Reader] = "logout.connected"
    BY <1>1, <1>4 DEF ReceiveLogin, Receive, Goto, flags, client
  <2>2. Unread /\ ~Unread'
    <3>1. Has(toClient, "Login") /\ ~Has(toClient', "Login")
      BY <2>1, TailHas DEF TypeOK, NetOK, Answer
    <3>2. server # "new"
      BY <2>1 DEF Talk
    <3> QED
      BY <1>2, <3>1, <3>2 DEF Unread
  <2>3. ~isConnected /\ wr = "loop" /\ ~isDisconnecting /\ ~LogoutWaits
    BY <1>1, <1>2, <2>1, <2>2 DEF FlagsMean, Entering, Answer
  <2>4. LogoutWaits' <=> LogoutWaits
    BY <2>1 DEF LogoutWaits, Has
  <2>5. FlagsMean' /\ LogoutBehind(a)'
    BY <1>1, <1>2, <2>1, <2>2, <2>3, <2>4 DEF FlagsMean, LogoutBehind, Entering, Sent
  <2>6. Standing(a)' /\ At(pc[a], by[a])'
    BY <1>1, <1>2, <2>1, <2>3, <2>4 DEF Standing, At, Over, Open, Pending
  <2> QED
    BY <1>2, <1>3, <2>1, <2>4, <2>5, <2>6
<1>5. CASE Poll
  <2>1. /\ rd = "poll" /\ rd' \in {"poll", "recv"}
        /\ UNCHANGED <<isConnected, latestLogin, view, pc, by, toClient>>
        /\ queue' = queue \/ Enqueue("GetParkingStatus", nextSpot)
    BY <1>5 DEF Poll, flags, net, client
  <2>2. (LogoutWaits' <=> LogoutWaits) /\ (Unread' <=> Unread)
    <3>1. nextSpot \in Nat /\ "GetParkingStatus" \in EntryTypes
          /\ "Logout" \in EntryTypes \ {"GetParkingStatus"}
      BY DEF TypeOK, ThreadsOK, EntryTypes
    <3> QED
      BY <1>2, <2>1, <3>1, EnqueueOther DEF LogoutWaits, Unread, Has
  <2>3. FlagsMean' /\ LogoutBehind(a)'
    BY <1>1, <1>2, <2>1, <2>2 DEF FlagsMean, LogoutBehind, Entering, Sent
  <2>4. ~isConnected
    BY <1>1, <2>1 DEF FlagsMean
  <2>5. Standing(a)' /\ At(pc[a], by[a])'
    BY <1>1, <1>2, <2>1, <2>2, <2>4 DEF Standing, At, Over, Open, Pending
  <2> QED
    BY <1>1, <1>2, <1>3, <2>1, <2>2, <2>3, <2>5
<1>6. CASE ReceiveStatus \/ ReceiveExpired \/ ReceiveOther
  <2>1. /\ rd = "recv" /\ pc[Reader] = "idle" /\ toClient # <<>> /\ toClient' = Tail(toClient)
        /\ Head(toClient).type # "Login"
        /\ UNCHANGED <<isConnected, latestLogin, pc, by, isDisconnecting, wr, fault, server>>
        /\ queue' = queue \/ Enqueue("GetNextExpired", 0)
    BY <1>6
    DEF ReceiveStatus, ReceiveExpired, ReceiveOther, Receive, flags, net, RequestTypes
  <2>2. LogoutWaits' <=> LogoutWaits
    <3>1. "GetNextExpired" \in EntryTypes /\ "Logout" \in EntryTypes \ {"GetNextExpired"}
      BY DEF EntryTypes, RequestTypes
    <3> QED
      BY <2>1, <3>1, EnqueueOther DEF LogoutWaits, Has
  <2>3. Unread' <=> Unread
    BY <2>1, TakeUnread
  <2>4. CASE isConnected /\ \E name : name \notin {"Login", "Logout"} /\ Raise(name, TRUE, "handler")
    BY <2>1, <2>2, <2>3, <2>4, RaiseCore
  <2>5. CASE UNCHANGED <<rd, view>>
    <3>1. FlagsMean' /\ LogoutBehind(a)'
      BY <1>1, <2>1, <2>2, <2>3, <2>5 DEF FlagsMean, LogoutBehind, Entering, Sent
    <3>2. Standing(a)' /\ At(pc[a], by[a])'
      BY <1>1, <2>1, <2>2, <2>5 DEF Standing, At, Over, Open, Pending
    <3> QED
      BY <1>1, <1>3, <2>1, <2>2, <3>1, <3>2
  <2>6. CASE ReceiveStatus /\ ~isConnected /\ rd' = "connected" /\ UNCHANGED view
    <3>1. Statuses(toClient)
      <4>1. Head(toClient).type = "GetParkingStatus"
        BY <2>6 DEF ReceiveStatus, Receive
      <4> QED
        BY <2>1, <4>1, TailHas DEF Statuses, TypeOK, NetOK
    <3>2. latestLogin = "Success"
      BY <2>1, <3>1 DEF Answer, Granted
    <3>3. FlagsMean' /\ LogoutBehind(a)'
      BY <1>1, <2>1, <2>2, <2>3, <2>6, <3>2 DEF FlagsMean, LogoutBehind, Entering, Sent
    <3>4. Standing(a)' /\ At(pc[a], by[a])'
      BY <1>1, <2>1, <2>2, <2>6 DEF Standing, At, Over, Open, Pending
    <3> QED
      BY <1>1, <1>3, <2>1, <2>2, <3>3, <3>4
  <2>7. CASE ReceiveStatus
    BY <2>1, <2>4, <2>5, <2>6, <2>7 DEF ReceiveStatus
  <2>8. CASE ReceiveExpired
    <3>1. isConnected
      BY <2>1, <2>8, AnsweredConnected DEF ReceiveExpired, Receive, RequestTypes
    <3> QED
      BY <2>1, <2>4, <2>5, <2>8, <3>1 DEF ReceiveExpired
  <2>9. CASE ReceiveOther
    <3>1. Raise(Head(toClient).type, TRUE, "handler")
          /\ Head(toClient).type \notin {"Login", "Logout"}
      BY <2>9 DEF ReceiveOther, Receive, RequestTypes
    <3>2. isConnected
      BY <2>1, <2>9, AnsweredConnected DEF ReceiveOther, Receive
    <3> QED
      BY <2>4, <3>1, <3>2
  <2> QED
    BY <1>6, <2>7, <2>8, <2>9
<1>7. CASE PublishConnected
  <2>1. /\ rd = "connected" /\ rd' = "connecting" /\ isConnected'
        /\ UNCHANGED <<latestLogin, view, pc, by, toClient, queue, isDisconnecting, wr, fault,
                       server>>
    BY <1>7 DEF PublishConnected, net, client
  <2>2. (LogoutWaits' <=> LogoutWaits) /\ (Unread' <=> Unread) /\ latestLogin = "Success"
    BY <2>1 DEF LogoutWaits, Unread, Has, Answer
  <2>3. wr = "loop" /\ ~isDisconnecting /\ ~LogoutWaits /\ ~isConnected
    BY <1>1, <1>2, <2>1 DEF FlagsMean, Entering
  <2>4. FlagsMean' /\ LogoutBehind(a)'
    BY <1>1, <2>1, <2>2, <2>3 DEF FlagsMean, LogoutBehind, Entering, Sent
  <2>5. Standing(a)' /\ At(pc[a], by[a])'
    BY <1>1, <2>1, <2>2, <2>3 DEF Standing, At, Over, Open, Pending
  <2> QED
    BY <1>1, <1>3, <2>1, <2>2, <2>4, <2>5
<1>8. CASE PublishLoggedIn
  <2>1. /\ rd = "connecting" /\ rd' = "handler" /\ latestLogin = "Success"
        /\ UNCHANGED <<isConnected, latestLogin, pc, by, toClient, queue, isDisconnecting, wr,
                       fault, server>>
        /\ Raise("Login", LoginReported, "handler")
    BY <1>8 DEF PublishLoggedIn, net, Raise, Answer
  <2>2. LoginReported
    BY <2>1 DEF LoginReported
  <2>3. (LogoutWaits' <=> LogoutWaits) /\ (Unread' <=> Unread) /\ isConnected
    BY <2>1 DEF LogoutWaits, Unread, Has, Attempt
  <2>4. wr = "loop" /\ ~isDisconnecting /\ ~LogoutWaits
    BY <1>1, <1>2, <2>1 DEF FlagsMean, Entering
  <2>5. view = "pending" /\ pc[a] # "login.spawn"
    <3>1. pc[a] # "login.spawn"
      BY <2>1 DEF Lifecycle, Starting
    <3> QED
      BY <1>1, <2>1, <3>1 DEF Standing, Views, Over, Open, Pending
  <2>6. view' = "in"
    BY <2>1, <2>2, <2>5 DEF Raise
  <2>7. FlagsMean' /\ LogoutBehind(a)'
    BY <1>1, <2>1, <2>3, <2>4, <2>6 DEF FlagsMean, LogoutBehind, Entering, Sent
  <2>8. Standing(a)' /\ At(pc[a], by[a])'
    BY <1>1, <2>1, <2>3, <2>4, <2>5, <2>6 DEF Standing, At, Over, Open, Pending
  <2> QED
    BY <1>1, <1>3, <2>1, <2>3, <2>7, <2>8
<1>9. CASE ReceiveLogout
  <2>1. /\ rd = "recv" /\ rd' = "last.handler" /\ pc[Reader] = "idle"
        /\ toClient # <<>> /\ toClient' = Tail(toClient) /\ Head(toClient).type = "Logout"
        /\ UNCHANGED <<isConnected, latestLogin, pc, by, queue, isDisconnecting, wr,
                       fault, server>>
        /\ IF isConnected THEN Raise("Logout", TRUE, "last.handler")
           ELSE Raise("Login", LoginReported, "last.handler")
    BY <1>9 DEF ReceiveLogout, Receive, net, Raise
  <2>2. (LogoutWaits' <=> LogoutWaits) /\ (Unread' <=> Unread)
    BY <2>1, TakeUnread DEF LogoutWaits, Has
  <2>3. server = "out"
    <3>1. toClient # <<>> /\ Head(toClient).type = "Logout"
      BY <2>1
    <3>2. 1 \in DOMAIN toClient /\ Head(toClient) = toClient[1]
      BY <3>1, EmptySeq DEF TypeOK, NetOK
    <3> QED
      BY <3>1, <3>2 DEF Parting, Arriving
  <2>4. wr = "join"
    BY <1>2, <2>1, <2>3 DEF Talk, Lifecycle
  <2>5. ~isConnected => ~LoginReported
    <3>1. ~isConnected => ~Unread /\ latestLogin # "Success"
      BY <1>1, <2>1, <2>4 DEF FlagsMean, Entering
    <3>2. ~Unread => latestLogin \in LoginReplies
      BY <2>1 DEF Parting
    <3> QED
      BY <3>1, <3>2 DEF KnownAnswers, LoginReported
  <2>6. view' = (IF view = "gone" THEN "gone" ELSE "out")
    BY <2>1, <2>5 DEF Raise
  <2>7. pc[a] # "login.spawn" /\ view # "in" /\ ~(view = "pending" /\ isConnected)
    BY <1>1, <2>1, <2>4 DEF Standing, Open, Pending, Lifecycle, Starting
  <2>8. FlagsMean' /\ LogoutBehind(a)'
    BY <1>1, <2>1, <2>2, <2>4, <2>6
    DEF FlagsMean, LogoutBehind, Entering, Sent, LogoutMarked
  <2>9. Standing(a)'
    BY <1>1, <2>1, <2>4, <2>6, <2>7 DEF Standing, Over, Pending
  <2>10. At(pc[a], by[a])'
    BY <1>1, <2>1, <2>2, <2>4, <2>6, <2>7 DEF At, Open, LogoutLabels, Views
  <2> QED
    BY <1>1, <1>3, <2>1, <2>2, <2>8, <2>9, <2>10
<1>10. CASE HandlersReturn
  <2>1. /\ rd \in {"handler", "last.handler"} /\ pc[Reader] = "idle"
        /\ rd' = (IF rd = "handler" THEN "recv" ELSE "exited")
        /\ UNCHANGED <<isConnected, latestLogin, pc, by, queue, isDisconnecting, wr,
                       fault, server, toClient, view>>
    BY <1>10 DEF HandlersReturn, flags, net, client
  <2>2. (LogoutWaits' <=> LogoutWaits) /\ (Unread' <=> Unread)
    BY <2>1 DEF LogoutWaits, Unread, Has
  <2>3. FlagsMean' /\ LogoutBehind(a)'
    BY <1>1, <2>1, <2>2 DEF FlagsMean, LogoutBehind, Entering, Sent
  <2>4. Standing(a)' /\ At(pc[a], by[a])'
    BY <1>1, <2>1, <2>2 DEF Standing, At, Over, Open, Pending
  <2> QED
    BY <1>1, <1>3, <2>1, <2>2, <2>3, <2>4
<1> QED
  BY <1>4, <1>5, <1>6, <1>7, <1>8, <1>9, <1>10 DEF Reading

(* What Core says of any caller that stands before its Enqueue.            *)
LEMMA AskersKnow ==
  ASSUME CarefulClient, TypeOK, Lifecycle, OwnCalls, NEW a \in Apps, Core(a), RefusedLogin,
         Ended, NEW t \in Callers, pc[t] = "request.enqueue"
  PROVE  Open /\ view \in {"pending", "in"}
<1>1. fault = "none"
  BY DEF Ended, Stopped
<1>2. CASE t = Reader
  <2>1. by[Reader] = "client"
    BY <1>2 DEF RefusedLogin, LogoutLabels, Lifecycle, TypeOK, CallersOK
  <2>2. view = "in" /\ HandlersLead
    BY <1>1, <1>2, <2>1 DEF Core, ReaderAt, HandlerAt, Sides, RequestLabels
  <2>3. pc[a] # "logout.enqueue"
    BY <1>1, <2>2 DEF Core, Sides, Asks, At, LogoutLabels, OwnCalls, TypeOK, CallersOK, Callers
  <2>4. ~isDisconnecting
    BY <1>1, <1>2, <2>2, <2>3, Unclaimed
  <2> QED
    BY <1>1, <2>2, <2>4 DEF Core, Standing, Open
<1>3. CASE t # Reader
  <2>1. t = a
    BY <1>3 DEF CarefulClient, Callers
  <2> QED
    BY <1>1, <2>1 DEF Core, At
<1> QED
  BY <1>2, <1>3

LEMMA CallerAccounts ==
  ASSUME TypeOK, CarefulClient, NEW a \in Apps, Lifecycle, HandlersDone, Talk, OwnCalls,
         RefusedLogin, Ended, Core(a), fault = "none", Accounts,
         NEW t \in Callers, Call(t) \/ Continue(t), ~JoinDeleted(t)
  PROVE  Accounts'
<1> USE CarefulIsSingle
<1>1. RequestEnqueue(t) => Open
  BY AskersKnow DEF RequestEnqueue
<1>2. rd' \in {"off", "last.handler", "exited"} => wr' # "loop"
  BY CallerThreads DEF Accounts
<1>3. LogoutLast'
  BY <1>1, CallerLast DEF Accounts, Open
<1>4. ASSUME Early', NEW e \in Requests PROVE Total(e)' = 0
  <2>1. CASE LoginSpawn(t)
    <3>1. Fresh /\ LoginFirst /\ Tail(queue) = <<>> /\ UNCHANGED <<queue, toServer, toClient>>
      <4>1. pc[t] = "login.spawn" /\ UNCHANGED <<queue, toServer, toClient>>
        BY <2>1 DEF LoginSpawn, net
      <4>2. t \in Apps
        BY <4>1, CallerThreads DEF Starting
      <4> QED
        BY <4>1, <4>2 DEF Talk, Connected
    <3>2. Count(e, queue) = 0 + IF "Login" = e THEN 1 ELSE 0
      BY <3>1, CountTail, CountEmpty DEF LoginFirst, TypeOK
    <3>3. Count(e, toServer) = 0 /\ Count(e, toClient) = 0
      BY <3>1, CountEmpty DEF Fresh
    <3>4. Count(e, queue') = 0 /\ Count(e, toServer') = 0 /\ Count(e, toClient') = 0
      BY <3>1, <3>2, <3>3, TotalType
    <3> QED
      BY <3>4 DEF Total
  <2>2. CASE ~LoginSpawn(t)
    <3>1. Early /\ ~(wr = "off" /\ rd = "off")
      BY <1>4, <2>2, CallerThreads DEF Early
    <3>2. ~LoginClear(t) /\ ~Connect(t)
      BY <3>1, CallerThreads DEF LoginClear, Connect, Starting
    <3>3. ~RequestEnqueue(t)
      BY <1>1, <3>1 DEF Open, Early
    <3>4. UNCHANGED <<toServer, toClient>> /\ Count(e, queue') = Count(e, queue)
      BY <3>2, <3>3, CallerTotal
    <3>5. Total(e)' = Total(e)
      BY <3>4 DEF Total
    <3> QED
      BY <3>1, <3>5 DEF Accounts
  <2> QED
    BY <2>1, <2>2
<1>5. ASSUME NEW e \in Ordinary PROVE Account(e)'
  <2>1. e \in Requests /\ Account(e)
    BY DEF Ordinary, Accounts
  <2>2. CASE RequestEnqueue(t)
    <3>1. UNCHANGED <<wr, rd>> /\ wr = "loop" /\ rd \notin {"off", "last.handler", "exited"}
      BY <1>1, <2>2, CallerThreads DEF RequestEnqueue, threads, Open, Accounts
    <3>2. /\ UNCHANGED <<toServer, toClient>>
          /\ owed'[e] - owed[e] = Count(e, queue') - Count(e, queue)
      BY <2>1, <2>2, CallerTotal
    <3>3. Count(e, queue') \in Nat /\ owed'[e] \in Int
      <4>1. PICK type \in Requests : Enqueue(type, 0) /\ owed' = [owed EXCEPT ![type] = @ + 1]
        BY <2>2 DEF RequestEnqueue
      <4>2. Count(e, queue') = Count(e, queue) + IF type = e THEN 1 ELSE 0
        BY <4>1, TotalType, EnqueueCount
      <4> QED
        BY <2>1, <4>1, <4>2, TotalType DEF TypeOK, ClientOK
    <3>4. owed'[e] = Count(e, queue') + Count(e, toServer') + Count(e, toClient')
      BY <2>1, <3>2, <3>3, TotalType DEF Account, Total
    <3> QED
      BY <3>1, <3>4 DEF Account, Total, Over
  <2>3. CASE LoginClear(t) \/ Connect(t)
    <3>1. wr = "off" /\ rd = "off" /\ UNCHANGED <<wr, rd>>
      BY <2>3, CallerThreads DEF LoginClear, Connect, Starting, threads
    <3>2. Count(e, queue) = 0 /\ Count(e, toServer) = 0 /\ Count(e, toClient) = 0 /\ owed[e] = 0
      BY <2>1, <3>1, TotalType DEF Account, Total, Over
    <3>3. /\ queue' \in {queue, <<>>} /\ toServer' \in {toServer, <<>>}
          /\ toClient' \in {toClient, <<>>} /\ UNCHANGED owed
      BY <2>3 DEF LoginClear, Connect, net, client
    <3>4. Count(e, queue') = 0 /\ Count(e, toServer') = 0 /\ Count(e, toClient') = 0
      BY <3>2, <3>3, CountEmpty
    <3> QED
      BY <3>2, <3>3, <3>4 DEF Account, Total
  <2>4. CASE ~RequestEnqueue(t) /\ ~LoginClear(t) /\ ~Connect(t)
    <3>1. UNCHANGED <<toServer, toClient>> /\ owed'[e] = owed[e] /\ Count(e, queue') = Count(e, queue)
      <4>1. LoginEnqueue(t) => owed[e] = 0
        BY <2>1, CallerThreads DEF LoginEnqueue, Starting, Account, Over
      <4> QED
        BY <2>1, <2>4, <4>1, CallerTotal
    <3>2. /\ wr' # "loop" => wr # "loop"
          /\ Over' => Over
      BY CallerThreads DEF Over
    <3> QED
      BY <2>1, <3>1, <3>2 DEF Account, Total
  <2> QED
    BY <2>2, <2>3, <2>4
<1> QED
  BY <1>2, <1>3, <1>4, <1>5 DEF Accounts

(* The reply to a Logout is the last thing on the connection.              *)
LEMMA LogoutArrives ==
  ASSUME TypeOK, Talk, Arriving, toClient # <<>>, Head(toClient).type = "Logout"
  PROVE  toServer = <<>> /\ Tail(toClient) = <<>>
<1>1. /\ toClient \in Seq(Packets) /\ Head(toClient) = toClient[1] /\ 1 \in DOMAIN toClient
      /\ Len(toClient) \in Nat /\ Tail(toClient) \in Seq(Packets)
      /\ Len(Tail(toClient)) = Len(toClient) - 1
  BY HeadTailProperties, LenProperties, EmptySeq DEF TypeOK, NetOK
<1>2. Len(toClient) = 1 /\ server = "out"
  BY <1>1 DEF Arriving
<1>3. toServer = <<>>
  BY <1>2 DEF Talk, Conversation
<1>4. Len(Tail(toClient)) = 0
  BY <1>1, <1>2
<1> QED
  BY <1>1, <1>3, <1>4, EmptySeq

LEMMA WriterAccounts ==
  ASSUME TypeOK, Lifecycle, Accounts, fault = "none", Writer PROVE Accounts'
<1>1. UNCHANGED <<owed, toClient>>
  BY DEF Writer, WriterStart, WriterSend, WriterJoin, WriterClearConnected,
         WriterClearDisconnecting, net, client
<1>2. CASE WriterStart
  <2>1. /\ UNCHANGED <<queue, toServer, isConnected>> /\ wr = "start" /\ wr' = "loop"
        /\ rd' = "recv"
    BY <1>2 DEF WriterStart, net, flags
  <2>2. \A e \in Ordinary : e \in Requests
    BY DEF Ordinary
  <2> QED
    BY <1>1, <2>1, <2>2 DEF Accounts, Early, Account, Over, Total, LogoutLast
<1>3. CASE WriterSend
  <2>1. /\ queue # <<>> /\ queue' = Tail(queue) /\ wr = "loop" /\ UNCHANGED <<isConnected, rd>>
        /\ wr' = IF Head(queue).type = "Logout" THEN "join" ELSE "loop"
    BY <1>3 DEF WriterSend, flags
  <2>2. LogoutLast' /\ (wr' # "loop" => \A e \in Ordinary : Count(e, queue') = 0)
    BY <2>1, TailLast DEF Accounts
  <2>3. \A e \in Requests : Total(e)' = Total(e)
    BY <1>3, SendTotal
  <2>4. ASSUME NEW e \in Ordinary PROVE Account(e)'
    <3>1. e \in Requests /\ Account(e)
      BY DEF Ordinary, Accounts
    <3> QED
      BY <1>1, <2>1, <2>2, <2>3, <3>1 DEF Account, Over
  <2> QED
    BY <2>1, <2>2, <2>3, <2>4 DEF Accounts, Early
<1>4. CASE WriterJoin \/ WriterClearConnected \/ WriterClearDisconnecting
  <2>1. /\ UNCHANGED <<queue, toServer, rd>> /\ wr \notin {"start", "loop"}
        /\ wr' \notin {"start", "loop"} /\ rd = "exited"
    BY <1>4 DEF WriterJoin, WriterClearConnected, WriterClearDisconnecting, net, Lifecycle
  <2> QED
    BY <1>1, <2>1 DEF Accounts, Early, Account, Over, Total, LogoutLast
<1> QED
  BY <1>2, <1>3, <1>4 DEF Writer

LEMMA TotalNext ==
  ASSUME TypeOK', NEW e \in Requests PROVE Total(e)' \in Int /\ owed'[e] \in Int
<1>1. /\ queue' \in Seq(Entries) /\ toServer' \in Seq(Entries) /\ toClient' \in Seq(Packets)
      /\ owed' \in [EventNames -> Int]
  BY DEF TypeOK, NetOK, ClientOK, Entries, Packets, EventNames, Replies
<1>2. Count(e, queue') \in Nat /\ Count(e, toServer') \in Nat /\ Count(e, toClient') \in Nat
  BY <1>1, CountType
<1> QED
  BY <1>1, <1>2 DEF Total, EventNames

LEMMA ReadingAccounts ==
  ASSUME TypeOK, TypeOK', Lifecycle, Talk, Arriving, NEW a \in Apps, Core(a)', Accounts,
         fault = "none", Reading
  PROVE  Accounts'
<1>1. /\ UNCHANGED <<wr, toServer>> /\ rd \notin {"off", "exited"} /\ UNCHANGED fault
      /\ UNCHANGED isConnected \/ isConnected'
  <2>1. UNCHANGED fault /\ (UNCHANGED isConnected \/ isConnected')
    BY DEF Reading, ReceiveLogin, Poll, ReceiveStatus, PublishConnected, PublishLoggedIn,
           ReceiveLogout, ReceiveExpired, ReceiveOther, HandlersReturn, flags
  <2>2. /\ UNCHANGED <<wr, toServer>> /\ rd \notin {"off", "exited"}
    BY ReadingTakes
  <2> QED
    BY <2>1, <2>2
<1>2. rd' = "last.handler" => wr = "join"
  BY <1>1 DEF Core, FlagsMean
<1>3. rd' \in {"off", "exited"} => rd = "last.handler"
  BY DEF Reading, ReceiveLogin, Poll, ReceiveStatus, PublishConnected, PublishLoggedIn,
         ReceiveLogout, ReceiveExpired, ReceiveOther, HandlersReturn, Raise, Receive,
         threads
<1>4. rd = "last.handler" => rd' \in {"last.handler", "exited"}
  BY DEF Reading, ReceiveLogin, Poll, ReceiveStatus, PublishConnected, PublishLoggedIn,
         ReceiveLogout, ReceiveExpired, ReceiveOther, HandlersReturn, Receive
<1>5. rd' = "last.handler" => rd = "last.handler" \/ ReceiveLogout
  BY DEF Reading, ReceiveLogin, Poll, ReceiveStatus, PublishConnected, PublishLoggedIn,
         ReceiveLogout, ReceiveExpired, ReceiveOther, HandlersReturn, Raise
<1>6. rd' \in {"off", "last.handler", "exited"} => wr' # "loop"
  BY <1>1, <1>2, <1>3 DEF Accounts
<1>7. ASSUME Early', NEW e \in Requests PROVE Total(e)' = 0
  <2>1. Early
    BY <1>1, <1>4, <1>7 DEF Early
  <2> QED
    BY <2>1, ReadingTotal DEF Accounts
<1>8. LogoutLast'
  <2>1. CASE UNCHANGED queue
    BY <2>1 DEF Accounts, LogoutLast
  <2>2. ASSUME NEW type \in {"GetParkingStatus", "GetNextExpired"}, NEW spot \in Nat,
               Enqueue(type, spot)
        PROVE  LogoutLast'
    <3> DEFINE x == [type |-> type, spot |-> spot, session |-> session]
    <3>1. x \in Entries /\ queue' = Append(queue, x) /\ x.type = type
      BY <2>2 DEF Enqueue, Entries, RequestTypes, TypeOK, ClientOK
    <3>2. type \notin Ordinary
      BY TotalType DEF Ordinary
    <3> QED
      BY <3>1, <3>2, AppendLast DEF Accounts
  <2> QED
    BY <2>1, <2>2, ReadingEnqueues
<1>9. ASSUME NEW e \in Ordinary PROVE Account(e)'
  <2>1. /\ e \in Requests /\ Account(e) /\ Count(e, queue') = Count(e, queue)
        /\ owed'[e] - owed[e] = Total(e)' - Total(e)
    BY ReadingTotal DEF Ordinary, Accounts
  <2>2. owed'[e] = Total(e)'
    BY <2>1, TotalType, TotalNext DEF Account, Total
  <2>3. ASSUME Over' PROVE owed'[e] = 0
    <3>1. CASE Over
      <4>1. Total(e) = 0
        BY <2>1, <3>1 DEF Account
      <4> QED
        BY <2>1, <2>2, <4>1, ReadingTotal
    <3>2. CASE ~Over
      <4>1. ReceiveLogout /\ wr' = "join"
        BY <1>1, <1>2, <1>3, <1>5, <2>3, <3>2 DEF Over
      <4>2. /\ toClient # <<>> /\ Head(toClient).type = "Logout"
            /\ toClient' = Tail(toClient)
        BY <4>1 DEF ReceiveLogout, Receive
      <4>3. toServer' = <<>> /\ toClient' = <<>>
        BY <1>1, <4>2, LogoutArrives
      <4>4. Count(e, queue') = 0
        BY <1>1, <2>1, <4>1 DEF Account
      <4>5. Total(e)' = 0
        <5>1. Count(e, toServer') = 0 /\ Count(e, toClient') = 0
          BY <4>3, CountEmpty
        <5> QED
          BY <4>4, <5>1 DEF Total
      <4> QED
        BY <2>2, <4>5
    <3> QED
      BY <3>1, <3>2
  <2> QED
    BY <1>1, <2>1, <2>2, <2>3 DEF Account
<1> QED
  BY <1>6, <1>7, <1>8, <1>9 DEF Accounts

(* Neither is inductive without the other: a handler that runs knows that  *)
(* m_IsConnected is set because no request was owed before, and none is    *)
(* made out of turn because of what the callers know.                      *)
LEMMA InitCore ==
  ASSUME CarefulClient, NEW a \in Apps, Init PROVE Core(a) /\ Accounts
<1>1. /\ ~isConnected /\ ~isDisconnecting /\ wr = "off" /\ rd = "off" /\ view = "out"
      /\ pc[a] = "idle" /\ by[a] = "client" /\ pc[Reader] = "idle"
  BY DEF Init, CarefulClient, Callers
<1>2. FlagsMean /\ LogoutMarked(a) /\ LogoutBehind(a) /\ Standing(a)
  BY <1>1 DEF FlagsMean, LogoutMarked, Marked, Sent, LogoutBehind, Standing, Entering, Over
<1>3. At(pc[a], by[a]) /\ Sides(a) /\ ReaderAt
  BY <1>1
  DEF At, Sides, Asks, ReaderAt, LogoutLabels, CleanupLabels, RequestLabels
<1>4. \A e \in Requests : owed[e] = 0 /\ Count(e, queue) = 0 /\ Total(e) = 0
  BY CountEmpty DEF Init, Total, EventNames
<1>5. \A e \in Ordinary : e \in Requests
  BY DEF Ordinary
<1>6. LogoutLast
  BY DEF Init, LogoutLast
<1> QED
  BY <1>1, <1>2, <1>3, <1>4, <1>5, <1>6 DEF Core, Accounts, Account

LEMMA NextCore ==
  ASSUME CarefulClient, KnownAnswers, TypeOK, Lifecycle, HandlersDone, Talk, Attempt, Answer,
         OwnCalls, RefusedLogin, Parting, Ended, NothingUnknown, NEW a \in Apps, Core(a),
         Accounts, Next
  PROVE  Core(a)'
<1>1. fault = "none"
  BY StoppedStays DEF Ended
<1>2. CASE ThreadThrows \/ \E t \in Callers : JoinDeleted(t)
  BY <1>2 DEF ThreadThrows, JoinDeleted, ProcessEnds, Core
<1>3. ASSUME NEW t \in Callers, Call(t) \/ Continue(t), ~JoinDeleted(t) PROVE Core(a)'
  <2>1. t = a \/ t = Reader
    BY DEF Callers, CarefulClient
  <2>2. CASE t = Reader
    BY <1>1, <1>3, <2>2, HandlerCore
  <2>3. CASE t = a
    BY <1>1, <1>3, <2>3, CallCore, GuardCore, ReturnCore, LogoutCore, BeginCore, JoinCore
    DEF Continue, Login, Logout, Request, Set, Cleanup, Returns
  <2> QED
    BY <2>1, <2>2, <2>3
<1>4. CASE ServerAnswers \/ ServerPushes
  <2>1. UNCHANGED <<isConnected, isDisconnecting, queue, wr, rd, latestLogin, pc, by, view,
                    fault>>
    BY <1>4 DEF ServerAnswers, ServerPushes, flags, threads, client
  <2>2. (Unread' => Unread) /\ (LogoutWaits' <=> LogoutWaits)
    BY <1>4, <2>1, ServerUnread, CarefulIsSingle DEF LogoutWaits, Has
  <2>3. FlagsMean' /\ LogoutBehind(a)' /\ LogoutMarked(a)'
    BY <1>1, <2>1, <2>2
    DEF Core, FlagsMean, LogoutBehind, LogoutMarked, Marked, Sent, Entering
  <2>4. Standing(a)'
    BY <1>1, <2>1, <2>2 DEF Core, Standing, Over, Pending
  <2>5. At(pc[a], by[a])'
    BY <1>1, <2>1, <2>2 DEF Core, At, Open
  <2>6. Sides(a)' /\ ReaderAt'
    BY <1>1, <2>1 DEF Core, Sides, Asks, ReaderAt, HandlerAt
  <2> QED
    BY <1>1, <2>1, <2>3, <2>4, <2>5, <2>6 DEF Core
<1> QED
  BY <1>1, <1>2, <1>3, <1>4, WriterCore, ReadingCore DEF Next

LEMMA NextAccounts ==
  ASSUME CarefulClient, TypeOK, TypeOK', Lifecycle, HandlersDone, Talk, OwnCalls,
         RefusedLogin, Ended, Parting, NEW a \in Apps, Core(a), Core(a)', Accounts, Next
  PROVE  Accounts'
<1>1. fault = "none"
  BY StoppedStays DEF Ended
<1>2. ASSUME NEW t \in Callers, Call(t) \/ Continue(t) PROVE Accounts'
  <2>1. CASE JoinDeleted(t)
    BY <2>1 DEF JoinDeleted, ProcessEnds, Accounts
  <2>2. CASE ~JoinDeleted(t)
    BY <1>1, <1>2, <2>2, CallerAccounts
  <2> QED
    BY <2>1, <2>2
<1>3. CASE Writer
  BY <1>1, <1>3, WriterAccounts
<1>4. CASE Reading
  BY <1>1, <1>4, ReadingAccounts DEF Parting
<1>5. CASE ThreadThrows
  BY <1>5 DEF ThreadThrows, ProcessEnds, Accounts
<1>6. CASE ServerAnswers \/ ServerPushes
  <2>1. UNCHANGED <<isConnected, queue, wr, rd, owed, fault>>
    BY <1>6 DEF ServerAnswers, ServerPushes, flags, threads, client
  <2>2. \A e \in Requests : Total(e)' = Total(e)
    BY <1>6, ServerTotal
  <2>3. \A e \in Ordinary : e \in Requests
    BY DEF Ordinary
  <2> QED
    BY <2>1, <2>2, <2>3 DEF Accounts, Account, Early, Over, LogoutLast
<1> QED
  BY <1>2, <1>3, <1>4, <1>5, <1>6 DEF Next

LEMMA CoreAccountsInvariant ==
  ASSUME CarefulClient, KnownAnswers, NEW a \in Apps PROVE Spec => [](Core(a) /\ Accounts)
<1> USE CarefulIsSingle
<1>1. Init => Core(a) /\ Accounts
  BY InitCore
<1>2. /\ TypeOK /\ TypeOK' /\ Lifecycle /\ HandlersDone /\ Talk /\ Attempt /\ Answer
      /\ OwnCalls /\ RefusedLogin /\ Parting /\ Ended /\ NothingUnknown
      /\ Core(a) /\ Accounts /\ [Next]_vars
      => Core(a)' /\ Accounts'
  <2>1. ASSUME TypeOK, TypeOK', Lifecycle, HandlersDone, Talk, Attempt, Answer, OwnCalls,
               RefusedLogin, Parting, Ended, NothingUnknown, Core(a), Accounts, Next
        PROVE  Core(a)' /\ Accounts'
    BY <2>1, NextCore, NextAccounts
  <2>2. ASSUME Core(a), UNCHANGED vars PROVE Core(a)'
    BY <2>2
    DEF Core, FlagsMean, LogoutMarked, Marked, Sent, LogoutBehind, Standing, At, Sides, Asks,
        ReaderAt, HandlerAt, Entering, Over, Open, Pending, LogoutWaits, Unread, Has, vars,
        flags, threads, net, client
  <2>3. ASSUME Accounts, UNCHANGED vars PROVE Accounts'
    BY <2>3
    DEF Accounts, Account, Early, Over, LogoutLast, Total, vars, flags, threads, net, client
  <2> QED
    BY <2>1, <2>2, <2>3
<1> QED
  BY <1>1, <1>2, TypeCorrect, LifecycleInvariant, HandlersDoneInvariant, TalkInvariant,
     AttemptInvariant, AnswerInvariant, OwnCallsInvariant, RefusedInvariant,
     PartingInvariant, EndedInvariant, NothingUnknownInvariant, PTL
  DEF Spec

LEMMA CoreInvariant ==
  ASSUME CarefulClient, KnownAnswers, NEW a \in Apps PROVE Spec => []Core(a)
BY CoreAccountsInvariant, PTL

LEMMA AccountsInvariant ==
  ASSUME CarefulClient, KnownAnswers, NEW a \in Apps PROVE Spec => []Accounts
BY CoreAccountsInvariant, PTL

(* Without a client there is no session.                                   *)
Nobody ==
  /\ ~isConnected /\ ~isDisconnecting /\ wr = "off" /\ rd = "off" /\ server = "none"
  /\ pc[Reader] = "idle"

LEMMA NobodyMoves == ASSUME Apps = {}, Nobody, Next PROVE FALSE
<1>1. ASSUME NEW t \in Callers, Call(t) \/ Continue(t) PROVE FALSE
  <2>1. t = Reader
    BY DEF Callers
  <2> QED
    BY <1>1, <2>1
    DEF Nobody, Call, Begin, Continue, Refuse, Refusals, Branch, Login, LoginGuard,
        LoginBadArguments, LoginClaim, Join, LoginClear, Connect, ConnectThrows,
        LoginEnqueue, LoginSpawn, LoginAssign, Logout, LogoutGuard, LogoutClaim,
        LogoutEnqueue, Request, RequestGuard, RequestEnqueue, RequestBadArguments, Set,
        SetGuard, SetApply, Cleanup, CleanupGuard, CleanupLogout, JoinDeleted
<1>2. CASE Writer \/ ThreadThrows \/ ServerAnswers \/ ServerPushes
  BY <1>2
  DEF Nobody, Writer, WriterStart, WriterSend, WriterJoin, WriterClearConnected,
      WriterClearDisconnecting, ThreadThrows, ServerAnswers, ServerPushes
<1>3. CASE Reading
  BY <1>3, ReadingTakes DEF Nobody
<1> QED
  BY <1>1, <1>2, <1>3 DEF Next

LEMMA NobodyInvariant == ASSUME CarefulClient, Apps = {} PROVE Spec => []Nobody
<1>1. Init => Nobody
  BY DEF Init, Nobody, CarefulClient, Callers
<1>2. Nobody /\ [Next]_vars => Nobody'
  <2>1. ASSUME Nobody, UNCHANGED vars PROVE Nobody'
    BY <2>1 DEF Nobody, vars, flags, threads, net
  <2> QED
    BY <2>1, NobodyMoves
<1> QED
  BY <1>1, <1>2, PTL DEF Spec

(* m_IsDisconnecting is clear when a deleted thread object is used: no     *)
(* Login has come as far since.                                            *)
DeletedCalm == fault = "deleted" => ~isDisconnecting \/ view = "gone"

LEMMA DeletedCalmInvariant ==
  ASSUME CarefulClient, KnownAnswers, NEW a \in Apps PROVE Spec => []DeletedCalm
<1> USE CarefulIsSingle
<1>1. Init => DeletedCalm
  BY DEF Init, DeletedCalm
<1>2. TypeOK /\ Lifecycle /\ HandlersDone /\ Ended /\ Core(a) /\ DeletedCalm /\ [Next]_vars
      => DeletedCalm'
  <2>1. ASSUME TypeOK, Lifecycle, HandlersDone, Ended, Core(a), DeletedCalm, Next
        PROVE  DeletedCalm'
    <3>1. fault = "none"
      BY <2>1, StoppedStays DEF Ended
    <3>2. ASSUME NEW t \in Callers, JoinDeleted(t) PROVE DeletedCalm'
      <4>1. /\ UNCHANGED <<isDisconnecting, view>> /\ writingThread = "deleted"
            /\ pc[t] \in {"login.join", "cleanup.join"}
        BY <3>2 DEF JoinDeleted, ProcessEnds, flags, client
      <4>2. t = a
        BY <2>1, <4>1 DEF Lifecycle, HandlerLabels, Callers, CarefulClient
      <4>3. wr = "off" /\ rd = "off" /\ pc[Reader] # "logout.enqueue"
        BY <2>1, <4>1, <4>2 DEF Lifecycle, HandlersDone
      <4> QED
        BY <2>1, <3>1, <4>1, <4>2, <4>3 DEF Core, LogoutBehind, Sent, DeletedCalm
    <3>3. CASE ThreadThrows
      BY <3>3 DEF ThreadThrows, ProcessEnds, DeletedCalm
    <3> QED
      BY <2>1, <3>1, <3>2, <3>3, EndsOrGoesOn DEF DeletedCalm
  <2>2. ASSUME DeletedCalm, UNCHANGED vars PROVE DeletedCalm'
    BY <2>2 DEF DeletedCalm, vars, flags, client
  <2> QED
    BY <2>1, <2>2
<1> QED
  BY <1>1, <1>2, TypeCorrect, LifecycleInvariant, HandlersDoneInvariant, EndedInvariant,
     CoreInvariant, PTL
  DEF Spec

(* m_IsDisconnecting is never left set without a Logout that will be sent  *)
(* and answered, so that it is cleared again, unless an exception has      *)
(* ended the process: a client that has been logged out can log in again.  *)
THEOREM FlagHasLogout ==
  ASSUME CarefulClient, KnownAnswers
  PROVE  Spec => [](fault # "terminate" => DisconnectingHasLogout)
<1>1. CASE Apps = {}
  <2>1. Nobody => DisconnectingHasLogout
    BY DEF Nobody, DisconnectingHasLogout
  <2> QED
    BY <1>1, <2>1, NobodyInvariant, PTL
<1>2. ASSUME NEW a \in Apps
      PROVE  Spec => [](fault # "terminate" => DisconnectingHasLogout)
  <2>1. TypeOK /\ Core(a) /\ DeletedCalm /\ fault # "terminate" => DisconnectingHasLogout
    <3>1. ASSUME TypeOK, Core(a), fault = "none" PROVE DisconnectingHasLogout
      <4>1. LogoutBehind(a) /\ a \in Callers /\ Reader \in Callers
        BY <3>1 DEF Core, Callers
      <4> QED
        BY <4>1 DEF LogoutBehind, Sent, LogoutWaits, Has, DisconnectingHasLogout
    <3>2. ASSUME DeletedCalm, fault = "deleted" PROVE DisconnectingHasLogout
      BY <3>2 DEF DeletedCalm, DisconnectingHasLogout
    <3> QED
      BY <3>1, <3>2 DEF TypeOK
  <2> QED
    BY <2>1, TypeCorrect, CoreInvariant, DeletedCalmInvariant, PTL
<1> QED
  BY <1>1, <1>2

(* A request always finds the writing thread in its loop and no Logout     *)
(* before it in the queue, whether the client's thread or a handler makes  *)
(* it.                                                                     *)
THEOREM RequestsAreSent ==
  ASSUME CarefulClient, KnownAnswers PROVE Spec => []RequestsOnlyInSession
<1> USE CarefulIsSingle
<1>1. CASE Apps = {}
  <2>1. Nobody => RequestsOnlyInSession
    BY <1>1 DEF Nobody, RequestsOnlyInSession, Callers
  <2> QED
    BY <1>1, <2>1, NobodyInvariant, PTL
<1>2. ASSUME NEW a \in Apps PROVE Spec => []RequestsOnlyInSession
  <2>1. TypeOK /\ Lifecycle /\ OwnCalls /\ Core(a) /\ RefusedLogin /\ Ended
        => RequestsOnlyInSession
    BY AskersKnow DEF RequestsOnlyInSession, Open, LogoutWaits, Has
  <2> QED
    BY <2>1, TypeCorrect, LifecycleInvariant, OwnCallsInvariant, CoreInvariant,
       RefusedInvariant, EndedInvariant, PTL
<1> QED
  BY <1>1, <1>2

(* Whoever stands before the store of SetNumberOfParkingSpots has found    *)
(* the session over, or runs the last handlers of it.                      *)
LEMMA SettersKnow ==
  ASSUME CarefulClient, TypeOK, Lifecycle, NEW a \in Apps, Core(a), RefusedLogin,
         fault = "none", NEW t \in Callers, pc[t] = "set.apply"
  PROVE  ~isConnected /\ rd \in {"off", "last.handler", "exited"}
<1>1. CASE t = Reader
  <2>1. by[Reader] = "client"
    BY <1>1 DEF RefusedLogin, LogoutLabels, Lifecycle, TypeOK, CallersOK
  <2> QED
    BY <1>1, <2>1 DEF Core, ReaderAt, HandlerAt
<1>2. CASE t # Reader
  <2>1. t = a
    BY <1>2 DEF CarefulClient, Callers
  <2> QED
    BY <2>1 DEF Core, At, Standing, Over
<1> QED
  BY <1>1, <1>2

(* The array of statuses is never replaced while the reading thread may    *)
(* read its size or its elements: SetNumberOfParkingSpots has found the    *)
(* session over, and no other call can begin the next.                     *)
THEOREM CacheKept ==
  ASSUME CarefulClient, KnownAnswers PROVE Spec => CacheKeptWhileReading
<1> USE CarefulIsSingle
<1>1. CASE Apps = {}
  <2>1. Nobody => ~(rd \notin {"off", "last.handler", "exited"})
    BY DEF Nobody
  <2> QED
    BY <1>1, <2>1, NobodyInvariant, PTL DEF CacheKeptWhileReading
<1>2. ASSUME NEW a \in Apps PROVE Spec => CacheKeptWhileReading
  <2>1. TypeOK /\ Lifecycle /\ Core(a) /\ RefusedLogin /\ Ended /\ [Next]_vars
        => [store' # store /\ rd \notin {"off", "last.handler", "exited"}
              => spots' = spots]_vars
    <3>1. ASSUME TypeOK, Lifecycle, Core(a), RefusedLogin, Ended, Next,
                 rd \notin {"off", "last.handler", "exited"}
          PROVE  spots' = spots
      <4>1. fault = "none"
        BY <3>1, StoppedStays DEF Ended
      <4>2. ASSUME NEW t \in Callers, Call(t) \/ Continue(t) PROVE spots' = spots
        <5>1. ~SetApply(t)
          BY <3>1, <4>1, SettersKnow DEF SetApply
        <5> QED
          BY <4>2, <5>1
          DEF Call, Begin, Continue, Refuse, Branch, Login, LoginGuard,
              LoginBadArguments, LoginClaim, Join, LoginClear, Connect, ConnectThrows,
              LoginEnqueue, LoginSpawn, LoginAssign, Logout, LogoutGuard, LogoutClaim,
              LogoutEnqueue, Request, RequestGuard, RequestEnqueue, RequestBadArguments,
              Set, SetGuard, Cleanup, CleanupGuard, CleanupLogout, JoinDeleted,
              ProcessEnds, store
      <4>3. CASE Writer \/ Reading \/ ThreadThrows \/ ServerAnswers \/ ServerPushes
        BY <4>3
        DEF Writer, WriterStart, WriterSend, WriterJoin, WriterClearConnected,
            WriterClearDisconnecting, Reading, ReceiveLogin, Poll, ReceiveStatus,
            PublishConnected, PublishLoggedIn, ReceiveLogout, ReceiveExpired, ReceiveOther,
            HandlersReturn, ThreadThrows, ProcessEnds, ServerAnswers, ServerPushes, store
      <4> QED
        BY <3>1, <4>2, <4>3 DEF Next
    <3> QED
      BY <3>1
  <2> QED
    BY <2>1, TypeCorrect, LifecycleInvariant, CoreInvariant, RefusedInvariant,
       EndedInvariant, PTL
    DEF Spec, CacheKeptWhileReading
<1> QED
  BY <1>1, <1>2

-----------------------------------------------------------------------------
(* The cache.                                                              *)

\* Every status is of this session, or has been cleared in it.
OwnStatuses == \A id \in 1 .. spots : cache[id] \in {0, session}
AllStatuses == \A id \in 1 .. spots : cache[id] = session

(* How the array fills while a session is entered.                         *)
FreshCache ==
  /\ rd = "poll" => \A id \in 1 .. spots : id < nextSpot => cache[id] \in {0, session}
  /\ rd \in {"recv", "handler"} /\ latestLogin = "Success" /\ ~isConnected => OwnStatuses
  /\ rd \in {"connected", "connecting"} => AllStatuses
  /\ isConnected /\ rd \notin {"off", "exited"} => AllStatuses

LEMMA CallerFresh ==
  ASSUME CarefulClient, TypeOK, Lifecycle, HandlersDone, RefusedLogin, NEW a \in Apps,
         Core(a), fault = "none", FreshCache, NEW t \in Callers, Call(t) \/ Continue(t)
  PROVE  FreshCache'
<1>1. CASE JoinDeleted(t)
  BY <1>1 DEF JoinDeleted, ProcessEnds, FreshCache
<1>2. CASE Join(t, "login.join", "login.clear") \/ Join(t, "cleanup.join", "idle")
  <2>1. (UNCHANGED rd \/ rd' = "off")
        /\ UNCHANGED <<spots, cache, session, latestLogin, isConnected, nextSpot>>
    BY <1>2 DEF Join, flags, store, client
  <2> QED
    BY <2>1 DEF FreshCache, OwnStatuses, AllStatuses
<1>3. CASE LoginClear(t)
  <2>1. t # Reader
    BY <1>3 DEF LoginClear, Lifecycle, HandlerLabels
  <2>2. rd = "off" /\ UNCHANGED rd
    BY <1>3, <2>1 DEF LoginClear, Lifecycle, Starting, Callers, threads
  <2> QED
    BY <2>2 DEF FreshCache
<1>4. CASE SetApply(t)
  <2>1. ~isConnected /\ rd \in {"off", "last.handler", "exited"}
    BY <1>4, SettersKnow DEF SetApply
  <2>2. UNCHANGED <<rd, isConnected>>
    BY <1>4 DEF SetApply, flags, threads
  <2> QED
    BY <2>1, <2>2 DEF FreshCache
<1>5. CASE ~(\/ JoinDeleted(t) \/ Join(t, "login.join", "login.clear")
             \/ Join(t, "cleanup.join", "idle") \/ LoginClear(t) \/ SetApply(t))
  <2>1. UNCHANGED <<rd, spots, cache, session, latestLogin, isConnected, nextSpot>>
    BY <1>5
    DEF Call, Begin, Continue, Refuse, Branch, Login, LoginGuard,
        LoginBadArguments, LoginClaim, Connect, ConnectThrows,
        LoginEnqueue, LoginSpawn, LoginAssign, Logout, LogoutGuard, LogoutClaim,
        LogoutEnqueue, Request, RequestGuard, RequestEnqueue, RequestBadArguments,
        Set, SetGuard, Cleanup, CleanupGuard, CleanupLogout, store, flags, threads, client
  <2> QED
    BY <2>1 DEF FreshCache, OwnStatuses, AllStatuses
<1> QED
  BY <1>1, <1>2, <1>3, <1>4, <1>5

LEMMA ReadingFresh ==
  ASSUME TypeOK, Attempt, Answer, NEW a \in Apps, Core(a), fault = "none", FreshCache, Reading
  PROVE  FreshCache'
<1>1. UNCHANGED <<spots, session>> /\ cache \in [1 .. spots -> Nat] /\ FlagsMean
  BY DEF Reading, ReceiveLogin, Poll, ReceiveStatus, PublishConnected, PublishLoggedIn,
         ReceiveLogout, ReceiveExpired, ReceiveOther, HandlersReturn, store, client, Core,
         TypeOK, StoreOK
<1>2. CASE ReceiveLogin
  <2>1. /\ rd = "recv" /\ rd' \in {"recv", "poll"} /\ UNCHANGED <<cache, isConnected>>
        /\ rd' = "recv" => latestLogin' # "Success"
        /\ rd' = "poll" => nextSpot' = 1
        /\ toClient # <<>> /\ Head(toClient).type = "Login"
    BY <1>2 DEF ReceiveLogin, Receive, flags, store
  <2>2. Unread
    BY <2>1, TailHas DEF TypeOK, NetOK, Unread
  <2>3. ~isConnected
    BY <1>1, <2>1, <2>2 DEF FlagsMean, Answer
  <2>4. rd' = "poll" => \A id \in 1 .. spots : ~(id < nextSpot')
    BY <2>1 DEF TypeOK, StoreOK
  <2> QED
    BY <1>1, <2>1, <2>3, <2>4 DEF FreshCache
<1>3. CASE Poll
  <2>1. ~isConnected /\ UNCHANGED isConnected /\ rd = "poll"
    BY <1>1, <1>3 DEF Poll, FlagsMean, flags
  <2>2. CASE nextSpot <= spots
    <3>1. /\ rd' = "poll" /\ nextSpot' = nextSpot + 1
          /\ cache' = [cache EXCEPT ![nextSpot] = 0]
      BY <1>3, <2>1, <2>2 DEF Poll
    <3>2. ASSUME NEW id \in 1 .. spots, id < nextSpot + 1 PROVE cache'[id] \in {0, session}
      <4>0. id \in Nat /\ nextSpot \in Nat
        <5>1. spots \in Nat /\ nextSpot \in Nat
          BY DEF TypeOK, ThreadsOK, StoreOK
        <5> QED
          BY <5>1
      <4>1. id = nextSpot \/ id < nextSpot
        BY <3>2, <4>0
      <4> QED
        BY <1>1, <2>1, <3>1, <4>1 DEF FreshCache
    <3> QED
      BY <1>1, <2>1, <3>1, <3>2 DEF FreshCache
  <2>3. CASE ~(nextSpot <= spots)
    <3>1. rd' = "recv" /\ UNCHANGED cache
      BY <1>3, <2>3 DEF Poll
    <3>2. \A id \in 1 .. spots : id < nextSpot
      <4>1. spots \in Nat /\ nextSpot \in Nat
        BY DEF TypeOK, ThreadsOK, StoreOK
      <4> QED
        BY <2>3, <4>1
    <3>3. OwnStatuses
      BY <2>1, <3>2 DEF FreshCache, OwnStatuses
    <3> QED
      BY <1>1, <2>1, <3>1, <3>3 DEF FreshCache, OwnStatuses
  <2> QED
    BY <2>2, <2>3
<1>4. CASE ReceiveStatus
  <2>1. /\ rd = "recv" /\ toClient # <<>> /\ Head(toClient).type = "GetParkingStatus"
        /\ UNCHANGED <<isConnected, latestLogin>>
    BY <1>4 DEF ReceiveStatus, Receive, flags
  <2>2. latestLogin = "Success"
    BY <2>1, TailHas DEF TypeOK, NetOK, Answer, Granted, Statuses
  <2>3. \/ UNCHANGED <<cache, rd>>
        \/ /\ \E id \in 1 .. spots : cache' = [cache EXCEPT ![id] = session]
           /\ IF isConnected THEN rd' = "handler"
              ELSE rd' = IF AllValid(cache') THEN "connected" ELSE "recv"
    BY <1>4 DEF ReceiveStatus, Raise
  <2>4. CASE UNCHANGED <<cache, rd>>
    BY <1>1, <2>1, <2>4 DEF FreshCache, OwnStatuses, AllStatuses
  <2>5. CASE isConnected /\ ~UNCHANGED <<cache, rd>>
    <3>1. AllStatuses /\ rd' = "handler"
      BY <2>1, <2>3, <2>5 DEF FreshCache
    <3>2. AllStatuses'
      BY <1>1, <2>3, <2>5, <3>1 DEF AllStatuses
    <3> QED
      BY <2>1, <2>5, <3>1, <3>2 DEF FreshCache
  <2>6. CASE ~isConnected /\ ~UNCHANGED <<cache, rd>>
    <3>1. OwnStatuses
      BY <2>1, <2>2, <2>6 DEF FreshCache
    <3>2. OwnStatuses' /\ DOMAIN cache' = 1 .. spots
      BY <1>1, <2>3, <2>6, <3>1 DEF OwnStatuses
    <3>3. AllValid(cache') => AllStatuses'
      BY <1>1, <3>2 DEF AllValid, OwnStatuses, AllStatuses
    <3> QED
      BY <2>1, <2>3, <2>6, <3>2, <3>3 DEF FreshCache
  <2> QED
    BY <2>4, <2>5, <2>6
<1>5. CASE PublishConnected
  BY <1>1, <1>5
  DEF PublishConnected, FreshCache, OwnStatuses, AllStatuses, store
<1>6. CASE PublishLoggedIn
  <2>1. isConnected
    BY <1>6 DEF PublishLoggedIn, Attempt
  <2> QED
    BY <1>1, <1>6, <2>1
    DEF PublishLoggedIn, Raise, FreshCache, OwnStatuses, AllStatuses, store
<1>7. CASE ReceiveLogout \/ ReceiveExpired \/ ReceiveOther
  <2>1. /\ rd = "recv" /\ rd' \in {"recv", "handler", "last.handler"}
        /\ UNCHANGED <<cache, isConnected, latestLogin>>
    BY <1>7
    DEF ReceiveLogout, ReceiveExpired, ReceiveOther, Receive, Raise, flags, store
  <2> QED
    BY <1>1, <2>1 DEF FreshCache, OwnStatuses, AllStatuses
<1>8. CASE HandlersReturn
  BY <1>1, <1>8 DEF HandlersReturn, FreshCache, OwnStatuses, AllStatuses, flags, store
<1> QED
  BY <1>2, <1>3, <1>4, <1>5, <1>6, <1>7, <1>8 DEF Reading

LEMMA FreshCacheInvariant ==
  ASSUME CarefulClient, KnownAnswers, NEW a \in Apps PROVE Spec => []FreshCache
<1> USE CarefulIsSingle
<1>1. Init => FreshCache
  BY DEF Init, FreshCache
<1>2. /\ TypeOK /\ Lifecycle /\ HandlersDone /\ Attempt /\ Answer /\ RefusedLogin /\ Ended
      /\ Core(a) /\ FreshCache /\ [Next]_vars
      => FreshCache'
  <2>1. ASSUME TypeOK, Lifecycle, HandlersDone, Attempt, Answer, RefusedLogin, Ended,
               Core(a), FreshCache, Next
        PROVE  FreshCache'
    <3>1. fault = "none"
      BY <2>1, StoppedStays DEF Ended
    <3>2. CASE WriterStart
      BY <2>1, <3>1, <3>2
      DEF WriterStart, flags, Core, FlagsMean, FreshCache
    <3>3. CASE Writer /\ ~WriterStart
      <4>1. /\ UNCHANGED <<rd, spots, cache, session, latestLogin, nextSpot>>
            /\ UNCHANGED isConnected \/ rd = "exited"
        BY <2>1, <3>3
        DEF Writer, WriterSend, WriterJoin, WriterClearConnected,
            WriterClearDisconnecting, flags, store, client, Lifecycle
      <4> QED
        BY <2>1, <4>1 DEF FreshCache, OwnStatuses, AllStatuses
    <3>4. CASE ThreadThrows
      BY <3>4 DEF ThreadThrows, ProcessEnds, FreshCache
    <3>5. CASE ServerAnswers \/ ServerPushes
      BY <2>1, <3>5
      DEF ServerAnswers, ServerPushes, flags, store, threads, client, FreshCache,
          OwnStatuses, AllStatuses
    <3> QED
      BY <2>1, <3>1, <3>2, <3>3, <3>4, <3>5, CallerFresh, ReadingFresh DEF Next
  <2>2. ASSUME FreshCache, UNCHANGED vars PROVE FreshCache'
    BY <2>2 DEF FreshCache, OwnStatuses, AllStatuses, vars, flags, store, threads, client
  <2> QED
    BY <2>1, <2>2
<1> QED
  BY <1>1, <1>2, TypeCorrect, LifecycleInvariant, HandlersDoneInvariant, AttemptInvariant,
     AnswerInvariant, RefusedInvariant, EndedInvariant, CoreInvariant, PTL
  DEF Spec

(* While a session runs, m_IsConnected is set only after the server has    *)
(* accepted the Login and reported every status in this very session: the  *)
(* client is never told it is logged in over statuses of an earlier one.   *)
THEOREM ConnectedIsFresh ==
  ASSUME CarefulClient, KnownAnswers PROVE Spec => []ConnectedMeansFresh
<1>1. CASE Apps = {}
  <2>1. Nobody => ConnectedMeansFresh
    BY DEF Nobody, ConnectedMeansFresh
  <2> QED
    BY <1>1, <2>1, NobodyInvariant, PTL
<1>2. ASSUME NEW a \in Apps PROVE Spec => []ConnectedMeansFresh
  <2>1. Core(a) /\ Ended /\ FreshCache => ConnectedMeansFresh
    BY DEF Core, Ended, Stopped, FlagsMean, FreshCache, AllStatuses, ConnectedMeansFresh
  <2> QED
    BY <2>1, CoreInvariant, EndedInvariant, FreshCacheInvariant, PTL
<1> QED
  BY <1>1, <1>2

-----------------------------------------------------------------------------
(* An event is being reported only while its handlers run.                 *)
EventIdle == fault = "none" => (rd \notin {"handler", "last.handler"} => event = NoEvent)

LEMMA EventIdleInvariant == ASSUME SingleClient PROVE Spec => []EventIdle
<1>1. Init => EventIdle
  BY DEF Init, EventIdle
<1>2. TypeOK /\ Lifecycle /\ HandlersDone /\ EventIdle /\ Ended /\ [Next]_vars => EventIdle'
  <2>1. ASSUME TypeOK, Lifecycle, HandlersDone, EventIdle, Ended, Next PROVE EventIdle'
    <3>1. fault = "none"
      BY <2>1, StoppedStays DEF Ended
    <3>2. ASSUME NEW t \in Callers, Call(t) \/ Continue(t) PROVE EventIdle'
      <4>1. CASE JoinDeleted(t)
        BY <4>1 DEF JoinDeleted, ProcessEnds, EventIdle
      <4>2. CASE ~JoinDeleted(t)
        <5>1. UNCHANGED event
          BY <3>2, <4>2, CallerCases
          DEF Quiet, LoginGuard, LogoutGuard, Branch, LoginClaim, LogoutClaim, Join, LoginClear,
              Connect, ConnectThrows, LoginSpawn, LoginAssign, LoginEnqueue, LogoutEnqueue,
              RequestEnqueue, threads
        <5>2. UNCHANGED rd \/ rd \in {"off", "exited"}
          BY <2>1, <3>2, <4>2, CallerThreads
        <5> QED
          BY <2>1, <3>1, <5>1, <5>2 DEF EventIdle
      <4> QED
        BY <4>1, <4>2
    <3>3. CASE Writer
      BY <2>1, <3>1, <3>3
      DEF Writer, WriterStart, WriterSend, WriterJoin, WriterClearConnected,
          WriterClearDisconnecting, Lifecycle, EventIdle
    <3>4. CASE Reading
      BY <2>1, <3>1, <3>4
      DEF Reading, ReceiveLogin, Poll, ReceiveStatus, PublishConnected, PublishLoggedIn,
          ReceiveLogout, ReceiveExpired, ReceiveOther, HandlersReturn, Raise, Receive, EventIdle
    <3>5. CASE ThreadThrows
      BY <3>5 DEF ThreadThrows, ProcessEnds, EventIdle
    <3>6. CASE ServerAnswers \/ ServerPushes
      BY <2>1, <3>6 DEF ServerAnswers, ServerPushes, threads, EventIdle
    <3> QED
      BY <2>1, <3>2, <3>3, <3>4, <3>5, <3>6 DEF Next
  <2>2. ASSUME EventIdle, UNCHANGED vars PROVE EventIdle'
    BY <2>2 DEF EventIdle, vars, threads
  <2> QED
    BY <2>1, <2>2
<1> QED
  BY <1>1, <1>2, TypeCorrect, LifecycleInvariant, HandlersDoneInvariant, EndedInvariant, PTL
  DEF Spec

-----------------------------------------------------------------------------
(* The session's two ends.                                                 *)

LEMMA ViewWhileRunning ==
  ASSUME TypeOK, Lifecycle, NEW a \in Apps, Core(a), fault = "none"
  PROVE  /\ Pending => view = "pending"
         /\ rd \in {"recv", "handler"} /\ isConnected => view \in {"in", "leaving", "gone"}
<1>1. Standing(a) /\ view \in {"out", "pending", "in", "leaving", "gone"}
  BY DEF Core, TypeOK, ClientOK, Views
<1>2. Pending => view = "pending"
  BY <1>1 DEF Standing, Pending, Over, Lifecycle
<1>3. rd \in {"recv", "handler"} /\ isConnected => view \in {"in", "leaving", "gone"}
  BY <1>1 DEF Standing, Pending, Over, Lifecycle, Starting
<1> QED
  BY <1>2, <1>3

(* What the reply to a Logout finds: a client that has been told it is in  *)
(* and has logged out, or one that the server has refused.                 *)
LEMMA LogoutKnows ==
  ASSUME TypeOK, CarefulClient, KnownAnswers, Lifecycle, Talk, Parting,
         NEW a \in Apps, Core(a), fault = "none", ReceiveLogout
  PROVE  IF isConnected
         THEN view \in {"leaving", "gone"} /\ Sent
         ELSE view = "pending" /\ latestLogin # "Success" /\ ~LoginReported
<1>1. /\ rd = "recv" /\ toClient # <<>> /\ Head(toClient).type = "Logout"
      /\ toClient \in Seq(Packets)
  BY DEF ReceiveLogout, Receive, TypeOK, NetOK
<1>2. server = "out" /\ Has(toClient, "Logout") /\ ~Has(toClient, "Login")
  <2>1. /\ Head(toClient) = toClient[1] /\ 1 \in DOMAIN toClient /\ Len(toClient) \in Nat
        /\ DOMAIN toClient = 1 .. Len(toClient)
    BY <1>1, HeadTailProperties, LenProperties, EmptySeq
  <2>2. Len(toClient) = 1 /\ server = "out"
    BY <1>1, <2>1 DEF Parting, Arriving
  <2> QED
    BY <1>1, <2>1, <2>2 DEF Has
<1>3. wr \notin {"off", "start", "loop"}
  BY <1>1, <1>2 DEF Talk, Lifecycle
<1>4. CASE isConnected
  <2>1. view \in {"leaving", "gone"}
    BY <1>1, <1>3, <1>4, ViewWhileRunning DEF Core, Standing
  <2>2. Sent
    BY <1>1, <1>3 DEF Sent, Lifecycle, TypeOK, ThreadsOK
  <2> QED
    BY <1>4, <2>1, <2>2
<1>5. CASE ~isConnected
  <2>1. view = "pending"
    BY <1>1, <1>5, ViewWhileRunning DEF Pending
  <2>2. latestLogin \in LoginReplies
    BY <1>1, <1>2 DEF Parting, Unread
  <2>3. latestLogin # "Success"
    BY <1>1, <1>3, <1>5 DEF Core, FlagsMean, Entering
  <2> QED
    BY <1>5, <2>1, <2>2, <2>3 DEF KnownAnswers, LoginReported
<1> QED
  BY <1>4, <1>5

\* A Logout is under way whose reply the reading thread has not received.
Unanswered == Sent /\ rd \notin {"last.handler", "exited"}

\* What remains to be done by ~Model, past a Logout.
Rest == {"cleanup.join", "idle"}

(* A LoginReply is owed while a Login is pending, and one LogoutReply from *)
(* the moment that the client's Logout, or ~Model's, joins the queue.      *)
TwoEnds(a) ==
  fault = "none" =>
    /\ owed["Login"] = IF view = "pending" THEN 1 ELSE 0
    /\ view \in {"out", "pending", "in"} => owed["Logout"] = 0
    /\ view = "leaving" => owed["Logout"] = 1
    /\ view = "gone" /\ pc[a] \notin Rest => owed["Logout"] = IF Unanswered THEN 1 ELSE 0

(* A step that leaves both ends alone.                                     *)
LEMMA SameEnds ==
  ASSUME NEW a \in Apps, TwoEnds(a), fault = "none",
         owed'["Login"] = owed["Login"], owed'["Logout"] = owed["Logout"], UNCHANGED view,
         view = "gone" =>
           (Unanswered' <=> Unanswered) /\ (pc[a] \in Rest => pc'[a] \in Rest)
  PROVE  TwoEnds(a)'
<1>1. owed'["Login"] = IF view' = "pending" THEN 1 ELSE 0
  BY DEF TwoEnds
<1>2. view' \in {"out", "pending", "in"} => owed'["Logout"] = 0
  BY DEF TwoEnds
<1>3. view' = "leaving" => owed'["Logout"] = 1
  BY DEF TwoEnds
<1>4. view' = "gone" /\ pc'[a] \notin Rest => owed'["Logout"] = IF Unanswered' THEN 1 ELSE 0
  BY DEF TwoEnds
<1> QED
  BY <1>1, <1>2, <1>3, <1>4 DEF TwoEnds

LEMMA ReadingEnds ==
  ASSUME TypeOK, CarefulClient, KnownAnswers, Lifecycle, Talk, Parting, Answer,
         NEW a \in Apps, Core(a), TwoEnds(a), fault = "none", Reading
  PROVE  TwoEnds(a)'
<1>1. Sent' <=> Sent
  <2>1. UNCHANGED wr
    BY ReadingTakes
  <2>2. LogoutWaits' <=> LogoutWaits
    <3>1. CASE UNCHANGED queue
      BY <3>1 DEF LogoutWaits, Has
    <3>2. ASSUME NEW type \in {"GetParkingStatus", "GetNextExpired"}, NEW spot \in Nat,
                 Enqueue(type, spot)
          PROVE  LogoutWaits' <=> LogoutWaits
      <4>1. type \in EntryTypes /\ "Logout" \in EntryTypes \ {type}
        BY DEF EntryTypes, RequestTypes
      <4> QED
        BY <3>2, <4>1, EnqueueOther DEF LogoutWaits
    <3> QED
      BY <3>1, <3>2, ReadingEnqueues
  <2> QED
    BY <2>1, <2>2 DEF Sent
<1>2. /\ owed \in [EventNames -> Int] /\ {"Login", "Logout"} \subseteq EventNames
      /\ "ParkingStatusUpdate" \notin EventNames
  BY SessionAssumption DEF TypeOK, ClientOK, EventNames, RequestTypes
<1>3. pc'[a] = pc[a]
  <2>1. pc' = pc \/ pc' = [pc EXCEPT ![Reader] = "logout.connected"]
    BY DEF Reading, ReceiveLogin, Poll, ReceiveStatus, PublishConnected, PublishLoggedIn,
           ReceiveLogout, ReceiveExpired, ReceiveOther, HandlersReturn, Goto
  <2> QED
    BY <2>1, SessionAssumption DEF TypeOK, CallersOK, Callers
<1>4. CASE PublishLoggedIn
  <2>1. Raise("Login", LoginReported, "handler") /\ rd = "connecting"
    BY <1>4 DEF PublishLoggedIn
  <2>2. view = "pending" /\ LoginReported
    BY <2>1, ViewWhileRunning DEF Pending, Answer, LoginReported
  <2>3. owed'["Login"] = 0 /\ owed'["Logout"] = 0 /\ view' = "in"
    <3>1. owed' = [owed EXCEPT !["Login"] = @ - 1]
      BY <1>2, <2>1 DEF Raise
    <3>2. view' = "in"
      BY <2>1, <2>2 DEF Raise
    <3> QED
      BY <1>2, <2>2, <3>1, <3>2 DEF TwoEnds
  <2> QED
    BY <2>3 DEF TwoEnds
<1>5. CASE ReceiveLogout /\ isConnected
  <2>1. Raise("Logout", TRUE, "last.handler") /\ rd = "recv"
    BY <1>5 DEF ReceiveLogout, Receive
  <2>2. /\ view \in {"leaving", "gone"} /\ owed["Login"] = 0
        /\ view = "leaving" \/ pc[a] \notin Rest => owed["Logout"] = 1
    BY <1>5, <2>1, LogoutKnows DEF TwoEnds, Unanswered
  <2>3. /\ view' = IF view = "gone" THEN "gone" ELSE "out"
        /\ owed'["Login"] = 0
        /\ view = "leaving" \/ pc[a] \notin Rest => owed'["Logout"] = 0
    <3>1. owed' = [owed EXCEPT !["Logout"] = @ - 1]
      BY <1>2, <2>1 DEF Raise
    <3>2. view' = IF view = "gone" THEN "gone" ELSE "out"
      BY <2>1 DEF Raise
    <3> QED
      BY <1>2, <2>2, <3>1, <3>2
  <2>4. ~Unanswered'
    BY <2>1 DEF Raise, Unanswered
  <2> QED
    BY <1>3, <2>2, <2>3, <2>4 DEF TwoEnds
<1>6. CASE ReceiveLogout /\ ~isConnected
  <2>1. Raise("Login", LoginReported, "last.handler")
    BY <1>6 DEF ReceiveLogout
  <2>2. view = "pending" /\ ~LoginReported
    BY <1>6, LogoutKnows
  <2>3. owed'["Login"] = 0 /\ owed'["Logout"] = 0 /\ view' = "out"
    <3>1. owed' = [owed EXCEPT !["Login"] = @ - 1]
      BY <1>2, <2>1 DEF Raise
    <3>2. view' = "out"
      BY <2>1, <2>2 DEF Raise
    <3> QED
      BY <1>2, <2>2, <3>1, <3>2 DEF TwoEnds
  <2> QED
    BY <2>3 DEF TwoEnds
<1>7. ASSUME ~ReceiveLogout PROVE Unanswered' <=> Unanswered
  BY <1>1, <1>7
  DEF Unanswered, Reading, ReceiveLogin, Poll, ReceiveStatus, PublishConnected, PublishLoggedIn,
      ReceiveExpired, ReceiveOther, HandlersReturn, Receive, Raise
<1>8. CASE (ReceiveStatus \/ ReceiveExpired \/ ReceiveOther) /\ ~ReceiveLogout
  <2>1. \/ UNCHANGED <<owed, view>>
        \/ \E name \in RequestTypes \cup {"ParkingStatusUpdate"} : Raise(name, TRUE, "handler")
    BY <1>8 DEF ReceiveStatus, ReceiveExpired, ReceiveOther, Receive, RequestTypes
  <2>2. CASE UNCHANGED <<owed, view>>
    BY <1>8, <1>3, <1>7, <2>2, SameEnds
  <2>3. ASSUME NEW name \in RequestTypes \cup {"ParkingStatusUpdate"}, Raise(name, TRUE, "handler")
        PROVE  TwoEnds(a)'
    <3>1. name \notin {"Login", "Logout"}
      BY DEF RequestTypes
    <3>2. owed'["Login"] = owed["Login"] /\ owed'["Logout"] = owed["Logout"]
      BY <1>2, <2>3, <3>1 DEF Raise
    <3>3. UNCHANGED view
      BY <2>3, <3>1 DEF Raise
    <3> QED
      BY <1>8, <1>3, <1>7, <3>2, <3>3, SameEnds
  <2> QED
    BY <2>1, <2>2, <2>3
<1>9. CASE (ReceiveLogin \/ Poll \/ PublishConnected \/ HandlersReturn) /\ ~ReceiveLogout
  <2>1. UNCHANGED <<owed, view>>
    BY <1>9 DEF ReceiveLogin, Poll, PublishConnected, HandlersReturn, client
  <2> QED
    BY <1>9, <1>3, <1>7, <2>1, SameEnds
<1> QED
  BY <1>4, <1>5, <1>6, <1>8, <1>9 DEF Reading

LEMMA CallEnds ==
  ASSUME TypeOK, CarefulClient, Lifecycle, RefusedLogin, NEW a \in Apps, Core(a), TwoEnds(a),
         fault = "none", NEW t \in Callers, Call(t)
  PROVE  TwoEnds(a)'
<1>1. /\ t = a \/ t = Reader
      /\ UNCHANGED <<owed, rd>> /\ (Sent' <=> Sent) /\ view # "gone"
      /\ pc[t] = "idle"
  BY DEF Call, Begin, CarefulClient, Callers, threads, Sent, LogoutWaits, Has
<1>2. CASE Begin(t, "Cleanup", "cleanup.connected")
  <2>1. t = a
    BY <1>1, <1>2 DEF Begin, CarefulClient
  <2>2. view \in {"out", "in", "leaving"} /\ view' = "gone"
    BY <1>2, <2>1, SessionAssumption DEF Begin, CarefulClient
  <2>3. Unanswered' <=> Unanswered
    BY <1>1 DEF Unanswered
  <2>4. view \in {"out", "in"} => ~Unanswered
    BY DEF Core, Standing, Over, Unanswered, Sent, Lifecycle
  <2>5. view = "leaving" => Unanswered
    <3>1. pc[Reader] = "logout.enqueue" => view # "leaving"
      BY ReaderLogout
    <3> QED
      BY <1>1, <2>1, <3>1 DEF Core, Standing, LogoutBehind, Unanswered
  <2> QED
    BY <1>1, <2>2, <2>3, <2>4, <2>5 DEF TwoEnds
<1>3. CASE ~Begin(t, "Cleanup", "cleanup.connected")
  <2>1. UNCHANGED view
    BY <1>3 DEF Call, Begin
  <2> QED
    BY <1>1, <2>1, SameEnds
<1> QED
  BY <1>2, <1>3

LEMMA ContinueEnds ==
  ASSUME TypeOK, CarefulClient, Lifecycle, OwnCalls, RefusedLogin,
         NEW a \in Apps, Core(a), TwoEnds(a), fault = "none",
         NEW t \in Callers, Continue(t), ~JoinDeleted(t)
  PROVE  TwoEnds(a)'
<1>1. /\ At(pc[a], by[a]) /\ by[a] \in {"client", "cleanup"} /\ (t = a \/ t = Reader)
      /\ pc[t] \notin HandlerLabels => t = a
  BY DEF TypeOK, CallersOK, Callers, Core, OwnCalls, CarefulClient, Lifecycle
<1>2. /\ owed \in [EventNames -> Int] /\ "Login" \in EventNames /\ "Logout" \in EventNames
  BY DEF TypeOK, ClientOK, EventNames
<1>3. CASE LoginEnqueue(t)
  <2>1. pc[t] = "login.enqueue"
        /\ owed' = [e \in EventNames |-> IF e = "Login" THEN 1 ELSE 0]
        /\ view' = IF view = "gone" THEN "gone" ELSE "pending"
    BY <1>3 DEF LoginEnqueue
  <2>2. view = "out"
    BY <1>1, <2>1 DEF At, HandlerLabels
  <2>3. owed'["Login"] = 1 /\ owed'["Logout"] = 0 /\ view' = "pending"
    BY <1>2, <2>1, <2>2 DEF TwoEnds
  <2> QED
    BY <2>3 DEF TwoEnds
<1>4. CASE LogoutEnqueue(t)
  <2>1. /\ pc[t] = "logout.enqueue"
        /\ view' = IF by[t] = "client" /\ view \in {"pending", "in"} THEN "leaving" ELSE view
        /\ owed' = [owed EXCEPT !["Logout"] = IF by[t] = "handler" THEN @ ELSE @ + 1]
    BY <1>4 DEF LogoutEnqueue
  <2>2. CASE by[t] = "handler"
    <3>1. owed'["Login"] = owed["Login"] /\ owed'["Logout"] = owed["Logout"]
      BY <1>2, <2>1, <2>2
    <3>2. view = "pending"
      BY <1>1, <2>1, <2>2, ReaderLogout DEF Asks
    <3> QED
      BY <2>1, <2>2, <3>1, <3>2, SameEnds
  <2>3. CASE by[t] # "handler"
    <3>1. owed'["Login"] = owed["Login"] /\ owed'["Logout"] = owed["Logout"] + 1
      BY <1>2, <2>1, <2>3
    <3>2. \/ view = "in" /\ by[t] = "client"
          \/ view = "gone" /\ t = a /\ by[t] = "cleanup"
      <4>1. CASE t = a
        BY <1>1, <2>1, <4>1 DEF At, LogoutLabels
      <4>2. CASE t = Reader
        BY <2>1, <2>3, <4>2, ReaderLogout DEF Asks
      <4> QED
        BY <1>1, <4>1, <4>2
    <3>3. by[t] = "cleanup" => pc'[t] \in Rest
      BY <1>4 DEF LogoutEnqueue, Goto, TypeOK, CallersOK, Rest
    <3> QED
      BY <2>1, <3>1, <3>2, <3>3 DEF TwoEnds
  <2> QED
    BY <2>2, <2>3
<1>5. CASE RequestEnqueue(t)
  <2>1. PICK type \in Requests : owed' = [owed EXCEPT ![type] = @ + 1]
    BY <1>5 DEF RequestEnqueue
  <2>2. type \notin {"Login", "Logout"}
    BY TotalType
  <2>3. UNCHANGED view /\ (Unanswered' <=> Unanswered) /\ (pc[a] \in Rest => pc'[a] \in Rest)
    <3>1. pc'[a] \in {pc[a], "idle"}
      BY <1>5 DEF RequestEnqueue, Goto, TypeOK, CallersOK, Callers
    <3> QED
      BY <1>5, <3>1, ReturnSteady DEF Returns, Steady, Sent, Unanswered, Rest
  <2>4. owed'["Login"] = owed["Login"] /\ owed'["Logout"] = owed["Logout"]
    BY <1>2, <2>1, <2>2
  <2> QED
    BY <2>3, <2>4, SameEnds
<1>6. CASE LoginClear(t) \/ LoginSpawn(t)
  <2>1. UNCHANGED <<owed, view>> /\ pc[t] \in {"login.clear", "login.spawn"}
    BY <1>6 DEF LoginClear, LoginSpawn, client
  <2>2. view # "gone"
    BY <1>1, <2>1 DEF At, HandlerLabels
  <2> QED
    BY <2>1, <2>2, SameEnds
<1>7. CASE ~(\/ LoginEnqueue(t) \/ LogoutEnqueue(t) \/ RequestEnqueue(t) \/ LoginClear(t)
             \/ LoginSpawn(t))
  <2>1. UNCHANGED <<owed, view, queue>> /\ (UNCHANGED <<wr, rd>> \/ (wr = "done" /\ wr' = "off"))
    BY <1>7
    DEF Continue, Refuse, Refusals, Login, LoginGuard, LoginBadArguments, LoginClaim, Join,
        Connect, ConnectThrows, LoginAssign, Logout, LogoutGuard, LogoutClaim, Request,
        RequestGuard, RequestBadArguments, Set, SetGuard, SetApply, Cleanup, CleanupGuard,
        CleanupLogout, Branch, client, threads
  <2>2. Unanswered' <=> Unanswered
    BY <2>1 DEF Unanswered, Sent, LogoutWaits, Has
  <2>3. pc[a] \in Rest => pc'[a] \in Rest
    BY <1>7
    DEF Rest, Goto, TypeOK, CallersOK, Callers, Continue, Refuse, Refusals, Login, LoginGuard,
        LoginBadArguments, LoginClaim, Join, Connect, ConnectThrows, LoginAssign, Logout,
        LogoutGuard, LogoutClaim, Request, RequestGuard, RequestBadArguments, Set, SetGuard,
        SetApply, Cleanup, CleanupGuard, CleanupLogout, Branch
  <2> QED
    BY <2>1, <2>2, <2>3, SameEnds
<1> QED
  BY <1>3, <1>4, <1>5, <1>6, <1>7

LEMMA WriterEnds ==
  ASSUME TypeOK, Lifecycle, NEW a \in Apps, Core(a), TwoEnds(a), fault = "none", Writer
  PROVE  TwoEnds(a)'
<1>1. UNCHANGED <<owed, view, pc>>
  BY DEF Writer, WriterStart, WriterSend, WriterJoin, WriterClearConnected,
         WriterClearDisconnecting, client
<1>2. CASE WriterSend
  <2>1. LogoutWaits <=> Head(queue).type = "Logout" \/ LogoutWaits'
    BY <1>2, TailHas DEF WriterSend, TypeOK, LogoutWaits
  <2>2. Unanswered' <=> Unanswered
    BY <1>2, <2>1 DEF WriterSend, Sent, Unanswered
  <2> QED
    BY <1>1, <2>2, SameEnds
<1>3. CASE WriterStart \/ WriterJoin \/ WriterClearConnected
  <2>1. Unanswered' <=> Unanswered
    BY <1>3
    DEF WriterStart, WriterJoin, WriterClearConnected, Unanswered, Sent, LogoutWaits, Has,
        Lifecycle
  <2> QED
    BY <1>1, <2>1, SameEnds
<1>4. CASE WriterClearDisconnecting
  <2>1. Unanswered' <=> Unanswered
    BY <1>4 DEF WriterClearDisconnecting, Lifecycle, Unanswered
  <2> QED
    BY <1>1, <2>1, SameEnds
<1> QED
  BY <1>2, <1>3, <1>4 DEF Writer

LEMMA EndsInvariant ==
  ASSUME CarefulClient, KnownAnswers, NEW a \in Apps PROVE Spec => []TwoEnds(a)
<1> USE CarefulIsSingle
<1>1. Init => TwoEnds(a)
  BY DEF Init, TwoEnds, EventNames
<1>2. /\ TypeOK /\ Lifecycle /\ Talk /\ Parting /\ OwnCalls /\ RefusedLogin /\ Answer
      /\ Ended /\ Core(a) /\ TwoEnds(a) /\ [Next]_vars
      => TwoEnds(a)'
  <2>1. ASSUME TypeOK, Lifecycle, Talk, Parting, OwnCalls, RefusedLogin, Answer,
               Ended, Core(a), TwoEnds(a), Next
        PROVE  TwoEnds(a)'
    <3>1. fault = "none"
      BY <2>1, StoppedStays DEF Ended
    <3>2. ASSUME NEW t \in Callers, Call(t) \/ Continue(t) PROVE TwoEnds(a)'
      <4>1. CASE JoinDeleted(t)
        BY <4>1 DEF JoinDeleted, ProcessEnds, TwoEnds
      <4>2. CASE Call(t)
        BY <2>1, <3>1, <4>2, CallEnds
      <4>3. CASE Continue(t) /\ ~JoinDeleted(t)
        BY <2>1, <3>1, <4>3, ContinueEnds
      <4> QED
        BY <3>2, <4>1, <4>2, <4>3
    <3>3. CASE Reading
      BY <2>1, <3>1, <3>3, ReadingEnds
    <3>4. CASE ThreadThrows
      BY <3>4 DEF ThreadThrows, ProcessEnds, TwoEnds
    <3>5. CASE ServerAnswers \/ ServerPushes
      <4>1. UNCHANGED <<owed, view, pc>> /\ (Unanswered' <=> Unanswered)
        BY <3>5
        DEF ServerAnswers, ServerPushes, client, threads, Unanswered, Sent, LogoutWaits, Has
      <4> QED
        BY <2>1, <3>1, <4>1, SameEnds
    <3> QED
      BY <2>1, <3>1, <3>2, <3>3, <3>4, <3>5, WriterEnds DEF Next
  <2>2. ASSUME TwoEnds(a), UNCHANGED vars PROVE TwoEnds(a)'
    BY <2>2 DEF TwoEnds, Unanswered, Sent, LogoutWaits, Has, vars, client, threads
  <2> QED
    BY <2>1, <2>2
<1> QED
  BY <1>1, <1>2, TypeCorrect, LifecycleInvariant, TalkInvariant, PartingInvariant,
     OwnCallsInvariant, RefusedInvariant, AnswerInvariant, EndedInvariant, CoreInvariant, PTL
  DEF Spec

-----------------------------------------------------------------------------
(* The session keeps its promise.                                          *)

\* The callers to whom a request or a Logout is being refused.
Refusing ==
  {t \in Callers : /\ pc[t] \in {"request.refused", "logout.refused"}
                   /\ by[t] = "client"}

(* What a step of Session is to the promise: one of its steps, or none.    *)
Promised == Promise!Next \/ UNCHANGED Promise!vars

(* What the client sees, all but who is being refused.                     *)
Seen == <<view, latestLogin, owed, event>>

LEMMA Unseen == ASSUME UNCHANGED Seen, UNCHANGED Refusing PROVE Promised
BY DEF Seen, Refusing, Promised, Promise!vars

(* A step moves no caller but t.                                           *)
OnlyMoves(t) == \A u \in Callers \ {t} : pc'[u] = pc[u] /\ by'[u] = by[u]

LEMMA SameRefusing ==
  ASSUME NEW t \in Callers, OnlyMoves(t), t \in Refusing' <=> t \in Refusing
  PROVE  UNCHANGED Refusing
BY DEF OnlyMoves, Refusing

LEMMA BeginsRefusing ==
  ASSUME NEW t \in Callers, OnlyMoves(t), t \in Refusing', t \notin Refusing,
         UNCHANGED Seen, view # "in"
  PROVE  Promised
<1>1. Refusing' = Refusing \cup {t}
  BY DEF OnlyMoves, Refusing
<1> QED
  BY <1>1 DEF Refusing, Seen, Promised, Promise!Next, Promise!Refuse

LEMMA EndsRefusing ==
  ASSUME NEW t \in Callers, OnlyMoves(t), t \in Refusing, t \notin Refusing', UNCHANGED Seen
  PROVE  Promised
<1>1. Refusing' = Refusing \ {t}
  BY DEF OnlyMoves, Refusing
<1> QED
  BY <1>1 DEF Refusing, Seen, Promised, Promise!Next, Promise!Refused

LEMMA CallKept ==
  ASSUME TypeOK, NEW t \in Callers, Call(t) PROVE Promised
<1>1. PICK first \in {"login.connecting", "logout.connected", "request.connected",
                      "set.connected", "cleanup.connected"} : Goto(t, first)
  BY DEF Call, Begin
<1>2. pc[t] = "idle" /\ view # "gone" /\ UNCHANGED <<latestLogin, owed, event, by>>
  BY DEF Call, Begin, threads
<1>3. OnlyMoves(t) /\ t \notin Refusing /\ t \notin Refusing'
  BY <1>1, <1>2 DEF OnlyMoves, Refusing, Goto, TypeOK, CallersOK
<1>4. UNCHANGED Refusing
  BY <1>3, SameRefusing
<1>5. UNCHANGED view \/ view' = "gone"
  BY DEF Call, Begin
<1>6. CASE UNCHANGED view
  BY <1>2, <1>4, <1>6, Unseen DEF Seen
<1>7. CASE view' = "gone"
  BY <1>2, <1>4, <1>7 DEF Promised, Refusing, Promise!Next, Promise!CallCleanup
<1> QED
  BY <1>5, <1>6, <1>7

(* The process ends while it refuses something to one caller, or to none:  *)
(* only one of the client's thread and its handlers makes such calls.      *)
LEMMA EndKept ==
  ASSUME TypeOK, CarefulClient, NEW a \in Apps, Core(a), fault = "none", NEW why,
         ProcessEnds(why)
  PROVE  Promised
<1>1. Refusing' = {}
  BY DEF Refusing, ProcessEnds
<1>2. UNCHANGED Seen
  BY DEF ProcessEnds, Seen, client
<1>3. \A t, u \in Refusing : t = u
  <2>1. Refusing \subseteq {a, Reader}
    BY DEF Refusing, Callers, CarefulClient
  <2>2. a \in Refusing => ~HandlersLead
    BY DEF Core, Sides, Asks, Refusing, RequestLabels, LogoutLabels
  <2>3. Reader \in Refusing => HandlersLead
    BY DEF Core, Sides, Asks, Refusing, RequestLabels, LogoutLabels
  <2> QED
    BY <2>1, <2>2, <2>3
<1>4. CASE Refusing = {}
  BY <1>1, <1>2, <1>4, Unseen
<1>5. CASE Refusing # {}
  <2>1. PICK t \in Refusing : Refusing' = Refusing \ {t}
    BY <1>1, <1>3, <1>5
  <2> QED
    BY <1>2, <2>1 DEF Refusing, Seen, Promised, Promise!Next, Promise!Refused
<1> QED
  BY <1>4, <1>5

\* No caller's step but these touches what the client sees.
Notable(t) ==
  \/ Refuse(t) \/ RequestGuard(t) \/ LogoutGuard(t) \/ JoinDeleted(t)
  \/ LoginEnqueue(t) \/ LogoutEnqueue(t) \/ RequestEnqueue(t)

LEMMA ContinueMoves ==
  ASSUME TypeOK, NEW t \in Callers, Continue(t), ~JoinDeleted(t)
  PROVE  OnlyMoves(t)
BY DEF TypeOK, CallersOK, OnlyMoves, Goto, Continue, Refuse, Login, LoginGuard,
       LoginBadArguments, LoginClaim, Join, LoginClear, Connect, ConnectThrows,
       LoginEnqueue, LoginSpawn, LoginAssign, Logout, LogoutGuard, LogoutClaim,
       LogoutEnqueue, Request, RequestGuard, RequestEnqueue, RequestBadArguments,
       Set, SetGuard, SetApply, Cleanup, CleanupGuard, CleanupLogout, Branch

LEMMA ContinueUnseen ==
  ASSUME TypeOK, NEW t \in Callers, Continue(t), ~Notable(t)
  PROVE  Promised
<1>1. OnlyMoves(t)
  BY ContinueMoves DEF Notable
<1>2. /\ UNCHANGED Seen
      /\ pc[t] \notin {"request.refused", "logout.refused"}
      /\ pc'[t] \notin {"request.refused", "logout.refused"}
  BY DEF TypeOK, CallersOK, Goto, Notable, Continue, Login, LoginGuard,
         LoginBadArguments, LoginClaim, Join, LoginClear, Connect, ConnectThrows,
         LoginSpawn, LoginAssign, Logout, LogoutClaim, Request, RequestBadArguments,
         Set, SetGuard, SetApply, Cleanup, CleanupGuard, CleanupLogout, Branch,
         Seen, threads, client
<1>3. UNCHANGED Refusing
  BY <1>1, <1>2, SameRefusing DEF Refusing
<1> QED
  BY <1>2, <1>3, Unseen

LEMMA RefuseKept == ASSUME TypeOK, NEW t \in Callers, Refuse(t) PROVE Promised
<1>1. OnlyMoves(t) /\ t \notin Refusing'
  BY DEF TypeOK, CallersOK, OnlyMoves, Refusing, Refuse, Goto
<1>2. UNCHANGED Seen
  BY DEF Refuse, Seen, threads, client
<1> QED
  BY <1>1, <1>2, SameRefusing, EndsRefusing, Unseen

LEMMA GuardKept ==
  ASSUME TypeOK, CarefulClient, Lifecycle, OwnCalls, RefusedLogin, NEW a \in Apps, Core(a),
         fault = "none", NEW t \in Callers, RequestGuard(t) \/ LogoutGuard(t)
  PROVE  Promised
<1>1. OnlyMoves(t) /\ UNCHANGED <<by, view, latestLogin, owed, event>> /\ t \notin Refusing
  BY DEF TypeOK, CallersOK, OnlyMoves, Refusing, RequestGuard, LogoutGuard, Branch, Goto,
         Seen, threads, client
<1>2. t \in Refusing' => view # "in"
  <2> SUFFICES ASSUME t \in Refusing', view = "in" PROVE FALSE
    OBVIOUS
  <2>1. pc'[t] \in {"request.refused", "logout.refused"} /\ by[t] = "client"
    BY <1>1 DEF Refusing
  <2>2. isConnected /\ ~isDisconnecting /\ rd \in {"recv", "handler"}
    <3>1. isConnected /\ rd \in {"recv", "handler"}
      BY DEF Core, Standing
    <3>2. /\ pc[t] \in RequestLabels \/ Asks(t)
          /\ pc[t] # "logout.enqueue" /\ (t = a \/ t = Reader)
      BY <2>1
      DEF RequestGuard, LogoutGuard, Branch, RequestLabels, LogoutLabels, Asks, Callers,
          CarefulClient
    <3>3. t = a => pc[a] # "logout.enqueue" /\ ~HandlersLead
      BY <3>2 DEF Core, Sides
    <3>4. t = Reader => pc[Reader] # "logout.enqueue" /\ pc[a] # "logout.enqueue"
      <4>1. by[a] \in {"client", "cleanup"}
        BY DEF OwnCalls, TypeOK, CallersOK, Callers
      <4> QED
        BY <3>2, <4>1 DEF Core, Sides, Asks, At, LogoutLabels
    <3> QED
      BY <3>1, <3>2, <3>3, <3>4, Unclaimed
  <2>3. pc[t] = "logout.connecting"
    <3>1. \/ pc[t] = "request.connected" /\ ~isConnected
          \/ pc[t] = "request.disconnecting" /\ isDisconnecting
          \/ pc[t] = "logout.connecting"
          \/ pc[t] = "logout.disconnecting" /\ isDisconnecting
      BY <2>1 DEF RequestGuard, LogoutGuard, Branch, Goto, TypeOK, CallersOK
    <3> QED
      BY <2>2, <3>1
  <2>4. CASE t = Reader
    BY <2>1, <2>2, <2>3, <2>4 DEF Core, ReaderAt, HandlerAt
  <2>5. CASE t # Reader
    <3>1. t = a
      BY <2>5 DEF Callers, CarefulClient
    <3> QED
      BY <2>1, <2>3, <3>1 DEF Core, At, LogoutLabels
  <2> QED
    BY <2>4, <2>5
<1>3. UNCHANGED Seen
  BY <1>1 DEF Seen
<1> QED
  BY <1>1, <1>2, <1>3, SameRefusing, BeginsRefusing, Unseen

LEMMA EnqueueKept ==
  ASSUME TypeOK, CarefulClient, Lifecycle, OwnCalls, RefusedLogin, Ended,
         NEW a \in Apps, Core(a), Accounts, TwoEnds(a), fault = "none",
         NEW t \in Callers, LoginEnqueue(t) \/ LogoutEnqueue(t) \/ RequestEnqueue(t)
  PROVE  Promised
<1>1. OnlyMoves(t) /\ t \notin Refusing /\ t \notin Refusing' /\ UNCHANGED <<latestLogin, event>>
  BY DEF TypeOK, CallersOK, OnlyMoves, Refusing, LoginEnqueue, LogoutEnqueue, RequestEnqueue,
         Goto, threads
<1>2. UNCHANGED Refusing
  BY <1>1, SameRefusing
<1>3. t = a \/ t = Reader
  BY DEF Callers, CarefulClient
<1>4. CASE LoginEnqueue(t)
  <2>1. pc[t] = "login.enqueue"
        /\ owed' = [e \in EventNames |-> IF e = "Login" THEN 1 ELSE 0]
        /\ view' = IF view = "gone" THEN "gone" ELSE "pending"
    BY <1>4 DEF LoginEnqueue
  <2>2. view = "out"
    BY <1>3, <2>1 DEF Core, At, Lifecycle, HandlerLabels
  <2>3. owed["Login"] = 0 /\ owed["Logout"] = 0 /\ \A e \in Ordinary : owed[e] = 0
    BY <2>2 DEF TwoEnds, Accounts, Account, Core, Standing
  <2>4. DOMAIN owed = EventNames /\ Promise!Settled("none")
    <3>1. DOMAIN owed = EventNames
      BY DEF TypeOK, ClientOK
    <3> QED
      BY <2>3, <3>1 DEF Promise!Settled, Ordinary, EventNames
  <2>5. Promise!AcceptLogin
    BY <1>1, <1>2, <2>1, <2>2, <2>4 DEF Promise!AcceptLogin, Refusing
  <2> QED
    BY <2>5 DEF Promised, Promise!Next
<1>5. CASE LogoutEnqueue(t)
  <2>1. /\ pc[t] = "logout.enqueue"
        /\ view' = IF by[t] = "client" /\ view \in {"pending", "in"} THEN "leaving" ELSE view
        /\ owed' = [owed EXCEPT !["Logout"] = IF by[t] = "handler" THEN @ ELSE @ + 1]
    BY <1>5 DEF LogoutEnqueue
  <2>2. CASE by[t] = "handler"
    <3>1. UNCHANGED owed
      BY <2>1, <2>2 DEF TypeOK, ClientOK
    <3> QED
      BY <1>1, <1>2, <2>1, <2>2, <3>1, Unseen DEF Seen
  <2>3. CASE by[t] # "handler"
    <3>1. \/ view = "in" /\ by[t] = "client"
          \/ view = "gone" /\ t = a /\ by[t] = "cleanup"
      <4>1. by[t] \in {"client", "cleanup"} /\ (t = Reader => by[t] = "client")
        BY <2>3 DEF TypeOK, CallersOK, Lifecycle
      <4>2. CASE t = a
        BY <2>1, <4>1, <4>2 DEF Core, At, LogoutLabels
      <4>3. CASE t = Reader
        BY <2>1, <4>1, <4>3 DEF Core, ReaderAt, HandlerAt, LogoutLabels
      <4> QED
        BY <1>3, <4>2, <4>3
    <3>2. view' = IF view = "gone" THEN "gone" ELSE "leaving"
      BY <2>1, <3>1
    <3>3. owed' = [owed EXCEPT !["Logout"] = @ + 1]
      BY <2>1, <2>3
    <3>4. owed["Logout"] = 0
      <4>1. view = "gone" => pc[a] = "logout.enqueue" /\ ~Sent
        BY <2>1, <3>1 DEF Core, LogoutMarked, Marked
      <4> QED
        BY <3>1, <4>1 DEF TwoEnds, Rest, Unanswered
    <3>5. Promise!AcceptLogout
      BY <1>1, <1>2, <3>1, <3>2, <3>3, <3>4
      DEF Promise!AcceptLogout, Promise!Owe, Refusing
    <3> QED
      BY <3>5 DEF Promised, Promise!Next
  <2> QED
    BY <2>2, <2>3
<1>6. CASE RequestEnqueue(t)
  <2>1. PICK type \in Requests : owed' = [owed EXCEPT ![type] = @ + 1]
    BY <1>6 DEF RequestEnqueue
  <2>2. UNCHANGED view /\ view \in {"pending", "in"}
    BY <1>6, AskersKnow DEF RequestEnqueue
  <2>3. Promise!AcceptRequest
    BY <1>1, <1>2, <2>1, <2>2 DEF Promise!AcceptRequest, Promise!Owe, Refusing
  <2> QED
    BY <2>3 DEF Promised, Promise!Next
<1> QED
  BY <1>4, <1>5, <1>6

LEMMA AnswerKept ==
  ASSUME view = "pending", UNCHANGED <<view, owed, event>>, UNCHANGED Refusing PROVE Promised
<1>1. CASE UNCHANGED latestLogin
  BY <1>1, Unseen DEF Seen
<1>2. CASE latestLogin' # latestLogin
  <2>1. Promise!ServerAnswers
    BY <1>2 DEF Promise!ServerAnswers, Refusing
  <2> QED
    BY <2>1 DEF Promised, Promise!Next
<1> QED
  BY <1>1, <1>2

LEMMA WriterKept ==
  ASSUME TypeOK, Lifecycle, NEW a \in Apps, Core(a), fault = "none", Writer PROVE Promised
<1>1. UNCHANGED <<view, owed, event, pc, by>>
  BY DEF Writer, WriterStart, WriterSend, WriterJoin, WriterClearConnected,
         WriterClearDisconnecting, client
<1>2. UNCHANGED Refusing
  BY <1>1 DEF Refusing
<1>3. CASE WriterStart
  <2>1. view = "pending"
    BY <1>3, ViewWhileRunning DEF WriterStart, Pending
  <2> QED
    BY <1>1, <1>2, <2>1, AnswerKept
<1>4. CASE ~WriterStart
  <2>1. UNCHANGED latestLogin
    BY <1>4 DEF Writer, WriterSend, WriterJoin, WriterClearConnected, WriterClearDisconnecting
  <2> QED
    BY <1>1, <1>2, <2>1, Unseen DEF Seen
<1> QED
  BY <1>3, <1>4

LEMMA ReadingKept ==
  ASSUME TypeOK, CarefulClient, KnownAnswers, Lifecycle, Talk, Parting, OwnCalls, Answer,
         LogoutOwed, RequestsOwed, NothingUnknown, EventIdle,
         NEW a \in Apps, Core(a), Core(a)', Accounts, Accounts', TwoEnds(a),
         fault = "none", fault' = "none", Reading
  PROVE  Promised
<1>1. UNCHANGED Refusing
  <2>1. Reader \in Callers /\ pc \in [Callers -> Labels]
    BY DEF Callers, TypeOK, CallersOK
  <2>2. \/ UNCHANGED <<pc, by>>
        \/ /\ pc[Reader] = "idle" /\ Goto(Reader, "logout.connected")
           /\ by' = [by EXCEPT ![Reader] = "handler"]
    BY DEF Reading, ReceiveLogin, Poll, ReceiveStatus, PublishConnected, PublishLoggedIn,
           ReceiveLogout, ReceiveExpired, ReceiveOther, HandlersReturn, Receive
  <2>3. OnlyMoves(Reader) /\ (Reader \in Refusing' <=> Reader \in Refusing)
    BY <2>1, <2>2 DEF OnlyMoves, Refusing, Goto, TypeOK, CallersOK
  <2> QED
    BY <2>1, <2>3, SameRefusing
<1>2. /\ owed \in [EventNames -> Int] /\ {"Login", "Logout"} \subseteq EventNames
      /\ "ParkingStatusUpdate" \notin EventNames
  BY SessionAssumption DEF TypeOK, ClientOK, EventNames, RequestTypes
<1>3. rd \notin {"handler", "last.handler"} => event = [name |-> "none", ok |-> FALSE]
  BY DEF EventIdle, NoEvent
<1>4. CASE ReceiveLogin
  <2>1. /\ rd = "recv" /\ toClient # <<>> /\ Head(toClient).type = "Login"
        /\ UNCHANGED <<view, owed, event>>
    BY <1>4 DEF ReceiveLogin, Receive, client
  <2>2. Unread
    BY <2>1, TailHas DEF Unread, TypeOK, NetOK
  <2>3. ~isConnected
    BY <2>1, <2>2 DEF Answer, Core, FlagsMean
  <2>4. view = "pending"
    BY <2>1, <2>3, ViewWhileRunning DEF Pending
  <2> QED
    BY <1>1, <2>1, <2>4, AnswerKept
<1>5. CASE Poll \/ PublishConnected
  <2>1. UNCHANGED Seen
    BY <1>5 DEF Poll, PublishConnected, Seen, client
  <2> QED
    BY <1>1, <2>1, Unseen
<1>6. CASE HandlersReturn
  <2>1. UNCHANGED <<view, latestLogin, owed>> /\ event' = NoEvent
    BY <1>6 DEF HandlersReturn, client
  <2>2. Promise!HandlersReturn
    BY <1>1, <2>1 DEF Promise!HandlersReturn, Promise!NoEvent, NoEvent, Refusing
  <2> QED
    BY <2>2 DEF Promised, Promise!Next
<1>7. CASE PublishLoggedIn
  <2>1. Raise("Login", LoginReported, "handler") /\ rd = "connecting" /\ UNCHANGED latestLogin
    BY <1>7 DEF PublishLoggedIn
  <2>2. view = "pending" /\ latestLogin = "Success" /\ LoginReported = TRUE
    BY <2>1, ViewWhileRunning DEF Pending, Answer, LoginReported
  <2>3. /\ owed' = [owed EXCEPT !["Login"] = @ - 1] /\ owed["Login"] > 0
        /\ event = [name |-> "none", ok |-> FALSE]
        /\ event' = [name |-> "Login", ok |-> TRUE] /\ view' = "in"
    BY <1>2, <1>3, <2>1, <2>2 DEF Raise, TwoEnds
  <2>4. Promise!LoginReply
    BY <1>1, <2>1, <2>2, <2>3
    DEF Promise!LoginReply, Promise!Pay, Promise!NoEvent, Refusing
  <2> QED
    BY <2>4 DEF Promised, Promise!Next
<1>8. CASE ReceiveLogout /\ ~isConnected
  <2>1. Raise("Login", LoginReported, "last.handler") /\ rd = "recv" /\ UNCHANGED latestLogin
    BY <1>8 DEF ReceiveLogout, Receive
  <2>2. view = "pending" /\ latestLogin # "Success" /\ LoginReported = FALSE
    BY <1>8, LogoutKnows DEF LoginReported
  <2>3. /\ owed' = [owed EXCEPT !["Login"] = @ - 1] /\ owed["Login"] > 0
        /\ event = [name |-> "none", ok |-> FALSE]
        /\ event' = [name |-> "Login", ok |-> FALSE] /\ view' = "out"
    <3>1. owed' = [owed EXCEPT !["Login"] = @ - 1] /\ owed["Login"] > 0
      <4>1. owed' = [owed EXCEPT !["Login"] = @ - 1]
        BY <1>2, <2>1 DEF Raise
      <4>2. owed["Login"] = 1
        BY <2>2 DEF TwoEnds
      <4> QED
        BY <4>1, <4>2
    <3>2. event' = [name |-> "Login", ok |-> FALSE]
      BY <2>1, <2>2 DEF Raise
    <3>3. view' = "out"
      BY <2>1, <2>2 DEF Raise
    <3> QED
      BY <1>3, <2>1, <3>1, <3>2, <3>3
  <2>4. Promise!LoginReply
    <3>1. (latestLogin = "Success") = FALSE
      BY <2>2
    <3>2. event' = [name |-> "Login", ok |-> latestLogin = "Success"]
      BY <2>3, <3>1
    <3> QED
      BY <1>1, <2>1, <2>2, <2>3, <3>2
      DEF Promise!LoginReply, Promise!Pay, Promise!NoEvent, Refusing
  <2> QED
    BY <2>4 DEF Promised, Promise!Next
<1>9. CASE ReceiveLogout /\ isConnected
  <2>1. Raise("Logout", TRUE, "last.handler") /\ rd = "recv" /\ UNCHANGED latestLogin
    BY <1>9 DEF ReceiveLogout, Receive
  <2>2. view \in {"leaving", "gone"} /\ (view = "leaving" => owed["Logout"] = 1)
        /\ owed["Login"] = 0
    BY <1>9, LogoutKnows DEF TwoEnds
  <2>3. /\ owed' = [owed EXCEPT !["Logout"] = @ - 1]
        /\ event = [name |-> "none", ok |-> FALSE]
        /\ event' = [name |-> "Logout", ok |-> TRUE]
        /\ view' = IF view = "gone" THEN "gone" ELSE "out"
        /\ rd' = "last.handler"
    BY <1>2, <1>3, <2>1, <2>2 DEF Raise
  <2>4. owed["Logout"] > 0
    <3>1. toClient # <<>> /\ Head(toClient).type = "Logout" /\ toClient \in Seq(Packets)
      BY <1>9 DEF ReceiveLogout, Receive, TypeOK, NetOK
    <3>2. Has(toClient, "Logout")
      BY <3>1, TailHas
    <3>3. LogoutDue /\ LogoutUnderWay
      BY <1>9, <2>1, <3>2 DEF LogoutDue, LogoutUnderWay
    <3>4. owed["Logout"] >= 1 /\ owed["Logout"] \in Int
      BY <1>2, <3>3 DEF LogoutOwed
    <3> QED
      BY <3>4
  <2>5. ASSUME NEW e \in Ordinary PROVE owed[e] = 0
    <3>1. owed'[e] = 0
      <4>1. wr' # "start"
        BY <1>9 DEF ReceiveLogout, Receive, Lifecycle
      <4> QED
        BY <2>3, <4>1 DEF Accounts, Account, Over
    <3>2. e \in EventNames /\ e # "Logout"
      BY TotalType DEF Ordinary
    <3> QED
      BY <1>2, <2>3, <3>1, <3>2
  <2>6. Promise!Settled("Logout")
    <3>1. DOMAIN owed = Requests \cup {"Login", "Logout"}
      BY <1>2 DEF EventNames
    <3> QED
      BY <2>2, <2>5, <3>1 DEF Promise!Settled, Ordinary
  <2>7. Promise!LogoutReply
    BY <1>1, <2>1, <2>2, <2>3, <2>4, <2>6
    DEF Promise!LogoutReply, Promise!Pay, Promise!NoEvent, Refusing
  <2> QED
    BY <2>7 DEF Promised, Promise!Next
<1>10. CASE ReceiveStatus
  <2>1. rd = "recv" /\ UNCHANGED latestLogin
        /\ \/ UNCHANGED <<event, owed, view>>
           \/ isConnected /\ Raise("ParkingStatusUpdate", TRUE, "handler")
    BY <1>10 DEF ReceiveStatus, Receive
  <2>2. CASE UNCHANGED <<event, owed, view>>
    BY <1>1, <2>1, <2>2, Unseen DEF Seen
  <2>3. CASE isConnected /\ Raise("ParkingStatusUpdate", TRUE, "handler")
    <3>1. view \in {"in", "leaving", "gone"}
      BY <2>1, <2>3, ViewWhileRunning
    <3>2. /\ UNCHANGED <<owed, view>> /\ event = [name |-> "none", ok |-> FALSE]
          /\ event' = [name |-> "ParkingStatusUpdate", ok |-> TRUE]
      BY <1>2, <1>3, <2>1, <2>3 DEF Raise
    <3>3. Promise!ParkingStatusUpdate
      BY <1>1, <2>1, <3>1, <3>2 DEF Promise!ParkingStatusUpdate, Promise!NoEvent, Refusing
    <3> QED
      BY <3>3 DEF Promised, Promise!Next
  <2> QED
    BY <2>1, <2>2, <2>3
<1>11. CASE ReceiveExpired \/ ReceiveOther
  <2>1. rd = "recv" /\ UNCHANGED latestLogin /\ toClient # <<>> /\ toClient' = Tail(toClient)
        /\ Head(toClient).type \in RequestTypes
        /\ \/ UNCHANGED <<event, owed, view>>
           \/ Raise(Head(toClient).type, TRUE, "handler")
    BY <1>11 DEF ReceiveExpired, ReceiveOther, Receive, RequestTypes
  <2>2. CASE UNCHANGED <<event, owed, view>>
    BY <1>1, <2>1, <2>2, Unseen DEF Seen
  <2>3. CASE Raise(Head(toClient).type, TRUE, "handler")
    <3>1. PICK e \in Requests : e = Head(toClient).type
      BY <2>1, KnownReply
    <3>2. Count(e, toClient) >= 1 /\ Total(e) >= 1 /\ owed[e] > 0
      BY <2>1, <3>1, TakeCount, TotalType DEF Total, RequestsOwed
    <3>3. view \in {"in", "leaving", "gone"}
      <4>1. isConnected
        <5>1. Total(e) # 0
          BY <3>2
        <5> QED
          BY <2>1, <5>1 DEF Accounts, Early
      <4> QED
        BY <2>1, <4>1, ViewWhileRunning
    <3>4. e \in EventNames /\ e \notin {"Login", "Logout"}
      BY TotalType
    <3>5. /\ owed' = [owed EXCEPT ![e] = @ - 1] /\ UNCHANGED view
          /\ event = [name |-> "none", ok |-> FALSE]
          /\ event' = [name |-> e, ok |-> TRUE]
      BY <1>3, <2>1, <2>3, <3>1, <3>4 DEF Raise
    <3>6. Promise!RequestReply
      BY <1>1, <2>1, <3>2, <3>3, <3>5
      DEF Promise!RequestReply, Promise!Pay, Promise!NoEvent, Refusing
    <3> QED
      BY <3>6 DEF Promised, Promise!Next
  <2> QED
    BY <2>1, <2>2, <2>3
<1> QED
  BY <1>4, <1>5, <1>6, <1>7, <1>8, <1>9, <1>10, <1>11 DEF Reading

\* One step, for all of them.
LEMMA StepKept ==
  ASSUME TypeOK, CarefulClient, KnownAnswers, Lifecycle, Talk, Parting, OwnCalls, Answer,
         RefusedLogin, LogoutOwed, RequestsOwed, NothingUnknown, EventIdle,
         Ended, NEW a \in Apps, Core(a), Core(a)', Accounts, Accounts', TwoEnds(a), Next
  PROVE  Promised
<1>1. fault = "none"
  BY StoppedStays DEF Ended
<1>2. ASSUME NEW t \in Callers, JoinDeleted(t) PROVE Promised
  BY <1>1, <1>2, EndKept DEF JoinDeleted
<1>3. ASSUME NEW t \in Callers, Continue(t), ~JoinDeleted(t) PROVE Promised
  BY <1>1, <1>3, RefuseKept, GuardKept, EnqueueKept, ContinueUnseen DEF Notable
<1>4. CASE ThreadThrows
  BY <1>1, <1>4, EndKept DEF ThreadThrows
<1>5. CASE Reading
  <2>1. fault' = "none"
    BY <1>1, <1>5
    DEF Reading, ReceiveLogin, Poll, ReceiveStatus, PublishConnected, PublishLoggedIn,
        ReceiveLogout, ReceiveExpired, ReceiveOther, HandlersReturn
  <2> QED
    BY <1>1, <1>5, <2>1, ReadingKept
<1>6. CASE Writer
  BY <1>1, <1>6, WriterKept
<1>7. CASE ServerAnswers \/ ServerPushes
  <2>1. UNCHANGED Seen /\ UNCHANGED Refusing
    BY <1>7 DEF ServerAnswers, ServerPushes, Seen, Refusing, threads, client
  <2> QED
    BY <2>1, Unseen
<1> QED
  BY <1>2, <1>3, <1>4, <1>5, <1>6, <1>7, CallKept DEF Next

(* The session engine implements SessionPromise: whatever its threads do,  *)
(* and whatever the server answers, the client sees calls accepted and     *)
(* refused and events raised only as the promise allows.                   *)
THEOREM PromiseKept ==
  ASSUME CarefulClient, KnownAnswers PROVE Spec => KeepsPromise
<1> USE CarefulIsSingle
<1>1. Init => Promise!Init
  BY DEF Init, Promise!Init, NoEvent, Promise!NoEvent, EventNames
<1>2. ASSUME UNCHANGED vars PROVE Promised
  <2>1. UNCHANGED Seen /\ UNCHANGED Refusing
    BY <1>2 DEF vars, Seen, Refusing, threads, client
  <2> QED
    BY <2>1, Unseen
<1>3. CASE Apps = {}
  <2>1. Nobody /\ [Next]_vars => [Promise!Next]_Promise!vars
    BY <1>2, <1>3, NobodyMoves DEF Promised
  <2> QED
    BY <1>1, <1>3, <2>1, NobodyInvariant, PTL DEF Spec, KeepsPromise, Promise!Spec
<1>4. ASSUME NEW a \in Apps PROVE Spec => KeepsPromise
  <2>1. /\ TypeOK /\ Lifecycle /\ Talk /\ Parting /\ OwnCalls /\ Answer
        /\ RefusedLogin /\ LogoutOwed /\ RequestsOwed /\ NothingUnknown
        /\ EventIdle /\ Ended /\ Core(a) /\ Core(a)' /\ Accounts /\ Accounts' /\ TwoEnds(a)
        /\ [Next]_vars
        => [Promise!Next]_Promise!vars
    BY <1>2, StepKept DEF Promised
  <2> QED
    BY <1>1, <2>1, TypeCorrect, LifecycleInvariant, TalkInvariant, PartingInvariant,
       OwnCallsInvariant, AnswerInvariant, RefusedInvariant, LogoutOwedInvariant,
       RequestsOwedInvariant, NothingUnknownInvariant, EventIdleInvariant, EndedInvariant,
       CoreInvariant, AccountsInvariant, EndsInvariant, PTL
    DEF Spec, KeepsPromise, Promise!Spec
<1> QED
  BY <1>3, <1>4
===============================================================================
