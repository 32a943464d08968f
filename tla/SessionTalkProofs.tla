--------------------------- MODULE SessionTalkProofs ---------------------------
(***************************************************************************)
(* Proofs about what passes between a session's threads and the server,    *)
(* for a client that calls from one thread and from its event handlers,    *)
(* whenever it likes: the socket, the order of a conversation, and that no *)
(* event is raised that nothing has asked for.                             *)
(***************************************************************************)
EXTENDS SessionProofs, FiniteSetTheorems, FunctionTheorems

-----------------------------------------------------------------------------
(* The steps of a caller.                                                  *)

LogoutLabels ==
  {"logout.connected", "logout.connecting", "logout.disconnecting",
   "logout.claim", "logout.enqueue", "logout.refused"}

\* From the first test that a Login has passed to the join.
Opening == {"login.connected", "login.disconnecting", "login.claim", "login.join"}

(* A step that moves caller t between places that no invariant below is    *)
(* about, and changes at most who it calls for.                            *)
Quiet(t) ==
  /\ pc[t] \notin Starting \cup {"login.assign", "ended"}
  /\ \E label \in Labels \ (Starting \cup Opening \cup {"ended", "login.assign"}) :
       Goto(t, label)
  /\ \/ UNCHANGED by /\ pc[t] \notin LogoutLabels
     \/ \E who \in {"client", "cleanup"} : by' = [by EXCEPT ![t] = who]
  /\ UNCHANGED <<flags, queue, threads, net, session, owed>>

LEMMA CallQuiet == ASSUME NEW t \in Callers, Call(t) PROVE Quiet(t)
<1>1. ASSUME NEW method, Begin(t, method, "login.connecting") PROVE Quiet(t)
  BY <1>1 DEF Begin, Quiet, Labels, Starting, Opening, LogoutLabels
<1>2. ASSUME NEW method,
             NEW first \in {"logout.connected", "request.connected",
                            "set.connected", "cleanup.connected"},
             Begin(t, method, first)
      PROVE  Quiet(t)
  BY <1>2 DEF Begin, Quiet, Labels, Starting, Opening, LogoutLabels
<1> QED
  BY <1>1, <1>2 DEF Call

LEMMA BranchQuiet ==
  ASSUME NEW t \in Callers, NEW flag,
         NEW from \in Labels \ (LogoutLabels \cup Starting \cup {"login.assign", "ended"}),
         NEW yes \in Labels \ (Starting \cup Opening \cup {"ended", "login.assign"}),
         NEW no \in Labels \ (Starting \cup Opening \cup {"ended", "login.assign"}),
         Branch(t, from, flag, yes, no)
  PROVE  Quiet(t)
<1>1. (IF flag THEN yes ELSE no)
        \in Labels \ (Starting \cup Opening \cup {"ended", "login.assign"})
  OBVIOUS
<1> QED
  BY <1>1 DEF Branch, Quiet, client

LEMMA CallerCases ==
  ASSUME NEW t \in Callers, Call(t) \/ Continue(t)
  PROVE  \/ Quiet(t) \/ LoginGuard(t) \/ LogoutGuard(t)
         \/ LoginClaim(t) \/ LogoutClaim(t)
         \/ Join(t, "login.join", "login.clear") \/ Join(t, "cleanup.join", "idle")
         \/ LoginClear(t) \/ Connect(t) \/ ConnectThrows(t)
         \/ LoginEnqueue(t) \/ LoginSpawn(t) \/ LoginAssign(t)
         \/ LogoutEnqueue(t) \/ RequestEnqueue(t) \/ JoinDeleted(t)
<1>1. CASE RequestGuard(t) \/ SetGuard(t) \/ CleanupGuard(t)
  BY <1>1, BranchQuiet
  DEF RequestGuard, SetGuard, CleanupGuard, Labels, Starting, Opening, LogoutLabels
<1>2. CASE Refuse(t)
  BY <1>2 DEF Refuse, Refusals, Quiet, Labels, Starting, Opening, client
<1>3. CASE LoginBadArguments(t) \/ RequestBadArguments(t) \/ SetApply(t) \/ CleanupLogout(t)
  BY <1>3
  DEF LoginBadArguments, RequestBadArguments, SetApply, CleanupLogout, Quiet, Labels,
      Starting, Opening, LogoutLabels, client
<1> QED
  BY <1>1, <1>2, <1>3, CallQuiet
  DEF Continue, Login, Logout, Request, Set, Cleanup

(* Handlers have returned before their thread does.                        *)
HandlersDone == rd \in {"off", "exited"} => pc[Reader] \in {"idle", "ended"}

LEMMA HandlerRuns ==
  ASSUME HandlersDone, Call(Reader) \/ Continue(Reader)
  PROVE  rd \notin {"off", "exited"}
<1>1. CASE Call(Reader)
  BY <1>1 DEF Call, Begin
<1>2. CASE Continue(Reader)
  <2>1. pc[Reader] \notin {"idle", "ended"}
    BY <1>2
    DEF Continue, Refuse, Refusals, Branch, Login, LoginGuard, LoginBadArguments,
        LoginClaim, Join, LoginClear, Connect, ConnectThrows, LoginEnqueue,
        LoginSpawn, LoginAssign, Logout, LogoutGuard, LogoutClaim, LogoutEnqueue,
        Request, RequestGuard, RequestEnqueue, RequestBadArguments, Set, SetGuard,
        SetApply, Cleanup, CleanupGuard, CleanupLogout, JoinDeleted
  <2> QED
    BY <2>1 DEF HandlersDone
<1> QED
  BY <1>1, <1>2

LEMMA HandlersDoneKept ==
  ASSUME TypeOK, Lifecycle, HandlersDone, [Next]_vars PROVE HandlersDone'
<1>1. ASSUME NEW t \in Callers, Call(t) \/ Continue(t) PROVE HandlersDone'
  <2>1. CASE JoinDeleted(t)
    BY <2>1 DEF JoinDeleted, ProcessEnds, HandlersDone, Callers
  <2>2. CASE Join(t, "login.join", "login.clear") \/ Join(t, "cleanup.join", "idle")
    <3>1. t # Reader /\ UNCHANGED pc[Reader]
      BY <2>2 DEF Join, Goto, Lifecycle, HandlerLabels, TypeOK, CallersOK, Callers
    <3>2. rd' = rd \/ rd = "exited"
      BY <2>2 DEF Join, Lifecycle
    <3> QED
      BY <3>1, <3>2 DEF HandlersDone
  <2>3. CASE ~(\/ JoinDeleted(t) \/ Join(t, "login.join", "login.clear")
               \/ Join(t, "cleanup.join", "idle"))
    <3>1. UNCHANGED rd /\ \E label \in Labels : Goto(t, label)
      BY <1>1, <2>3, CallerCases
      DEF Quiet, LoginGuard, LogoutGuard, Branch, LoginClaim, LogoutClaim, LoginClear,
          Connect, ConnectThrows, LoginEnqueue, LoginSpawn, LoginAssign,
          LogoutEnqueue, RequestEnqueue, threads, Labels
    <3>2. CASE t = Reader
      BY <1>1, <3>1, <3>2, HandlerRuns DEF HandlersDone
    <3>3. CASE t # Reader
      BY <3>1, <3>3 DEF HandlersDone, Goto, TypeOK, CallersOK, Callers
    <3> QED
      BY <3>2, <3>3
  <2> QED
    BY <2>1, <2>2, <2>3
<1>2. CASE Reading
  BY <1>2
  DEF Reading, ReceiveLogin, Poll, ReceiveStatus, PublishConnected, PublishLoggedIn,
      ReceiveLogout, ReceiveExpired, ReceiveOther, HandlersReturn, Receive, Raise,
      HandlersDone
<1>3. CASE Writer
  BY <1>3
  DEF Writer, WriterStart, WriterSend, WriterJoin, WriterClearConnected,
      WriterClearDisconnecting, Lifecycle, HandlersDone
<1>4. CASE ThreadThrows
  BY <1>4 DEF ThreadThrows, ProcessEnds, HandlersDone, Callers
<1>5. CASE ServerAnswers \/ ServerPushes \/ UNCHANGED vars
  BY <1>5 DEF ServerAnswers, ServerPushes, vars, threads, HandlersDone
<1> QED
  BY <1>1, <1>2, <1>3, <1>4, <1>5 DEF Next

(* A call that is starting a session runs alone: no thread of a session,   *)
(* and so no handler, runs beside it.                                      *)
LEMMA StartingAlone ==
  ASSUME SingleClient, Lifecycle, HandlersDone, NEW a \in Apps, pc[a] \in Starting,
         NEW t \in Callers, Call(t) \/ Continue(t)
  PROVE  t = a
<1>1. rd = "off"
  BY DEF Lifecycle
<1>2. t # Reader
  BY <1>1, HandlerRuns
<1> QED
  BY <1>2 DEF Callers, SingleClient

-----------------------------------------------------------------------------
(* One socket.                                                             *)

(* No address lookup fails: a failed getaddrinfo leaves its socket open.   *)
AddressesResolve == "getaddrinfo" \notin ConnectFailures

Connected == {"login.enqueue", "login.spawn"}

LEMMA CallerSocket ==
  ASSUME TypeOK, SingleClient, AddressesResolve, Lifecycle, HandlersDone, OneSocket,
         NEW t \in Callers, Call(t) \/ Continue(t)
  PROVE  OneSocket'
<1>1. ASSUME NEW label \in Labels \ Connected, Goto(t, label),
             UNCHANGED <<wr, sockets>>, pc[t] \notin Connected
      PROVE  OneSocket'
  <2>1. \A u \in Callers : pc'[u] \in Connected <=> pc[u] \in Connected
    BY <1>1 DEF Goto, TypeOK, CallersOK
  <2> QED
    BY <1>1, <2>1 DEF OneSocket, Connected
<1>2. CASE Quiet(t)
  <2>1. PICK label \in Labels \ Connected : Goto(t, label)
    BY <1>2 DEF Quiet, Connected, Starting
  <2> QED
    BY <1>1, <1>2, <2>1 DEF Quiet, threads, net, Connected, Starting
<1>3. CASE LoginGuard(t) \/ LogoutGuard(t)
  <2>1. PICK label \in Labels \ Connected : Goto(t, label)
    BY <1>3 DEF LoginGuard, LogoutGuard, Branch, Labels, Connected
  <2>2. pc[t] \notin Connected /\ UNCHANGED <<wr, sockets>>
    BY <1>3 DEF LoginGuard, LogoutGuard, Branch, Connected, threads, net
  <2> QED
    BY <1>1, <2>1, <2>2
<1>4. CASE LoginClaim(t) \/ LogoutClaim(t) \/ LoginClear(t) \/ LoginAssign(t)
           \/ LogoutEnqueue(t) \/ RequestEnqueue(t)
  <2>1. PICK label \in Labels \ Connected : Goto(t, label)
    BY <1>4 DEF LoginClaim, LogoutClaim, LoginClear, LoginAssign, LogoutEnqueue,
                RequestEnqueue, Labels, Connected
  <2>2. pc[t] \notin Connected /\ UNCHANGED <<wr, sockets>>
    BY <1>4 DEF LoginClaim, LogoutClaim, LoginClear, LoginAssign, LogoutEnqueue,
                RequestEnqueue, Connected, threads, net
  <2> QED
    BY <1>1, <2>1, <2>2
<1>5. CASE Join(t, "login.join", "login.clear") \/ Join(t, "cleanup.join", "idle")
  <2>1. PICK label \in Labels \ Connected : Goto(t, label)
    BY <1>5 DEF Join, Labels, Connected
  <2>2. /\ pc[t] \notin Connected /\ UNCHANGED sockets
        /\ wr' = wr \/ (wr = "done" /\ wr' = "off")
    BY <1>5 DEF Join, Connected, net
  <2>3. \A u \in Callers : pc'[u] \in Connected <=> pc[u] \in Connected
    BY <2>1, <2>2 DEF Goto, TypeOK, CallersOK
  <2> QED
    BY <2>2, <2>3 DEF OneSocket, Connected
<1>6. ASSUME pc[t] \in Starting PROVE wr = "off" /\ \A u \in Callers : u # t => pc[u] \notin Starting
  BY <1>6 DEF Lifecycle, SingleClient, HandlerLabels, Starting, Callers
<1>7. CASE Connect(t)
  <2>1. /\ pc[t] = "login.connect" /\ pc'[t] = "login.enqueue"
        /\ UNCHANGED wr /\ sockets' = sockets + 1
    BY <1>7 DEF Connect, Goto, threads, TypeOK, CallersOK
  <2>2. sockets = 0
    BY <1>6, <2>1 DEF OneSocket, Starting
  <2> QED
    BY <2>1, <2>2 DEF OneSocket
<1>8. CASE ConnectThrows(t)
  <2>1. pc[t] = "login.connect" /\ Goto(t, "idle") /\ UNCHANGED wr /\ sockets' = sockets
    BY <1>8 DEF ConnectThrows, threads, AddressesResolve
  <2> QED
    BY <1>1, <2>1 DEF Labels, Connected
<1>9. CASE LoginEnqueue(t)
  <2>1. /\ pc[t] = "login.enqueue" /\ pc'[t] = "login.spawn"
        /\ UNCHANGED <<wr, sockets>>
    BY <1>9 DEF LoginEnqueue, Goto, threads, net, TypeOK, CallersOK
  <2> QED
    BY <2>1 DEF OneSocket
<1>10. CASE LoginSpawn(t)
  <2>1. /\ pc[t] = "login.spawn" /\ wr' = "start" /\ UNCHANGED sockets
    BY <1>10 DEF LoginSpawn, net
  <2> QED
    BY <2>1 DEF OneSocket
<1>11. CASE JoinDeleted(t)
  BY <1>11 DEF JoinDeleted, ProcessEnds, OneSocket
<1> QED
  BY <1>2, <1>3, <1>4, <1>5, <1>7, <1>8, <1>9, <1>10, <1>11, CallerCases

LEMMA OtherSocket ==
  ASSUME TypeOK, Lifecycle, OneSocket,
         Writer \/ Reading \/ ThreadThrows \/ ServerAnswers \/ ServerPushes
  PROVE  OneSocket'
<1>1. CASE WriterJoin
  <2>1. /\ wr = "join" /\ wr' = "connected" /\ sockets' = sockets - 1
        /\ UNCHANGED pc
    BY <1>1 DEF WriterJoin
  <2>2. \A u \in Callers : pc[u] \notin Connected
    BY <2>1 DEF Lifecycle, HandlerLabels, Starting, Connected, Callers
  <2> QED
    BY <2>1, <2>2 DEF OneSocket, Connected
<1>2. CASE Writer /\ ~WriterJoin
  <2>1. UNCHANGED <<pc, sockets>>
    BY <1>2 DEF Writer, WriterStart, WriterSend, WriterClearConnected,
                WriterClearDisconnecting, net
  <2>2. wr' \in {"start", "loop", "join"} <=> wr \in {"start", "loop", "join"}
    BY <1>2 DEF Writer, WriterStart, WriterSend, WriterClearConnected,
                WriterClearDisconnecting
  <2> QED
    BY <2>1, <2>2 DEF OneSocket
<1>3. CASE Reading
  <2>1. UNCHANGED <<wr, sockets>>
    BY <1>3
    DEF Reading, ReceiveLogin, Poll, ReceiveStatus, PublishConnected, PublishLoggedIn,
        ReceiveLogout, ReceiveExpired, ReceiveOther, HandlersReturn, net
  <2>2. \A u \in Callers : pc'[u] \in Connected <=> pc[u] \in Connected
    BY <1>3
    DEF Reading, ReceiveLogin, Poll, ReceiveStatus, PublishConnected, PublishLoggedIn,
        ReceiveLogout, ReceiveExpired, ReceiveOther, HandlersReturn, Receive, Goto,
        Connected, TypeOK, CallersOK
  <2> QED
    BY <2>1, <2>2 DEF OneSocket, Connected
<1>4. CASE ThreadThrows
  BY <1>4 DEF ThreadThrows, ProcessEnds, OneSocket
<1>5. CASE ServerAnswers \/ ServerPushes
  BY <1>5 DEF ServerAnswers, ServerPushes, threads, OneSocket
<1> QED
  BY <1>1, <1>2, <1>3, <1>4, <1>5

LEMMA HandlersDoneInvariant == ASSUME SingleClient PROVE Spec => []HandlersDone
<1>1. Init => HandlersDone
  BY DEF Init, HandlersDone, Callers
<1> QED
  BY <1>1, HandlersDoneKept, TypeCorrect, LifecycleInvariant, PTL DEF Spec

(* A session has one socket from its connect to the closesocket at the end *)
(* of its writing thread, and no session means no socket, whenever the     *)
(* client calls and whatever fails but the lookup of the address.          *)
THEOREM SocketPerSession ==
  ASSUME SingleClient, AddressesResolve PROVE Spec => []OneSocket
<1>1. Init => OneSocket
  BY DEF Init, OneSocket
<1>2. TypeOK /\ Lifecycle /\ HandlersDone /\ OneSocket /\ [Next]_vars => OneSocket'
  <2>1. ASSUME TypeOK, Lifecycle, HandlersDone, OneSocket, Next PROVE OneSocket'
    BY <2>1, CallerSocket, OtherSocket DEF Next
  <2>2. ASSUME OneSocket, UNCHANGED vars PROVE OneSocket'
    BY <2>2 DEF OneSocket, vars, threads, net
  <2> QED
    BY <2>1, <2>2
<1> QED
  BY <1>1, <1>2, TypeCorrect, LifecycleInvariant, HandlersDoneInvariant, PTL DEF Spec

-----------------------------------------------------------------------------
(* The conversation.                                                       *)

Has(s, type) == \E i \in DOMAIN s : s[i].type = type

LEMMA AppendHas ==
  ASSUME NEW S, NEW s \in Seq(S), NEW x \in S, NEW type
  PROVE  Has(Append(s, x), type) <=> Has(s, type) \/ x.type = type
<1>1. /\ DOMAIN Append(s, x) = 1 .. Len(s) + 1 /\ DOMAIN s = 1 .. Len(s)
      /\ \A i \in 1 .. Len(s) : Append(s, x)[i] = s[i]
      /\ Append(s, x)[Len(s) + 1] = x
      /\ Len(s) \in Nat
  BY AppendProperties, LenProperties
<1> HIDE DEF Has
<1>2. ASSUME Has(Append(s, x), type) PROVE Has(s, type) \/ x.type = type
  <2>1. PICK i \in 1 .. Len(s) + 1 : Append(s, x)[i].type = type
    BY <1>1, <1>2 DEF Has
  <2>2. i \in 1 .. Len(s) \/ i = Len(s) + 1
    BY <1>1
  <2> QED
    BY <1>1, <2>1, <2>2 DEF Has
<1>3. ASSUME Has(s, type) \/ x.type = type PROVE Has(Append(s, x), type)
  <2>1. 1 .. Len(s) \subseteq 1 .. Len(s) + 1 /\ Len(s) + 1 \in 1 .. Len(s) + 1
    BY <1>1
  <2> QED
    BY <1>1, <1>3, <2>1 DEF Has
<1> QED
  BY <1>2, <1>3

LEMMA TailHas ==
  ASSUME NEW S, NEW s \in Seq(S), s # <<>>, NEW type
  PROVE  Has(s, type) <=> Head(s).type = type \/ Has(Tail(s), type)
<1>1. /\ DOMAIN Tail(s) = 1 .. Len(s) - 1 /\ DOMAIN s = 1 .. Len(s)
      /\ \A i \in 1 .. Len(s) - 1 : Tail(s)[i] = s[i + 1]
      /\ Head(s) = s[1] /\ Len(s) \in Nat \ {0}
  BY HeadTailProperties, LenProperties, EmptySeq
<1>2. ASSUME Has(s, type) PROVE Head(s).type = type \/ Has(Tail(s), type)
  <2>1. PICK i \in 1 .. Len(s) : s[i].type = type
    BY <1>1, <1>2 DEF Has
  <2>2. CASE i = 1
    BY <1>1, <2>1, <2>2
  <2>3. CASE i # 1
    <3>1. i - 1 \in 1 .. Len(s) - 1 /\ (i - 1) + 1 = i
      BY <1>1, <2>3
    <3>2. Tail(s)[i - 1] = s[i]
      BY <1>1, <3>1
    <3> QED
      BY <1>1, <2>1, <3>1, <3>2 DEF Has
  <2> QED
    BY <2>2, <2>3
<1>3. ASSUME Head(s).type = type \/ Has(Tail(s), type) PROVE Has(s, type)
  <2>1. 1 \in 1 .. Len(s) /\ \A i \in 1 .. Len(s) - 1 : i + 1 \in 1 .. Len(s)
    BY <1>1
  <2> QED
    BY <1>1, <1>3, <2>1 DEF Has
<1> QED
  BY <1>2, <1>3

LEMMA HeadAppend ==
  ASSUME NEW S, NEW s \in Seq(S), s # <<>>, NEW x \in S
  PROVE  /\ Head(Append(s, x)) = Head(s)
         /\ Tail(Append(s, x)) = Append(Tail(s), x)
         /\ Tail(s) \in Seq(S) /\ Head(s) \in S
BY HeadTailAppend, HeadTailProperties

LEMMA ConversationGrows ==
  ASSUME TypeOK, Conversation, NEW x \in Entries,
         ~Has(toServer, "Logout"), server # "out",
         x.type = "Login" <=> server = "new" /\ toServer = <<>>,
         toServer' = Append(toServer, x), server' = server
  PROVE  Conversation'
<1>1. /\ DOMAIN toServer' = 1 .. Len(toServer) + 1 /\ DOMAIN toServer = 1 .. Len(toServer)
      /\ \A i \in 1 .. Len(toServer) : toServer'[i] = toServer[i]
      /\ toServer'[Len(toServer) + 1] = x /\ Len(toServer') = Len(toServer) + 1
      /\ Len(toServer) \in Nat /\ (toServer = <<>> <=> Len(toServer) = 0)
  BY AppendProperties, LenProperties, EmptySeq DEF TypeOK, NetOK
<1>2. ASSUME NEW i \in DOMAIN toServer'
      PROVE  /\ toServer'[i].type = "Login" <=> (i = 1 /\ server' = "new")
             /\ toServer'[i].type = "Logout" => i = Len(toServer')
  <2>1. CASE i \in DOMAIN toServer
    BY <1>1, <2>1 DEF Conversation, Has
  <2>2. CASE i = Len(toServer) + 1
    BY <1>1, <2>2
  <2> QED
    BY <1>1, <1>2, <2>1, <2>2
<1> QED
  BY <1>2 DEF Conversation

LEMMA ConversationShrinks ==
  ASSUME TypeOK, Conversation, toServer # <<>>, server # "none",
         toServer' = Tail(toServer),
         IF Head(toServer).type = "Login" THEN server' \in {"in", "denied"}
         ELSE server' = IF Head(toServer).type = "Logout" THEN "out" ELSE server
  PROVE  Conversation' /\ server' \notin {"none", "new"}
<1>1. /\ DOMAIN toServer' = 1 .. Len(toServer) - 1 /\ DOMAIN toServer = 1 .. Len(toServer)
      /\ \A i \in 1 .. Len(toServer) - 1 : toServer'[i] = toServer[i + 1]
      /\ Head(toServer) = toServer[1] /\ Len(toServer') = Len(toServer) - 1
      /\ Len(toServer) \in Nat \ {0} /\ toServer' \in Seq(Entries)
  BY HeadTailProperties, LenProperties, EmptySeq DEF TypeOK, NetOK
<1>2. server' \notin {"none", "new"}
  BY <1>1 DEF Conversation
<1>3. ASSUME NEW i \in DOMAIN toServer'
      PROVE  /\ toServer'[i].type # "Login"
             /\ toServer'[i].type = "Logout" => i = Len(toServer')
  <2>1. i + 1 \in DOMAIN toServer /\ i + 1 # 1 /\ toServer'[i] = toServer[i + 1]
    BY <1>1
  <2> QED
    BY <1>1, <2>1 DEF Conversation
<1>4. server' = "out" => toServer' = <<>>
  <2>1. ASSUME server' = "out" PROVE Len(toServer) = 1
    BY <1>1, <2>1 DEF Conversation
  <2> QED
    BY <1>1, <2>1, EmptySeq
<1> QED
  BY <1>2, <1>3, <1>4 DEF Conversation

(* Nothing has been said yet on the connection.                            *)
Fresh == server = "new" /\ toServer = <<>> /\ toClient = <<>>

(* The Login waits at the front of the queue, and no other does.           *)
LoginFirst ==
  queue # <<>> /\ Head(queue).type = "Login" /\ ~Has(Tail(queue), "Login")

(* Where the Login is on its way from Login to the server, and that the    *)
(* writing thread goes on only until it has sent a Logout.                 *)
Talk ==
  /\ Conversation
  /\ server \in {"none", "new"} => toClient = <<>>
  /\ \A a \in Apps :
       /\ pc[a] \in {"login.connect", "login.enqueue"} => queue = <<>>
       /\ pc[a] \in Connected => Fresh
       /\ pc[a] = "login.spawn" => LoginFirst /\ Tail(queue) = <<>>
  /\ wr = "start" => Fresh /\ LoginFirst
  /\ wr = "loop" =>
       /\ server # "out" /\ ~Has(toServer, "Logout")
       /\ IF Fresh THEN LoginFirst ELSE ~Has(queue, "Login")

LEMMA QuietTalk ==
  ASSUME TypeOK, Talk, NEW t \in Callers, NEW label \in Labels \ Starting,
         Goto(t, label), UNCHANGED <<queue, toServer, toClient, server>>,
         wr' = wr \/ wr' = "off"
  PROVE  Talk'
<1>1. \A a \in Apps : pc'[a] \in Starting => pc'[a] = pc[a]
  BY DEF Goto, TypeOK, CallersOK, Callers
<1> QED
  BY <1>1 DEF Talk, Conversation, Fresh, LoginFirst, Has, Starting, Connected

LEMMA EndsTalk == ASSUME NEW why, ProcessEnds(why) PROVE Talk'
BY DEF ProcessEnds, Talk, Conversation, Connected, Callers

(* A request other than a Login joins the queue of a running session.      *)
LEMMA EnqueueTalk ==
  ASSUME TypeOK, Talk, NEW type \in EntryTypes \ {"Login"}, NEW spot \in Nat,
         Enqueue(type, spot)
  PROVE  /\ LoginFirst => LoginFirst'
         /\ ~Has(queue, "Login") => ~Has(queue', "Login")
<1> DEFINE x == [type |-> type, spot |-> spot, session |-> session]
<1>1. /\ queue \in Seq(Entries) /\ x \in Entries /\ queue' = Append(queue, x)
      /\ x.type # "Login"
  BY DEF TypeOK, ClientOK, Entries, EntryTypes, Enqueue
<1> HIDE DEF x
<1>2. ~Has(queue, "Login") => ~Has(queue', "Login")
  BY <1>1, AppendHas
<1>3. ASSUME LoginFirst PROVE LoginFirst'
  <2>1. /\ queue # <<>> /\ Head(queue') = Head(queue)
        /\ Tail(queue') = Append(Tail(queue), x) /\ Tail(queue) \in Seq(Entries)
    BY <1>1, <1>3, HeadAppend DEF LoginFirst
  <2>2. ~Has(Tail(queue'), "Login")
    BY <1>1, <1>3, <2>1, AppendHas, ZenonT(40) DEF LoginFirst
  <2>3. queue' # <<>>
    BY <1>1, AppendProperties
  <2> QED
    BY <1>3, <2>1, <2>2, <2>3 DEF LoginFirst, Has
<1> QED
  BY <1>2, <1>3

LEMMA CallerTalk ==
  ASSUME TypeOK, SingleClient, Lifecycle, HandlersDone, Talk,
         NEW t \in Callers, Call(t) \/ Continue(t)
  PROVE  Talk'
<1>1. CASE Quiet(t)
  BY <1>1, QuietTalk DEF Quiet, threads, net
<1>2. CASE LoginGuard(t) \/ LogoutGuard(t)
  <2>1. PICK label \in Labels \ Starting : Goto(t, label)
    BY <1>2 DEF LoginGuard, LogoutGuard, Branch, Labels, Starting
  <2> QED
    BY <1>2, <2>1, QuietTalk DEF LoginGuard, LogoutGuard, Branch, threads, net
<1>3. CASE LoginClaim(t) \/ LogoutClaim(t) \/ LoginAssign(t) \/ ConnectThrows(t)
  BY <1>3, QuietTalk
  DEF LoginClaim, LogoutClaim, LoginAssign, ConnectThrows, Labels, Starting, threads, net
<1>4. CASE Join(t, "cleanup.join", "idle")
  BY <1>4, QuietTalk DEF Join, Labels, Starting, net
<1>5. ASSUME pc[t] \in Starting \cup {"login.join"}
      PROVE  t \in Apps /\ \A a \in Apps : a = t
  BY <1>5 DEF Lifecycle, HandlerLabels, Starting, SingleClient, Callers
<1>6. CASE Join(t, "login.join", "login.clear")
  <2>1. /\ pc[t] = "login.join" /\ pc' = [pc EXCEPT ![t] = "login.clear"]
        /\ UNCHANGED <<queue, net>> /\ (wr' = wr \/ wr' = "off")
    BY <1>6 DEF Join, Goto
  <2>2. \A a \in Apps : pc'[a] = "login.clear"
    BY <1>5, <2>1 DEF TypeOK, CallersOK
  <2> QED
    BY <2>1, <2>2 DEF Talk, Conversation, Fresh, LoginFirst, Has, Connected, net
<1>7. ASSUME pc[t] \in Starting, UNCHANGED wr,
             NEW label \in Labels, Goto(t, label)
      PROVE  wr' = "off" /\ \A a \in Apps : pc'[a] = label
  BY <1>5, <1>7 DEF Lifecycle, Goto, TypeOK, CallersOK
<1>8. CASE LoginClear(t)
  <2>1. wr' = "off" /\ \A a \in Apps : pc'[a] = "login.connect"
    BY <1>7, <1>8 DEF LoginClear, threads, Labels, Starting
  <2> QED
    BY <1>8, <2>1 DEF LoginClear, net, Talk, Conversation, Connected
<1>9. CASE Connect(t)
  <2>1. wr' = "off" /\ \A a \in Apps : pc'[a] = "login.enqueue"
    BY <1>7, <1>9 DEF Connect, threads, Labels, Starting
  <2>2. queue = <<>>
    BY <1>5, <1>9 DEF Connect, Talk, Starting
  <2> QED
    BY <1>9, <2>1, <2>2 DEF Connect, Talk, Conversation, Fresh
<1>10. CASE LoginEnqueue(t)
  <2>1. wr' = "off" /\ \A a \in Apps : pc'[a] = "login.spawn"
    BY <1>7, <1>10 DEF LoginEnqueue, threads, Labels, Starting
  <2>2. queue = <<>> /\ Fresh
    BY <1>5, <1>10 DEF LoginEnqueue, Talk, Starting, Connected
  <2>3. queue' = <<[type |-> "Login", spot |-> 0, session |-> session]>>
    BY <1>10, <2>2 DEF LoginEnqueue, Enqueue
  <2>4. LoginFirst' /\ Tail(queue') = <<>>
    BY <2>3 DEF LoginFirst, Has
  <2> QED
    BY <1>10, <2>1, <2>2, <2>4 DEF LoginEnqueue, net, Talk, Conversation, Fresh
<1>11. CASE LoginSpawn(t)
  <2>1. /\ pc[t] = "login.spawn" /\ pc' = [pc EXCEPT ![t] = "login.assign"]
        /\ wr' = "start" /\ UNCHANGED <<queue, net>>
    BY <1>11 DEF LoginSpawn, Goto
  <2>2. Fresh /\ LoginFirst /\ \A a \in Apps : pc'[a] = "login.assign"
    BY <1>5, <2>1 DEF Talk, Connected, Starting, TypeOK, CallersOK
  <2> QED
    BY <2>1, <2>2 DEF Talk, Conversation, Fresh, LoginFirst, Has, Connected, net
<1>12. CASE LogoutEnqueue(t) \/ RequestEnqueue(t)
  <2>1. PICK type \in EntryTypes \ {"Login"} : Enqueue(type, 0)
    BY <1>12, SessionAssumption
    DEF LogoutEnqueue, RequestEnqueue, EntryTypes, RequestTypes
  <2>2. /\ pc[t] \notin Starting /\ UNCHANGED <<wr, net>>
        /\ \E label \in Labels \ Starting : Goto(t, label)
    BY <1>12 DEF LogoutEnqueue, RequestEnqueue, threads, Labels, Starting
  <2>3. \A a \in Apps : pc'[a] \notin Starting
    BY <2>2, StartingAlone DEF Goto, TypeOK, CallersOK, Callers
  <2>4. (LoginFirst => LoginFirst') /\ (~Has(queue, "Login") => ~Has(queue', "Login"))
    BY <2>1, EnqueueTalk
  <2>5. UNCHANGED <<toServer, toClient, server>>
    BY <2>2 DEF net
  <2> QED
    BY <2>2, <2>3, <2>4, <2>5 DEF Talk, Conversation, Fresh, Has, Starting, Connected
<1>13. CASE JoinDeleted(t)
  BY <1>13, EndsTalk DEF JoinDeleted
<1> QED
  BY <1>1, <1>2, <1>3, <1>4, <1>6, <1>8, <1>9, <1>10, <1>11, <1>12, <1>13, CallerCases

LEMMA WriterTalk ==
  ASSUME TypeOK, Lifecycle, Talk, Writer PROVE Talk'
<1>1. wr # "off" /\ UNCHANGED <<pc, toClient, server>>
  BY DEF Writer, WriterStart, WriterSend, WriterJoin, WriterClearConnected,
         WriterClearDisconnecting, net
<1>2. \A a \in Apps : pc'[a] \notin Starting
  BY <1>1 DEF Lifecycle
<1>3. CASE WriterStart
  <2>1. wr = "start" /\ UNCHANGED <<queue, toServer>>
    BY <1>3 DEF WriterStart, net
  <2>2. Fresh /\ LoginFirst
    BY <2>1 DEF Talk
  <2> QED
    BY <1>1, <1>2, <2>1, <2>2
    DEF Talk, Conversation, Fresh, LoginFirst, Has, Starting, Connected
<1>4. CASE WriterSend
  <2>1. /\ wr = "loop" /\ queue # <<>> /\ queue' = Tail(queue)
        /\ toServer' = Append(toServer, Head(queue))
        /\ wr' = IF Head(queue).type = "Logout" THEN "join" ELSE "loop"
    BY <1>4 DEF WriterSend
  <2>2. /\ queue \in Seq(Entries) /\ Head(queue) \in Entries /\ toServer \in Seq(Entries)
    BY <2>1, HeadTailProperties DEF TypeOK, NetOK
  <2>3. server # "out" /\ ~Has(toServer, "Logout")
    BY <2>1 DEF Talk
  <2>4. /\ Head(queue).type = "Login" <=> Fresh
        /\ ~Has(queue', "Login")
    BY <2>1, <2>2, TailHas DEF Talk, LoginFirst
  <2>5. Fresh <=> server = "new" /\ toServer = <<>>
    BY DEF Fresh, Talk
  <2>6. Conversation'
    BY <1>1, <2>1, <2>2, <2>3, <2>4, <2>5, ConversationGrows DEF Talk
  <2>7. wr' = "loop" => ~Has(toServer', "Logout")
    BY <2>1, <2>2, <2>3, AppendHas
  <2>8. toServer' # <<>>
    BY <2>1, <2>2, AppendProperties
  <2>9. (server \in {"none", "new"} => toClient = <<>>)'
    BY <1>1 DEF Talk
  <2> QED
    BY <1>1, <1>2, <2>1, <2>3, <2>4, <2>6, <2>7, <2>8, <2>9
    DEF Talk, Fresh, Starting, Connected
<1>5. CASE WriterJoin \/ WriterClearConnected \/ WriterClearDisconnecting
  <2>1. wr' \notin {"start", "loop"} /\ UNCHANGED <<queue, toServer>>
    BY <1>5 DEF WriterJoin, WriterClearConnected, WriterClearDisconnecting, net
  <2> QED
    BY <1>1, <1>2, <2>1 DEF Talk, Conversation, Starting, Connected
<1> QED
  BY <1>3, <1>4, <1>5 DEF Writer

(* What the reading thread puts into the queue.                            *)
LEMMA ReadingEnqueues ==
  ASSUME TypeOK, Reading
  PROVE  \/ UNCHANGED queue
         \/ Poll /\ rd = "poll" /\ nextSpot \in Nat /\ Enqueue("GetParkingStatus", nextSpot)
         \/ ReceiveExpired /\ Enqueue("GetNextExpired", 0)
BY DEF Reading, ReceiveLogin, Poll, ReceiveStatus, PublishConnected, PublishLoggedIn,
       ReceiveLogout, ReceiveExpired, ReceiveOther, HandlersReturn, TypeOK, ThreadsOK

(* What it takes from the socket.                                          *)
LEMMA ReadingTakes ==
  ASSUME Reading
  PROVE  /\ rd \notin {"off", "exited"} /\ UNCHANGED <<toServer, server, wr>>
         /\ \/ UNCHANGED toClient
            \/ rd = "recv" /\ toClient # <<>> /\ toClient' = Tail(toClient)
BY DEF Reading, ReceiveLogin, Poll, ReceiveStatus, PublishConnected, PublishLoggedIn,
       ReceiveLogout, ReceiveExpired, ReceiveOther, HandlersReturn, Receive, net

LEMMA ReadingTalk ==
  ASSUME TypeOK, Lifecycle, Talk, Reading PROVE Talk'
<1>1. /\ wr \notin {"off", "start"} /\ UNCHANGED <<toServer, server, wr>>
      /\ UNCHANGED toClient \/ toClient # <<>>
  BY ReadingTakes DEF Lifecycle
<1>2. \A a \in Apps : pc'[a] \notin Starting
  <2>1. \A a \in Apps : pc[a] \notin Starting
    BY <1>1 DEF Lifecycle
  <2> QED
    BY <2>1
    DEF Reading, ReceiveLogin, Poll, ReceiveStatus, PublishConnected, PublishLoggedIn,
        ReceiveLogout, ReceiveExpired, ReceiveOther, HandlersReturn, Goto, TypeOK,
        CallersOK, Callers, Starting
<1>3. (LoginFirst => LoginFirst') /\ (~Has(queue, "Login") => ~Has(queue', "Login"))
  <2>1. CASE UNCHANGED queue
    BY <2>1 DEF LoginFirst, Has
  <2>2. CASE \E type \in EntryTypes \ {"Login"}, spot \in Nat : Enqueue(type, spot)
    BY <2>2, EnqueueTalk
  <2> QED
    BY <2>1, <2>2, ReadingEnqueues DEF EntryTypes, RequestTypes
<1>4. Fresh' <=> Fresh
  BY <1>1 DEF Fresh, Talk
<1>5. (server \in {"none", "new"} => toClient = <<>>)'
  BY <1>1 DEF Talk
<1> QED
  BY <1>1, <1>2, <1>3, <1>4, <1>5 DEF Talk, Conversation, Has, Starting, Connected

LEMMA ServerTalk ==
  ASSUME TypeOK, Talk, ServerAnswers \/ ServerPushes PROVE Talk'
<1>1. UNCHANGED <<queue, pc, wr>>
  BY DEF ServerAnswers, ServerPushes, threads
<1>2. CASE ServerAnswers
  <2>1. /\ server \in {"new", "in", "denied"} /\ toServer # <<>> /\ toServer' = Tail(toServer)
        /\ IF Head(toServer).type = "Login" THEN server' \in {"in", "denied"}
           ELSE server' = IF Head(toServer).type = "Logout" THEN "out" ELSE server
    BY <1>2 DEF ServerAnswers
  <2>2. Conversation' /\ server' \notin {"none", "new"}
    BY <2>1, ConversationShrinks DEF Talk
  <2>3. ~Fresh /\ ~Fresh'
    BY <2>1, <2>2 DEF Fresh
  <2>4. wr = "loop" => server' # "out" /\ ~Has(toServer', "Logout")
    BY <2>1, TailHas DEF Talk, TypeOK, NetOK
  <2> QED
    BY <1>1, <2>2, <2>3, <2>4 DEF Talk, Has, Connected
<1>3. CASE ServerPushes
  <2>1. server = "in" /\ UNCHANGED <<toServer, server>>
    BY <1>3 DEF ServerPushes
  <2>2. ~Fresh /\ ~Fresh'
    BY <2>1 DEF Fresh
  <2> QED
    BY <1>1, <2>1, <2>2 DEF Talk, Conversation, Has, Connected
<1> QED
  BY <1>2, <1>3

LEMMA TalkInvariant == ASSUME SingleClient PROVE Spec => []Talk
<1>1. Init => Talk
  BY DEF Init, Talk, Conversation, Connected, Callers
<1>2. TypeOK /\ Lifecycle /\ HandlersDone /\ Talk /\ [Next]_vars => Talk'
  <2>1. ASSUME TypeOK, Lifecycle, HandlersDone, Talk, Next PROVE Talk'
    <3>1. CASE ThreadThrows
      BY <3>1, EndsTalk DEF ThreadThrows
    <3> QED
      BY <2>1, <3>1, CallerTalk, WriterTalk, ReadingTalk, ServerTalk DEF Next
  <2>2. ASSUME Talk, UNCHANGED vars PROVE Talk'
    BY <2>2 DEF Talk, Conversation, Fresh, LoginFirst, Has, vars, threads, net
  <2> QED
    BY <2>1, <2>2
<1> QED
  BY <1>1, <1>2, TypeCorrect, LifecycleInvariant, HandlersDoneInvariant, PTL DEF Spec

(* What travels to the server on one connection is a conversation: one     *)
(* Login, first, and nothing after a Logout, whenever the client calls.    *)
THEOREM OneConversation == ASSUME SingleClient PROVE Spec => []Conversation
<1>1. Talk => Conversation
  BY DEF Talk
<1> QED
  BY <1>1, TalkInvariant, PTL

-----------------------------------------------------------------------------
(* The attempt to log in.                                                  *)

(* A session whose LoginReply has not been raised; a stale m_IsConnected,  *)
(* unset or of the session before, hides it.                               *)
Pending ==
  \/ wr = "start" \/ rd = "connecting"
  \/ rd \in {"recv", "poll", "connected", "handler"} /\ ~isConnected

(* m_IsConnecting covers the attempt from its claim to its LoginReply, so  *)
(* that a Login that passes its guard finds no other under way.            *)
Attempt ==
  /\ \A a \in Apps :
       /\ pc[a] \in {"login.connected", "login.disconnecting", "login.claim"}
            => ~isConnecting
       /\ pc[a] \in {"login.join"} \cup Starting => isConnecting
       /\ pc[a] \in Opening => ~Pending
  /\ Pending => isConnecting
  /\ rd = "connecting" => isConnected
  /\ rd = "connected" => ~isConnected
  /\ wr \in {"disconnecting", "done"} => ~isConnected

LEMMA QuietAttempt ==
  ASSUME TypeOK, Attempt, NEW t \in Callers, NEW label \in Labels, Goto(t, label),
         label \in Opening \cup Starting => {label, pc[t]} \subseteq Starting,
         UNCHANGED <<isConnecting, isConnected, wr, rd>>
  PROVE  Attempt'
<1>1. ASSUME NEW a \in Apps
      PROVE  \/ pc'[a] = pc[a]
             \/ pc'[a] \notin Opening \cup Starting
             \/ pc'[a] \in Starting /\ pc[a] \in Starting
  BY DEF Goto, TypeOK, CallersOK, Callers
<1>2. Pending' <=> Pending
  BY DEF Pending
<1> QED
  BY <1>1, <1>2 DEF Attempt, Opening, Starting

LEMMA EndsAttempt == ASSUME NEW why, ProcessEnds(why) PROVE Attempt'
BY DEF ProcessEnds, Attempt, Pending, Opening, Starting, Callers

LEMMA CallerAttempt ==
  ASSUME TypeOK, SingleClient, Lifecycle, HandlersDone, Attempt,
         NEW t \in Callers, Call(t) \/ Continue(t)
  PROVE  Attempt'
<1>1. CASE Quiet(t)
  <2>1. PICK label \in Labels : Goto(t, label) /\ label \notin Opening \cup Starting
    BY <1>1 DEF Quiet
  <2>2. UNCHANGED <<isConnecting, isConnected, wr, rd>>
    BY <1>1 DEF Quiet, flags, threads
  <2> QED
    BY <2>1, <2>2, QuietAttempt
<1>2. CASE LogoutGuard(t)
  <2>1. PICK label \in Labels : Goto(t, label) /\ label \notin Opening \cup Starting
    BY <1>2 DEF LogoutGuard, Branch, Labels, Opening, Starting
  <2>2. UNCHANGED <<isConnecting, isConnected, wr, rd>>
    BY <1>2 DEF LogoutGuard, Branch, flags, threads
  <2> QED
    BY <2>1, <2>2, QuietAttempt
<1>3. CASE LogoutClaim(t) \/ LogoutEnqueue(t) \/ RequestEnqueue(t) \/ LoginAssign(t)
  <2>1. PICK label \in Labels : Goto(t, label) /\ label \notin Opening \cup Starting
    BY <1>3 DEF LogoutClaim, LogoutEnqueue, RequestEnqueue, LoginAssign, Labels,
                Opening, Starting
  <2>2. UNCHANGED <<isConnecting, isConnected, wr, rd>>
    BY <1>3 DEF LogoutClaim, LogoutEnqueue, RequestEnqueue, LoginAssign, flags, threads
  <2> QED
    BY <2>1, <2>2, QuietAttempt
<1>4. CASE LoginClear(t) \/ Connect(t) \/ LoginEnqueue(t)
  <2>1. PICK label \in Starting : Goto(t, label) /\ pc[t] \in Starting
    BY <1>4 DEF LoginClear, Connect, LoginEnqueue, Starting
  <2> QED
    BY <1>4, <2>1, QuietAttempt
    DEF LoginClear, Connect, LoginEnqueue, Labels, Starting, flags, threads
<1>5. ASSUME pc[t] \in Starting \cup Opening \cup {"login.connecting"}
      PROVE  t \in Apps /\ \A a \in Apps : a = t
  BY <1>5 DEF Lifecycle, HandlerLabels, Starting, Opening, SingleClient, Callers
<1>6. CASE LoginGuard(t)
  <2>1. UNCHANGED <<flags, threads>>
    BY <1>6 DEF LoginGuard, Branch
  <2>2. pc[t] \in Opening \cup {"login.connecting"}
    BY <1>6 DEF LoginGuard, Branch, Opening
  <2>3. \/ pc'[t] \notin Opening \cup Starting
        \/ pc'[t] \in {"login.connected", "login.disconnecting", "login.claim"} /\ ~isConnecting
    BY <1>6, <1>5, <2>2
    DEF LoginGuard, Branch, Goto, TypeOK, CallersOK, FlagsOK, Attempt, Opening, Starting
  <2>4. ~isConnecting => ~Pending
    BY DEF Attempt
  <2>5. \A a \in Apps : pc'[a] = pc'[t]
    BY <1>5, <2>2
  <2> QED
    BY <2>1, <2>3, <2>4, <2>5 DEF Attempt, Pending, Opening, Starting, flags, threads
<1>7. CASE LoginClaim(t)
  <2>1. /\ pc[t] = "login.claim" /\ pc' = [pc EXCEPT ![t] = "login.join"]
        /\ isConnecting' = TRUE /\ UNCHANGED <<isConnected, wr, rd>>
    BY <1>7 DEF LoginClaim, Goto, threads
  <2>2. ~Pending /\ \A a \in Apps : pc'[a] = "login.join"
    BY <1>5, <2>1 DEF Attempt, Opening, TypeOK, CallersOK
  <2> QED
    BY <2>1, <2>2 DEF Attempt, Pending
<1>8. CASE Join(t, "login.join", "login.clear") \/ Join(t, "cleanup.join", "idle")
  <2>1. PICK label \in {"login.clear", "idle"} :
          /\ Goto(t, label) /\ UNCHANGED <<isConnecting, isConnected>>
          /\ label = "login.clear" => pc[t] = "login.join"
          /\ (wr' = wr /\ rd' = rd) \/ (wr' = "off" /\ rd' = "off")
    BY <1>8 DEF Join, flags
  <2>2. Pending' => Pending
    BY <2>1 DEF Pending
  <2>3. \A a \in Apps : pc'[a] = pc[a] \/ pc'[a] = "idle"
                        \/ (pc'[a] = "login.clear" /\ pc[a] = "login.join")
    BY <2>1 DEF Goto, TypeOK, CallersOK, Callers
  <2> QED
    BY <2>1, <2>2, <2>3 DEF Attempt, Opening, Starting
<1>9. CASE ConnectThrows(t)
  <2>1. /\ pc[t] = "login.connect" /\ pc' = [pc EXCEPT ![t] = "idle"]
        /\ isConnecting' = FALSE /\ UNCHANGED <<isConnected, wr, rd>>
    BY <1>9 DEF ConnectThrows, Goto, threads
  <2>2. \A a \in Apps : pc'[a] = "idle"
    BY <1>5, <2>1 DEF Starting, TypeOK, CallersOK
  <2>3. wr = "off" /\ rd = "off"
    BY <1>5, <2>1 DEF Lifecycle, Starting
  <2> QED
    BY <2>1, <2>2, <2>3 DEF Attempt, Pending, Opening, Starting
<1>10. CASE LoginSpawn(t)
  <2>1. /\ pc[t] = "login.spawn" /\ pc' = [pc EXCEPT ![t] = "login.assign"]
        /\ wr' = "start" /\ UNCHANGED <<isConnecting, isConnected, rd>>
    BY <1>10 DEF LoginSpawn, Goto, flags
  <2>2. isConnecting /\ \A a \in Apps : pc'[a] = "login.assign"
    BY <1>5, <2>1 DEF Attempt, Starting, TypeOK, CallersOK
  <2> QED
    BY <2>1, <2>2 DEF Attempt, Opening, Starting
<1>11. CASE JoinDeleted(t)
  BY <1>11, EndsAttempt DEF JoinDeleted
<1> QED
  BY <1>1, <1>2, <1>3, <1>4, <1>6, <1>7, <1>8, <1>9, <1>10, <1>11, CallerCases

LEMMA WriterAttempt ==
  ASSUME TypeOK, Lifecycle, Attempt, Writer PROVE Attempt'
<1>1. wr # "off" /\ UNCHANGED <<pc, isConnecting>>
  BY DEF Writer, WriterStart, WriterSend, WriterJoin, WriterClearConnected,
         WriterClearDisconnecting, flags
<1>2. /\ Pending' => Pending
      /\ (rd = "connecting" => isConnected)' /\ (rd = "connected" => ~isConnected)'
      /\ (wr \in {"disconnecting", "done"} => ~isConnected)'
  BY DEF Writer, WriterStart, WriterSend, WriterJoin, WriterClearConnected,
         WriterClearDisconnecting, flags, Pending, Attempt, Lifecycle
<1> QED
  BY <1>1, <1>2 DEF Attempt

LEMMA ReadingAttempt ==
  ASSUME TypeOK, Lifecycle, Attempt, Reading PROVE Attempt'
<1>1. \A a \in Apps : pc'[a] = pc[a]
  BY SessionAssumption
  DEF Reading, ReceiveLogin, Poll, ReceiveStatus, PublishConnected, PublishLoggedIn,
      ReceiveLogout, ReceiveExpired, ReceiveOther, HandlersReturn, Goto, TypeOK,
      CallersOK, Callers
<1>2. /\ rd \notin {"off", "exited"} /\ UNCHANGED wr
      /\ wr \notin {"off", "start", "disconnecting", "done"}
  BY ReadingTakes DEF Lifecycle
<1>3. \A a \in Apps : pc[a] \notin Starting
  BY <1>2 DEF Lifecycle
<1>4. CASE PublishConnected
  <2>1. Pending /\ UNCHANGED isConnecting /\ isConnected' = TRUE /\ rd' = "connecting"
    BY <1>4 DEF PublishConnected, Attempt, Pending
  <2> QED
    BY <1>1, <1>2, <2>1 DEF Attempt
<1>5. CASE PublishLoggedIn \/ ReceiveLogout
  <2>1. CASE PublishLoggedIn
    <3>1. /\ rd = "connecting" /\ rd' = "handler" /\ UNCHANGED isConnected
          /\ isConnecting' = FALSE
      BY <2>1 DEF PublishLoggedIn, Raise
    <3>2. Pending /\ ~Pending' /\ isConnected
      BY <1>2, <3>1 DEF Attempt, Pending
    <3>3. \A a \in Apps : pc[a] \notin Opening
      BY <3>2 DEF Attempt
    <3> QED
      BY <1>1, <1>2, <1>3, <3>1, <3>2, <3>3 DEF Attempt, Opening
  <2>2. CASE ReceiveLogout
    <3>1. /\ rd = "recv" /\ rd' = "last.handler" /\ UNCHANGED isConnected
          /\ isConnecting' = IF isConnected THEN isConnecting ELSE FALSE
      BY <2>2 DEF ReceiveLogout, Receive, Raise
    <3>2. ~Pending'
      BY <1>2, <3>1 DEF Attempt, Pending
    <3>3. ~isConnected => \A a \in Apps : pc[a] \notin Opening
      BY <3>1 DEF Attempt, Pending
    <3> QED
      BY <1>1, <1>2, <1>3, <3>1, <3>2, <3>3 DEF Attempt, Opening
  <2> QED
    BY <1>5, <2>1, <2>2
<1>6. CASE ~(PublishConnected \/ PublishLoggedIn \/ ReceiveLogout)
  <2>1. UNCHANGED <<isConnecting, isConnected>>
    BY <1>6
    DEF Reading, ReceiveLogin, Poll, ReceiveStatus, ReceiveExpired, ReceiveOther,
        HandlersReturn, flags
  <2>2. /\ rd' # "connecting" /\ (rd' = "connected" => ~isConnected)
        /\ rd \in {"recv", "poll", "handler"} \/ rd' = "exited"
    BY <1>6
    DEF Reading, ReceiveLogin, Poll, ReceiveStatus, ReceiveExpired, ReceiveOther,
        HandlersReturn, Receive, Raise
  <2>3. Pending' => Pending
    BY <1>2, <2>1, <2>2 DEF Pending
  <2> QED
    BY <1>1, <1>2, <2>1, <2>2, <2>3 DEF Attempt
<1> QED
  BY <1>4, <1>5, <1>6

LEMMA AttemptInvariant == ASSUME SingleClient PROVE Spec => []Attempt
<1>1. Init => Attempt
  BY DEF Init, Attempt, Pending, Opening, Starting, Callers
<1>2. TypeOK /\ Lifecycle /\ HandlersDone /\ Attempt /\ [Next]_vars => Attempt'
  <2>1. ASSUME TypeOK, Lifecycle, HandlersDone, Attempt, Next PROVE Attempt'
    <3>1. CASE ThreadThrows
      BY <3>1, EndsAttempt DEF ThreadThrows
    <3>2. CASE ServerAnswers \/ ServerPushes
      BY <2>1, <3>2
      DEF ServerAnswers, ServerPushes, flags, threads, Attempt, Pending
    <3> QED
      BY <2>1, <3>1, <3>2, CallerAttempt, WriterAttempt, ReadingAttempt DEF Next
  <2>2. ASSUME Attempt, UNCHANGED vars PROVE Attempt'
    BY <2>2 DEF Attempt, Pending, vars, flags, threads
  <2> QED
    BY <2>1, <2>2
<1> QED
  BY <1>1, <1>2, TypeCorrect, LifecycleInvariant, HandlersDoneInvariant, PTL DEF Spec

-----------------------------------------------------------------------------
(* The answer to a Login.                                                  *)

\* The server has yet to answer the Login, or the reading thread to read it.
Unread == server = "new" \/ Has(toClient, "Login")

\* The server has accepted the login, as the reading thread knows or will read.
Granted ==
  \/ latestLogin = "Success"
  \/ /\ toClient # <<>>
     /\ Head(toClient).type = "Login" /\ Head(toClient).reply = "Success"

Statuses(s) == Has(s, "GetParkingStatus")

(* The answer to the Login is the first reply and the only one of its      *)
(* kind; nobody asks for or reports a status before the login is granted.  *)
Answer ==
  /\ toClient # <<>> => ~Has(Tail(toClient), "Login")
  /\ wr = "start" => ~Statuses(queue)
  /\ rd # "off" /\ Unread => latestLogin # "Success"
  /\ rd \in {"poll", "connected", "connecting"} => latestLogin = "Success"
  /\ rd # "off" /\ ~Granted =>
       server # "in" /\ ~Statuses(queue) /\ ~Statuses(toServer) /\ ~Statuses(toClient)

LEMMA EndsAnswer == ASSUME NEW why, ProcessEnds(why) PROVE Answer'
BY DEF ProcessEnds, Answer

(* A request that is no status joins the queue.                            *)
LEMMA EnqueueStatuses ==
  ASSUME TypeOK, NEW type \in EntryTypes \ {"GetParkingStatus"}, NEW spot \in Nat,
         Enqueue(type, spot)
  PROVE  Statuses(queue') => Statuses(queue)
<1> DEFINE x == [type |-> type, spot |-> spot, session |-> session]
<1>1. /\ queue \in Seq(Entries) /\ x \in Entries /\ queue' = Append(queue, x)
      /\ x.type # "GetParkingStatus"
  BY DEF TypeOK, ClientOK, Entries, EntryTypes, Enqueue
<1> HIDE DEF x
<1> QED
  BY <1>1, AppendHas DEF Statuses

(* A step that takes nothing from the socket, and asks for no status.      *)
LEMMA QuietAnswer ==
  ASSUME Answer, UNCHANGED <<toServer, toClient, server, latestLogin>>,
         Statuses(queue') => Statuses(queue),
         wr' = "start" => wr = "start",
         rd' = "off" \/ (rd # "off" /\ (rd' = rd \/ rd' \notin {"poll", "connected", "connecting"}))
  PROVE  Answer'
BY DEF Answer, Unread, Granted, Has, Statuses

LEMMA CallerAnswer ==
  ASSUME TypeOK, SingleClient, Lifecycle, Talk, Answer,
         NEW t \in Callers, Call(t) \/ Continue(t)
  PROVE  Answer'
<1>1. CASE Quiet(t) \/ LoginGuard(t) \/ LogoutGuard(t) \/ LoginClaim(t) \/ LogoutClaim(t)
           \/ ConnectThrows(t) \/ LoginAssign(t)
  <2>1. UNCHANGED <<queue, toServer, toClient, server, latestLogin, wr, rd>>
    BY <1>1 DEF Quiet, LoginGuard, LogoutGuard, Branch, LoginClaim, LogoutClaim,
                ConnectThrows, LoginAssign, threads, net
  <2> QED
    BY <2>1 DEF Answer, Unread, Granted, Has, Statuses
<1>2. CASE Join(t, "login.join", "login.clear") \/ Join(t, "cleanup.join", "idle")
  <2>1. /\ UNCHANGED <<queue, toServer, toClient, server, latestLogin>>
        /\ (wr' = wr /\ rd' = rd) \/ (wr' = "off" /\ rd' = "off")
    BY <1>2 DEF Join, net
  <2> QED
    BY <2>1 DEF Answer, Unread, Granted, Has, Statuses
<1>3. ASSUME pc[t] \in Starting PROVE wr = "off" /\ rd = "off" /\ t \in Apps
  BY <1>3 DEF Lifecycle, HandlerLabels, Starting, Callers
<1>4. CASE LoginClear(t) \/ Connect(t) \/ LoginEnqueue(t)
  <2>1. wr' = "off" /\ rd' = "off" /\ (toClient' = <<>> \/ toClient' = toClient)
    BY <1>3, <1>4 DEF LoginClear, Connect, LoginEnqueue, Starting, threads, net
  <2> QED
    BY <2>1 DEF Answer, Has
<1>5. CASE LoginSpawn(t)
  <2>1. pc[t] = "login.spawn" /\ UNCHANGED <<queue, toClient, rd>>
    BY <1>5 DEF LoginSpawn, net
  <2>2. LoginFirst /\ Tail(queue) = <<>> /\ rd = "off"
    BY <1>3, <2>1 DEF Talk, Starting
  <2>3. ~Statuses(queue)
    BY <2>2, TailHas DEF LoginFirst, TypeOK, Has, Statuses
  <2> QED
    BY <2>1, <2>2, <2>3 DEF Answer, Has, Statuses
<1>6. CASE LogoutEnqueue(t) \/ RequestEnqueue(t)
  <2>1. PICK type \in EntryTypes \ {"GetParkingStatus"} : Enqueue(type, 0)
    BY <1>6, SessionAssumption
    DEF LogoutEnqueue, RequestEnqueue, EntryTypes, RequestTypes
  <2>2. UNCHANGED <<toServer, toClient, server, latestLogin, wr, rd>>
    BY <1>6 DEF LogoutEnqueue, RequestEnqueue, threads, net
  <2> QED
    BY <2>1, <2>2, EnqueueStatuses, QuietAnswer
<1>7. CASE JoinDeleted(t)
  BY <1>7, EndsAnswer DEF JoinDeleted
<1> QED
  BY <1>1, <1>2, <1>4, <1>5, <1>6, <1>7, CallerCases

LEMMA WriterAnswer ==
  ASSUME TypeOK, Lifecycle, Talk, Answer, Writer PROVE Answer'
<1>1. UNCHANGED <<toClient, server>>
  BY DEF Writer, WriterStart, WriterSend, WriterJoin, WriterClearConnected,
         WriterClearDisconnecting, net
<1>2. CASE WriterStart
  <2>1. /\ wr = "start" /\ wr' = "loop" /\ rd' = "recv" /\ UNCHANGED <<queue, toServer>>
        /\ latestLogin' = "InsufficientPriviledge"
    BY <1>2 DEF WriterStart, net
  <2>2. Fresh /\ ~Statuses(queue)
    BY <2>1 DEF Talk, Answer
  <2> QED
    BY <1>1, <2>1, <2>2 DEF Answer, Fresh, Has, Statuses
<1>3. CASE WriterSend
  <2>1. /\ queue # <<>> /\ queue' = Tail(queue) /\ toServer' = Append(toServer, Head(queue))
        /\ UNCHANGED <<rd, latestLogin>> /\ wr' # "start"
    BY <1>3 DEF WriterSend
  <2>2. queue \in Seq(Entries) /\ toServer \in Seq(Entries) /\ Head(queue) \in Entries
    BY <2>1, HeadTailProperties DEF TypeOK, NetOK
  <2>3. /\ Statuses(queue') \/ Statuses(toServer') => Statuses(queue) \/ Statuses(toServer)
    BY <2>1, <2>2, TailHas, AppendHas DEF Statuses
  <2> QED
    BY <1>1, <2>1, <2>3 DEF Answer, Unread, Granted, Has, Statuses
<1>4. CASE WriterJoin \/ WriterClearConnected \/ WriterClearDisconnecting
  <2>1. UNCHANGED <<queue, toServer, rd, latestLogin>> /\ wr' # "start"
    BY <1>4 DEF WriterJoin, WriterClearConnected, WriterClearDisconnecting, net
  <2> QED
    BY <1>1, <2>1 DEF Answer, Unread, Granted, Has, Statuses
<1> QED
  BY <1>2, <1>3, <1>4 DEF Writer

(* A reply other than the answer to the Login is taken.                    *)
LEMMA TakeAnswer ==
  ASSUME TypeOK, Answer, rd # "off", rd' # "off", UNCHANGED <<toServer, server, latestLogin, wr>>,
         toClient # <<>>, toClient' = Tail(toClient), Head(toClient).type # "Login",
         Statuses(queue') => Statuses(queue),
         rd' \in {"poll", "connected", "connecting"} =>
           Head(toClient).type = "GetParkingStatus"
  PROVE  Answer'
<1>1. \A type : Has(toClient', type) => Has(toClient, type)
  BY TailHas DEF TypeOK, NetOK
<1>2. ~Has(toClient, "Login")
  BY TailHas DEF TypeOK, NetOK, Answer
<1>3. toClient' \in Seq(Packets)
  BY HeadTailProperties DEF TypeOK, NetOK
<1>4. toClient' # <<>> => ~Has(Tail(toClient'), "Login")
  BY <1>1, <1>2, <1>3, TailHas
<1>5. Granted => latestLogin = "Success"
  BY DEF Granted
<1>6. rd' \in {"poll", "connected", "connecting"} => latestLogin = "Success"
  <2>1. Head(toClient).type = "GetParkingStatus" => Statuses(toClient)
    BY TailHas DEF TypeOK, NetOK, Statuses
  <2> QED
    BY <1>5, <2>1 DEF Answer
<1>7. Statuses(toClient') => Statuses(toClient)
  BY <1>1 DEF Statuses
<1> QED
  BY <1>1, <1>4, <1>5, <1>6, <1>7 DEF Answer, Granted, Unread, Statuses, Has

LEMMA ReadingAnswer ==
  ASSUME TypeOK, Lifecycle, Talk, Answer, Reading PROVE Answer'
<1>1. rd \notin {"off", "exited"} /\ UNCHANGED <<toServer, server, wr>> /\ wr # "start"
  BY ReadingTakes DEF Lifecycle
<1>2. CASE ReceiveLogin
  <2>1. /\ toClient # <<>> /\ Head(toClient).type = "Login" /\ toClient' = Tail(toClient)
        /\ latestLogin' = Head(toClient).reply /\ UNCHANGED queue
        /\ IF latestLogin' = "Success" THEN rd' = "poll" ELSE rd' = "recv"
    BY <1>2 DEF ReceiveLogin, Receive
  <2>2. toClient \in Seq(Packets) /\ toClient' \in Seq(Packets)
    BY <2>1, HeadTailProperties DEF TypeOK, NetOK
  <2>3. ~Has(toClient', "Login") /\ server # "new" /\ latestLogin # "Success"
    BY <1>1, <2>1, <2>2, TailHas DEF Answer, Talk, Unread
  <2>4. toClient' # <<>> => ~Has(Tail(toClient'), "Login")
    BY <2>2, <2>3, TailHas
  <2>5. latestLogin' # "Success" => ~Granted
    BY <2>1, <2>3 DEF Granted
  <2>6. Statuses(toClient') => Statuses(toClient)
    BY <2>1, <2>2, TailHas DEF Statuses
  <2> QED
    BY <1>1, <2>1, <2>3, <2>4, <2>5, <2>6 DEF Answer, Granted, Unread, Statuses
<1>3. CASE Poll
  <2>1. latestLogin = "Success" /\ UNCHANGED <<latestLogin, toClient>> /\ rd' # "off"
    BY <1>3 DEF Poll, Answer, net
  <2> QED
    BY <1>1, <2>1 DEF Answer, Granted, Unread, Has
<1>4. CASE PublishConnected \/ PublishLoggedIn \/ HandlersReturn
  <2>1. /\ UNCHANGED <<queue, toClient, latestLogin>> /\ rd' # "off"
        /\ rd' \in {"poll", "connected", "connecting"} => rd = "connected"
    BY <1>4 DEF PublishConnected, PublishLoggedIn, HandlersReturn, Raise, net
  <2> QED
    BY <1>1, <2>1 DEF Answer, Granted, Unread, Has, Statuses
<1>5. CASE ReceiveStatus
  <2>1. /\ toClient # <<>> /\ Head(toClient).type = "GetParkingStatus"
        /\ toClient' = Tail(toClient) /\ UNCHANGED <<queue, latestLogin>> /\ rd' # "off"
    BY <1>1, <1>5 DEF ReceiveStatus, Receive, Raise
  <2> QED
    BY <1>1, <2>1, TakeAnswer
<1>6. CASE ReceiveLogout \/ ReceiveOther
  <2>1. /\ toClient # <<>> /\ Head(toClient).type # "Login"
        /\ toClient' = Tail(toClient) /\ UNCHANGED <<queue, latestLogin>>
        /\ rd' \in {"handler", "last.handler"}
    BY <1>6 DEF ReceiveLogout, ReceiveOther, Receive, Raise, RequestTypes
  <2> QED
    BY <1>1, <2>1, TakeAnswer
<1>7. CASE ReceiveExpired
  <2>1. /\ toClient # <<>> /\ Head(toClient).type # "Login"
        /\ toClient' = Tail(toClient) /\ UNCHANGED latestLogin
        /\ rd' \in {"handler", "recv"}
        /\ UNCHANGED queue \/ Enqueue("GetNextExpired", 0)
    BY <1>7 DEF ReceiveExpired, Receive, Raise
  <2>2. Statuses(queue') => Statuses(queue)
    BY <2>1, EnqueueStatuses DEF EntryTypes, RequestTypes
  <2> QED
    BY <1>1, <2>1, <2>2, TakeAnswer
<1> QED
  BY <1>2, <1>3, <1>4, <1>5, <1>6, <1>7 DEF Reading

LEMMA EmptyHas == ASSUME NEW type PROVE ~Has(<<>>, type)
BY DEF Has

(* A reply or a status goes to the end of what the client has to read.     *)
LEMMA SayAnswer ==
  ASSUME NEW x \in Packets, toClient \in Seq(Packets), toClient' = Append(toClient, x)
  PROVE  /\ toClient # <<>> => /\ Head(toClient') = Head(toClient)
                               /\ Tail(toClient') = Append(Tail(toClient), x)
                               /\ Tail(toClient) \in Seq(Packets)
         /\ toClient = <<>> => Head(toClient') = x /\ Tail(toClient') = <<>>
         /\ toClient' # <<>>
         /\ \A type : Has(toClient', type) <=> Has(toClient, type) \/ x.type = type
<1>1. toClient # <<>> => /\ Head(toClient') = Head(toClient)
                         /\ Tail(toClient') = Append(Tail(toClient), x)
                         /\ Tail(toClient) \in Seq(Packets)
  BY HeadAppend
<1>2. ASSUME toClient = <<>> PROVE Head(toClient') = x /\ Tail(toClient') = <<>>
  <2>1. toClient' = <<x>>
    BY <1>2
  <2> QED
    BY <2>1
<1>3. toClient' # <<>>
  BY AppendProperties
<1>4. \A type : Has(toClient', type) <=> Has(toClient, type) \/ x.type = type
  BY AppendHas
<1> QED
  BY <1>1, <1>2, <1>3, <1>4

LEMMA ServerAnswer ==
  ASSUME TypeOK, Talk, Answer, ServerAnswers \/ ServerPushes PROVE Answer'
<1>1. UNCHANGED <<queue, wr, rd, latestLogin>> /\ toClient \in Seq(Packets)
  BY DEF ServerAnswers, ServerPushes, threads, TypeOK, NetOK
<1>2. CASE ServerAnswers
  <2>1. toServer # <<>> /\ toServer' = Tail(toServer) /\ Head(toServer) \in Entries
    BY <1>2, HeadTailProperties DEF ServerAnswers, TypeOK, NetOK
  <2>2. PICK reply \in Answers(Head(toServer)) :
          /\ toClient' = Append(toClient, [type |-> Head(toServer).type, reply |-> reply,
                                           spot |-> Head(toServer).spot])
          /\ Head(toServer).type = "Login" =>
               server' = IF reply = "Success" THEN "in" ELSE "denied"
          /\ Head(toServer).type = "Logout" => server' = "out"
          /\ Head(toServer).type \notin {"Login", "Logout"} => server' = server
    BY <1>2 DEF ServerAnswers
  <2> DEFINE x == [type |-> Head(toServer).type, reply |-> reply,
                   spot |-> Head(toServer).spot]
  <2>3. reply \in Replies
    BY SessionAssumption DEF Answers, Replies
  <2>4. x \in Packets /\ x.type = Head(toServer).type /\ x.reply = reply
    BY <2>1, <2>3 DEF Entries, Packets
  <2>5. toClient' = Append(toClient, x)
    BY <2>2
  <2> HIDE DEF x
  <2>6. x.type = "Login" <=> server = "new"
    <3>1. 1 \in DOMAIN toServer /\ Head(toServer) = toServer[1]
      BY <2>1, EmptySeq DEF TypeOK, NetOK
    <3> QED
      BY <2>4, <3>1 DEF Talk, Conversation
  <2>7. server = "new" => toClient = <<>>
    BY DEF Talk
  <2>8. toClient' # <<>> => ~Has(Tail(toClient'), "Login")
    <3>1. CASE toClient = <<>>
      <4>1. Tail(toClient') = <<>>
        BY <1>1, <2>4, <2>5, <3>1, SayAnswer
      <4> QED
        BY <4>1, EmptyHas
    <3>2. CASE toClient # <<>>
      <4>1. Tail(toClient') = Append(Tail(toClient), x) /\ Tail(toClient) \in Seq(Packets)
        BY <1>1, <2>4, <2>5, <3>2, SayAnswer
      <4>2. x.type # "Login" /\ ~Has(Tail(toClient), "Login")
        BY <2>6, <2>7, <3>2 DEF Answer
      <4>3. Has(Append(Tail(toClient), x), "Login")
              <=> Has(Tail(toClient), "Login") \/ x.type = "Login"
        BY <2>4, <4>1, AppendHas
      <4> QED
        BY <4>1, <4>2, <4>3
    <3> QED
      BY <3>1, <3>2
  <2>9. Unread' => Unread
    BY <1>1, <2>2, <2>4, <2>5, <2>6, SayAnswer DEF Unread
  <2>10. Granted => Granted'
    BY <1>1, <2>4, <2>5, SayAnswer DEF Granted
  <2>11. server' = "in" => Granted' \/ server = "in"
    BY <1>1, <2>2, <2>4, <2>5, <2>6, <2>7, SayAnswer DEF Granted
  <2>12. /\ Statuses(toServer') => Statuses(toServer)
         /\ Statuses(toClient') => Statuses(toClient) \/ Statuses(toServer)
    <3>1. toServer \in Seq(Entries)
      BY DEF TypeOK, NetOK
    <3>2. Statuses(toServer) <=> x.type = "GetParkingStatus" \/ Statuses(toServer')
      BY <2>1, <2>4, <3>1, TailHas DEF Statuses
    <3> QED
      BY <1>1, <2>4, <2>5, <3>2, SayAnswer DEF Statuses
  <2> QED
    BY <1>1, <2>8, <2>9, <2>10, <2>11, <2>12 DEF Answer
<1>3. CASE ServerPushes
  <2>1. PICK id \in 1 .. spots :
          toClient' = Append(toClient, [type |-> "GetParkingStatus",
                                        reply |-> "Success", spot |-> id])
    BY <1>3 DEF ServerPushes
  <2> DEFINE x == [type |-> "GetParkingStatus", reply |-> "Success", spot |-> id]
  <2>2. x \in Packets /\ x.type = "GetParkingStatus" /\ toClient' = Append(toClient, x)
    BY <2>1 DEF Packets, Replies, TypeOK, StoreOK
  <2> HIDE DEF x
  <2>3. server = "in" /\ UNCHANGED <<server, toServer>>
    BY <1>3 DEF ServerPushes
  <2>4. toClient' # <<>> => ~Has(Tail(toClient'), "Login")
    <3>1. CASE toClient = <<>>
      <4>1. Tail(toClient') = <<>>
        BY <1>1, <2>2, <3>1, SayAnswer
      <4> QED
        BY <4>1, EmptyHas
    <3>2. CASE toClient # <<>>
      <4>1. Tail(toClient') = Append(Tail(toClient), x) /\ Tail(toClient) \in Seq(Packets)
        BY <1>1, <2>2, <3>2, SayAnswer
      <4>2. x.type # "Login" /\ ~Has(Tail(toClient), "Login")
        BY <2>2, <3>2 DEF Answer
      <4>3. Has(Append(Tail(toClient), x), "Login")
              <=> Has(Tail(toClient), "Login") \/ x.type = "Login"
        BY <2>2, <4>1, AppendHas
      <4> QED
        BY <4>1, <4>2, <4>3
    <3> QED
      BY <3>1, <3>2
  <2>5. (Unread' => Unread) /\ (Granted => Granted')
    BY <1>1, <2>2, <2>3, SayAnswer DEF Unread, Granted
  <2> QED
    BY <1>1, <2>3, <2>4, <2>5 DEF Answer, Statuses
<1> QED
  BY <1>2, <1>3

LEMMA AnswerInvariant == ASSUME SingleClient PROVE Spec => []Answer
<1>1. Init => Answer
  BY DEF Init, Answer
<1>2. TypeOK /\ Lifecycle /\ Talk /\ Answer /\ [Next]_vars => Answer'
  <2>1. ASSUME TypeOK, Lifecycle, Talk, Answer, Next PROVE Answer'
    <3>1. CASE ThreadThrows
      BY <3>1, EndsAnswer DEF ThreadThrows
    <3> QED
      BY <2>1, <3>1, CallerAnswer, WriterAnswer, ReadingAnswer, ServerAnswer DEF Next
  <2>2. ASSUME Answer, UNCHANGED vars PROVE Answer'
    BY <2>2 DEF Answer, Unread, Granted, Has, Statuses, vars, threads, net
  <2> QED
    BY <2>1, <2>2
<1> QED
  BY <1>1, <1>2, TypeCorrect, LifecycleInvariant, TalkInvariant, PTL DEF Spec

-----------------------------------------------------------------------------
(* A Logout that no call of the client has asked for.                      *)

Doubted == {"login.claim", "login.join"} \cup Starting

\* A session about to begin, or begun and not yet granted.
Doubtful ==
  \/ \E a \in Apps : pc[a] \in Doubted
  \/ wr = "start"
  \/ rd \notin {"off", "exited"} /\ latestLogin # "Success"

(* m_IsConnected, where it is stale, has m_IsDisconnecting beside it: a    *)
(* Login has passed its guard, which tests them together.                  *)
Doubt == Doubtful /\ isConnected => isDisconnecting

LEMMA CallerDoubt ==
  ASSUME TypeOK, Lifecycle, Doubt, NEW t \in Callers, Call(t) \/ Continue(t)
  PROVE  Doubt'
<1>1. CASE JoinDeleted(t)
  BY <1>1 DEF JoinDeleted, ProcessEnds, Doubt, Doubtful, Doubted, Starting, Callers
<1>2. CASE LoginGuard(t)
  <2>1. UNCHANGED <<flags, threads>>
    BY <1>2 DEF LoginGuard, Branch
  <2>2. PICK label \in Labels :
          Goto(t, label) /\ (label \in Doubted => ~isConnected \/ isDisconnecting)
    BY <1>2 DEF LoginGuard, Branch, Labels, Doubted, Starting
  <2>3. \A a \in Apps : pc'[a] = pc[a] \/ pc'[a] = label
    BY <2>2 DEF Goto, TypeOK, CallersOK, Callers
  <2> QED
    BY <2>1, <2>2, <2>3 DEF Doubt, Doubtful, flags, threads
<1>3. CASE ~(LoginGuard(t) \/ JoinDeleted(t))
  <2>1. PICK label \in Labels : Goto(t, label) /\ (label \in Doubted => pc[t] \in Doubted)
    BY <1>3, CallerCases
    DEF Quiet, LogoutGuard, Branch, LoginClaim, LogoutClaim, Join, LoginClear, Connect,
        ConnectThrows, LoginEnqueue, LoginSpawn, LoginAssign, LogoutEnqueue,
        RequestEnqueue, Labels, Starting, Opening, Doubted
  <2>2. /\ UNCHANGED <<isConnected, latestLogin>>
        /\ isDisconnecting => isDisconnecting'
        /\ rd' = rd \/ rd' = "off"
        /\ wr' = "start" => wr = "start" \/ (pc[t] = "login.spawn" /\ t \in Apps)
    <3>1. pc[t] = "login.spawn" => t \in Apps
      BY DEF Callers, Lifecycle, HandlerLabels
    <3> QED
      BY <1>3, <3>1, CallerCases
      DEF Quiet, LogoutGuard, Branch, LoginClaim, LogoutClaim, Join, LoginClear, Connect,
          ConnectThrows, LoginEnqueue, LoginSpawn, LoginAssign, LogoutEnqueue,
          RequestEnqueue, flags, threads
  <2>3. \A a \in Apps : pc'[a] \in Doubted => pc[a] \in Doubted
    BY <2>1 DEF Goto, TypeOK, CallersOK, Callers
  <2> QED
    BY <2>1, <2>2, <2>3 DEF Doubt, Doubtful, Doubted, Starting
<1> QED
  BY <1>1, <1>2, <1>3

LEMMA ReadingDoubt ==
  ASSUME TypeOK, Lifecycle, Attempt, Answer, Doubt, Reading PROVE Doubt'
<1>1. /\ rd \notin {"off", "exited"} /\ UNCHANGED <<wr, isDisconnecting>>
      /\ wr \notin {"off", "start"}
  <2>1. UNCHANGED isDisconnecting
    BY DEF Reading, ReceiveLogin, Poll, ReceiveStatus, PublishConnected, PublishLoggedIn,
           ReceiveLogout, ReceiveExpired, ReceiveOther, HandlersReturn, flags
  <2> QED
    BY <2>1, ReadingTakes DEF Lifecycle
<1>2. \A a \in Apps : pc'[a] = pc[a]
  BY SessionAssumption
  DEF Reading, ReceiveLogin, Poll, ReceiveStatus, PublishConnected, PublishLoggedIn,
      ReceiveLogout, ReceiveExpired, ReceiveOther, HandlersReturn, Goto, TypeOK,
      CallersOK, Callers
<1>3. CASE PublishConnected
  <2>1. rd = "connected" /\ UNCHANGED latestLogin
    BY <1>3 DEF PublishConnected
  <2>2. latestLogin = "Success" /\ Pending
    BY <2>1 DEF Answer, Attempt, Pending
  <2>3. \A a \in Apps : pc[a] \notin Doubted
    BY <1>1, <2>2 DEF Attempt, Opening, Lifecycle, Doubted
  <2> QED
    BY <1>1, <1>2, <2>1, <2>2, <2>3 DEF Doubt, Doubtful
<1>4. CASE ReceiveLogin
  <2>1. /\ toClient # <<>> /\ Head(toClient).type = "Login" /\ UNCHANGED flags
    BY <1>4 DEF ReceiveLogin, Receive
  <2>2. latestLogin # "Success"
    BY <1>1, <2>1, TailHas DEF Answer, Unread, TypeOK, NetOK
  <2> QED
    BY <1>1, <2>1, <2>2 DEF Doubt, Doubtful, flags
<1>5. CASE ~(PublishConnected \/ ReceiveLogin)
  <2>1. UNCHANGED <<isConnected, latestLogin>>
    BY <1>5 DEF Reading, Poll, ReceiveStatus, PublishLoggedIn, ReceiveLogout,
                ReceiveExpired, ReceiveOther, HandlersReturn, flags
  <2> QED
    BY <1>1, <1>2, <2>1 DEF Doubt, Doubtful
<1> QED
  BY <1>3, <1>4, <1>5

LEMMA DoubtInvariant == ASSUME SingleClient PROVE Spec => []Doubt
<1>1. Init => Doubt
  BY DEF Init, Doubt, Doubtful, Doubted, Starting, Callers
<1>2. TypeOK /\ Lifecycle /\ Attempt /\ Answer /\ Doubt /\ [Next]_vars => Doubt'
  <2>1. ASSUME TypeOK, Lifecycle, Attempt, Answer, Doubt, Next PROVE Doubt'
    <3>1. CASE ThreadThrows
      BY <3>1 DEF ThreadThrows, ProcessEnds, Doubt, Doubtful, Doubted, Starting, Callers
    <3>2. CASE Writer
      BY <2>1, <3>2
      DEF Writer, WriterStart, WriterSend, WriterJoin, WriterClearConnected,
          WriterClearDisconnecting, flags, Doubt, Doubtful, Attempt, Lifecycle
    <3>3. CASE ServerAnswers \/ ServerPushes
      BY <2>1, <3>3 DEF ServerAnswers, ServerPushes, flags, threads, Doubt, Doubtful
    <3> QED
      BY <2>1, <3>1, <3>2, <3>3, CallerDoubt, ReadingDoubt DEF Next
  <2>2. ASSUME Doubt, UNCHANGED vars PROVE Doubt'
    BY <2>2 DEF Doubt, Doubtful, vars, flags, threads
  <2> QED
    BY <2>1, <2>2
<1> QED
  BY <1>1, <1>2, TypeCorrect, LifecycleInvariant, AttemptInvariant, AnswerInvariant, PTL
  DEF Spec

(* Only the reading thread calls Logout from handleLoginReply.             *)
OwnCalls == \A a \in Apps : by[a] # "handler"

LEMMA OwnCallsInvariant == Spec => []OwnCalls
<1>1. Init => OwnCalls
  BY DEF Init, OwnCalls, Callers
<1>2. TypeOK /\ OwnCalls /\ [Next]_vars => OwnCalls'
  <2>1. ASSUME TypeOK, OwnCalls, Next PROVE OwnCalls'
    <3>1. ASSUME NEW t \in Callers, Call(t) \/ Continue(t) PROVE OwnCalls'
      <4>1. UNCHANGED by \/ \E who \in {"client", "cleanup"} : by' = [by EXCEPT ![t] = who]
        BY <3>1, CallerCases
        DEF Quiet, LoginGuard, LogoutGuard, Branch, LoginClaim, LogoutClaim, Join,
            LoginClear, Connect, ConnectThrows, LoginEnqueue, LoginSpawn, LoginAssign,
            LogoutEnqueue, RequestEnqueue, JoinDeleted, ProcessEnds
      <4> QED
        BY <2>1, <4>1 DEF OwnCalls, TypeOK, CallersOK, Callers
    <3>2. CASE Reading
      <4>1. UNCHANGED by \/ by' = [by EXCEPT ![Reader] = "handler"]
        BY <3>2
        DEF Reading, ReceiveLogin, Poll, ReceiveStatus, PublishConnected, PublishLoggedIn,
            ReceiveLogout, ReceiveExpired, ReceiveOther, HandlersReturn
      <4> QED
        BY <2>1, <4>1, SessionAssumption DEF OwnCalls, TypeOK, CallersOK, Callers
    <3>3. CASE Writer \/ ThreadThrows \/ ServerAnswers \/ ServerPushes
      <4>1. UNCHANGED by
        BY <3>3
        DEF Writer, WriterStart, WriterSend, WriterJoin, WriterClearConnected,
            WriterClearDisconnecting, ThreadThrows, ProcessEnds, ServerAnswers, ServerPushes
      <4> QED
        BY <2>1, <4>1 DEF OwnCalls
    <3> QED
      BY <2>1, <3>1, <3>2, <3>3 DEF Next
  <2>2. ASSUME OwnCalls, UNCHANGED vars PROVE OwnCalls'
    BY <2>2 DEF OwnCalls, vars
  <2> QED
    BY <2>1, <2>2
<1> QED
  BY <1>1, <1>2, TypeCorrect, PTL DEF Spec

(* Where the Logout stands that handleLoginReply makes after a refusal: in *)
(* a session that is over before it began, whose m_IsConnected is clear    *)
(* from the moment that the guard has passed.                              *)
RefusedLogin ==
  by[Reader] = "handler" /\ pc[Reader] # "ended" =>
    /\ pc[Reader] \in LogoutLabels
    /\ rd = "recv" /\ latestLogin # "Success" /\ ~Unread
    /\ pc[Reader] \in {"logout.claim", "logout.enqueue"} => ~isConnected

LEMMA CallerRefused ==
  ASSUME TypeOK, Lifecycle, Doubt, RefusedLogin,
         NEW t \in Callers, Call(t) \/ Continue(t)
  PROVE  RefusedLogin'
<1>1. CASE JoinDeleted(t)
  BY <1>1 DEF JoinDeleted, ProcessEnds, RefusedLogin, Callers
<1>2. CASE ~JoinDeleted(t) /\ t # Reader
  <2>1. UNCHANGED <<pc[Reader], by[Reader]>>
    <3>1. \E label \in Labels : Goto(t, label)
      BY <1>2, CallerCases
      DEF Quiet, LoginGuard, LogoutGuard, Branch, LoginClaim, LogoutClaim, Join,
          LoginClear, Connect, ConnectThrows, LoginEnqueue, LoginSpawn, LoginAssign,
          LogoutEnqueue, RequestEnqueue, Labels
    <3>2. UNCHANGED by \/ \E who : by' = [by EXCEPT ![t] = who]
      BY <1>2, CallerCases
      DEF Quiet, LoginGuard, LogoutGuard, Branch, LoginClaim, LogoutClaim, Join,
          LoginClear, Connect, ConnectThrows, LoginEnqueue, LoginSpawn, LoginAssign,
          LogoutEnqueue, RequestEnqueue
    <3> QED
      BY <1>2, <3>1, <3>2 DEF Goto, TypeOK, CallersOK, Callers
  <2>2. rd = "recv" => UNCHANGED <<rd, latestLogin, isConnected, toClient, server>>
    <3>1. pc[t] \in Starting => rd # "recv"
      BY <1>2 DEF Lifecycle, Callers
    <3>2. Connect(t) => pc[t] \in Starting
      BY DEF Connect, Starting
    <3>3. wr = "done" => rd # "recv"
      BY DEF Lifecycle
    <3> QED
      BY <1>2, <3>1, <3>2, <3>3, CallerCases
      DEF Quiet, LoginGuard, LogoutGuard, Branch, LoginClaim, LogoutClaim, Join,
          LoginClear, ConnectThrows, LoginEnqueue, LoginSpawn, LoginAssign,
          LogoutEnqueue, RequestEnqueue, flags, threads, net
  <2> QED
    BY <2>1, <2>2 DEF RefusedLogin, Unread, Has
<1>3. CASE ~JoinDeleted(t) /\ t = Reader
  <2>1. pc[Reader] \in HandlerLabels /\ pc[Reader] \notin Starting \cup Opening
    BY DEF Lifecycle, HandlerLabels, Starting, Opening
  <2>2. CASE Quiet(t) \/ RequestEnqueue(t) \/ LogoutEnqueue(t)
    <3>1. \/ UNCHANGED by /\ pc[t] \notin LogoutLabels \cup {"ended"}
          \/ \E who \in {"client", "cleanup"} : by' = [by EXCEPT ![t] = who]
      BY <2>2 DEF Quiet, RequestEnqueue, LogoutEnqueue, LogoutLabels
    <3> QED
      BY <1>3, <3>1 DEF RefusedLogin, TypeOK, CallersOK, Callers
  <2>3. CASE LogoutGuard(t) \/ LogoutClaim(t)
    <3>1. /\ pc[t] \in LogoutLabels /\ pc[t] # "ended"
          /\ UNCHANGED <<by, rd, latestLogin, isConnected, toClient, server>>
      BY <2>3 DEF LogoutGuard, LogoutClaim, Branch, LogoutLabels, flags, threads, net
    <3>2. /\ pc'[t] \in LogoutLabels
          /\ pc'[t] = "logout.claim" => ~isDisconnecting
          /\ pc'[t] = "logout.enqueue" => pc[t] = "logout.claim"
      BY <2>3 DEF LogoutGuard, LogoutClaim, Branch, Goto, LogoutLabels, TypeOK, CallersOK, FlagsOK
    <3> QED
      BY <1>3, <3>1, <3>2 DEF RefusedLogin, Unread, Has, Doubt, Doubtful
  <2>4. CASE ~(Quiet(t) \/ RequestEnqueue(t) \/ LogoutEnqueue(t) \/ LogoutGuard(t) \/ LogoutClaim(t))
    BY <1>3, <2>1, <2>4, CallerCases
    DEF LoginGuard, Branch, LoginClaim, Join, LoginClear, Connect, ConnectThrows,
        LoginEnqueue, LoginSpawn, LoginAssign, HandlerLabels
  <2> QED
    BY <2>2, <2>3, <2>4
<1> QED
  BY <1>1, <1>2, <1>3

LEMMA ReadingRefused ==
  ASSUME TypeOK, Lifecycle, Talk, Answer, RefusedLogin, Reading PROVE RefusedLogin'
<1>1. CASE ReceiveLogin
  <2>1. /\ toClient # <<>> /\ toClient' = Tail(toClient) /\ rd = "recv"
        /\ UNCHANGED server /\ pc[Reader] = "idle"
    BY <1>1 DEF ReceiveLogin, Receive
  <2>2. ~Unread'
    BY <2>1 DEF Unread, Talk, Answer
  <2>3. CASE latestLogin' = "Success"
    <3>1. UNCHANGED <<pc, by>>
      BY <1>1, <2>3 DEF ReceiveLogin
    <3> QED
      BY <2>1, <3>1 DEF RefusedLogin, LogoutLabels
  <2>4. CASE latestLogin' # "Success"
    <3>1. pc' = [pc EXCEPT ![Reader] = "logout.connected"] /\ UNCHANGED rd
      BY <1>1, <2>4 DEF ReceiveLogin, Goto
    <3>2. pc'[Reader] = "logout.connected"
      BY <3>1 DEF TypeOK, CallersOK, Callers
    <3> QED
      BY <2>1, <2>2, <2>4, <3>1, <3>2 DEF RefusedLogin, LogoutLabels
  <2> QED
    BY <2>3, <2>4
<1>2. CASE ~ReceiveLogin
  <2>1. UNCHANGED <<pc, by>>
    BY <1>2 DEF Reading, Poll, ReceiveStatus, PublishConnected, PublishLoggedIn,
                ReceiveLogout, ReceiveExpired, ReceiveOther, HandlersReturn
  <2>2. rd = "recv" => pc[Reader] = "idle"
    BY <1>2 DEF Reading, Poll, ReceiveStatus, PublishConnected, PublishLoggedIn,
                ReceiveLogout, ReceiveExpired, ReceiveOther, HandlersReturn, Receive
  <2> QED
    BY <2>1, <2>2 DEF RefusedLogin, LogoutLabels
<1> QED
  BY <1>1, <1>2

(* What the server says to the client: the answer to the Login comes once, *)
(* and to every request a reply of its type.                               *)
LEMMA ServerSays ==
  ASSUME TypeOK, Talk, ServerAnswers \/ ServerPushes
  PROVE  \E x \in Packets :
           /\ toClient' = Append(toClient, x)
           /\ \/ ServerPushes /\ x.type = "GetParkingStatus" /\ UNCHANGED <<toServer, server>>
              \/ /\ ServerAnswers /\ toServer # <<>> /\ toServer' = Tail(toServer)
                 /\ x.type = Head(toServer).type
           /\ x.type = "Login" => server = "new"
           /\ server' = "new" => server = "new"
<1>1. CASE ServerAnswers
  <2>1. toServer # <<>> /\ toServer' = Tail(toServer) /\ Head(toServer) \in Entries
    BY <1>1, HeadTailProperties DEF ServerAnswers, TypeOK, NetOK
  <2>2. PICK reply \in Answers(Head(toServer)) :
          toClient' = Append(toClient, [type |-> Head(toServer).type, reply |-> reply,
                                        spot |-> Head(toServer).spot])
    BY <1>1 DEF ServerAnswers
  <2> DEFINE x == [type |-> Head(toServer).type, reply |-> reply,
                   spot |-> Head(toServer).spot]
  <2>3. reply \in Replies
    BY SessionAssumption DEF Answers, Replies
  <2>4. x \in Packets /\ x.type = Head(toServer).type
    BY <2>1, <2>3 DEF Entries, Packets
  <2>5. toClient' = Append(toClient, x)
    BY <2>2
  <2> HIDE DEF x
  <2>6. x.type = "Login" => server = "new"
    <3>1. 1 \in DOMAIN toServer /\ Head(toServer) = toServer[1]
      BY <2>1, EmptySeq DEF TypeOK, NetOK
    <3> QED
      BY <2>4, <3>1 DEF Talk, Conversation
  <2>7. server' = "new" => server = "new"
    BY <1>1 DEF ServerAnswers
  <2> QED
    BY <1>1, <2>1, <2>4, <2>5, <2>6, <2>7
<1>2. CASE ServerPushes
  <2>1. PICK id \in 1 .. spots :
          toClient' = Append(toClient, [type |-> "GetParkingStatus",
                                        reply |-> "Success", spot |-> id])
    BY <1>2 DEF ServerPushes
  <2>2. [type |-> "GetParkingStatus", reply |-> "Success", spot |-> id] \in Packets
    BY <2>1 DEF Packets, Replies, TypeOK, StoreOK
  <2>3. UNCHANGED <<toServer, server>>
    BY <1>2 DEF ServerPushes
  <2> QED
    BY <1>2, <2>1, <2>2, <2>3
<1> QED
  BY <1>1, <1>2

LEMMA ServerUnread ==
  ASSUME TypeOK, Talk, ServerAnswers \/ ServerPushes PROVE Unread' => Unread
<1>1. PICK x \in Packets :
        /\ toClient' = Append(toClient, x)
        /\ x.type = "Login" => server = "new"
        /\ server' = "new" => server = "new"
  BY ServerSays
<1>2. Has(toClient', "Login") => Has(toClient, "Login") \/ x.type = "Login"
  BY <1>1, AppendHas DEF TypeOK, NetOK
<1> QED
  BY <1>1, <1>2 DEF Unread

LEMMA RefusedInvariant == ASSUME SingleClient PROVE Spec => []RefusedLogin
<1>1. Init => RefusedLogin
  BY DEF Init, RefusedLogin, Callers
<1>2. /\ TypeOK /\ Lifecycle /\ Talk /\ Answer /\ Doubt /\ RefusedLogin /\ [Next]_vars
      => RefusedLogin'
  <2>1. ASSUME TypeOK, Lifecycle, Talk, Answer, Doubt, RefusedLogin, Next
        PROVE  RefusedLogin'
    <3>1. CASE ThreadThrows
      BY <3>1 DEF ThreadThrows, ProcessEnds, RefusedLogin, Callers
    <3>2. CASE Writer
      BY <2>1, <3>2
      DEF Writer, WriterStart, WriterSend, WriterJoin, WriterClearConnected,
          WriterClearDisconnecting, flags, net, Lifecycle, RefusedLogin, Unread, Has
    <3>3. CASE ServerAnswers \/ ServerPushes
      BY <2>1, <3>3, ServerUnread
      DEF ServerAnswers, ServerPushes, flags, threads, RefusedLogin
    <3> QED
      BY <2>1, <3>1, <3>2, <3>3, CallerRefused, ReadingRefused DEF Next
  <2>2. ASSUME RefusedLogin, UNCHANGED vars PROVE RefusedLogin'
    BY <2>2 DEF RefusedLogin, Unread, Has, vars, flags, threads, net
  <2> QED
    BY <2>1, <2>2
<1> QED
  BY <1>1, <1>2, TypeCorrect, LifecycleInvariant, TalkInvariant, AnswerInvariant,
     DoubtInvariant, PTL
  DEF Spec

-----------------------------------------------------------------------------
(* No event without a call.                                                *)

(* The LoginReply that is due.                                             *)
LoginOwed ==
  /\ owed["Login"] >= 0
  /\ (\E a \in Apps : pc[a] = "login.spawn") \/ Pending => owed["Login"] >= 1

LEMMA CallerLoginOwed ==
  ASSUME TypeOK, SingleClient, Lifecycle, LoginOwed, NEW t \in Callers, Call(t) \/ Continue(t)
  PROVE  LoginOwed'
<1>1. CASE LoginEnqueue(t)
  <2>1. owed'["Login"] = 1
    BY <1>1 DEF LoginEnqueue, EventNames
  <2> QED
    BY <2>1 DEF LoginOwed
<1>2. CASE LogoutEnqueue(t) \/ RequestEnqueue(t)
  <2>1. PICK e \in EventNames \ {"Login"} :
          owed' = owed \/ \E n : owed' = [owed EXCEPT ![e] = n]
    BY <1>2, SessionAssumption DEF LogoutEnqueue, RequestEnqueue, EventNames, RequestTypes
  <2>2. owed'["Login"] = owed["Login"]
    BY <2>1 DEF TypeOK, ClientOK, EventNames
  <2>3. Goto(t, "idle") \/ Goto(t, "cleanup.join")
    BY <1>2 DEF LogoutEnqueue, RequestEnqueue
  <2>4. \A a \in Apps : pc'[a] = "login.spawn" => pc[a] = "login.spawn"
    BY <2>3 DEF Goto, TypeOK, CallersOK, Callers
  <2>5. Pending' <=> Pending
    BY <1>2 DEF LogoutEnqueue, RequestEnqueue, flags, threads, Pending
  <2> QED
    BY <2>2, <2>4, <2>5 DEF LoginOwed
<1>3. CASE LoginSpawn(t)
  <2>1. pc[t] = "login.spawn" /\ UNCHANGED owed
    BY <1>3 DEF LoginSpawn, client
  <2>2. t \in Apps
    BY <2>1 DEF Lifecycle, HandlerLabels, Callers
  <2> QED
    BY <2>1, <2>2 DEF LoginOwed
<1>4. CASE JoinDeleted(t)
  BY <1>4 DEF JoinDeleted, ProcessEnds, client, LoginOwed, Pending, Callers
<1>5. CASE ~(LoginEnqueue(t) \/ LogoutEnqueue(t) \/ RequestEnqueue(t) \/ LoginSpawn(t)
             \/ JoinDeleted(t))
  <2>1. PICK label \in Labels \ {"login.spawn"} : Goto(t, label)
    BY <1>5, CallerCases
    DEF Quiet, LoginGuard, LogoutGuard, Branch, LoginClaim, LogoutClaim, Join, LoginClear,
        Connect, ConnectThrows, LoginAssign, Labels, Starting
  <2>2. \A a \in Apps : pc'[a] = "login.spawn" => pc[a] = "login.spawn"
    BY <2>1 DEF Goto, TypeOK, CallersOK, Callers
  <2>3. /\ UNCHANGED <<owed, isConnected>>
        /\ (wr' = wr /\ rd' = rd) \/ (wr' = "off" /\ rd' = "off")
    BY <1>5, CallerCases
    DEF Quiet, LoginGuard, LogoutGuard, Branch, LoginClaim, LogoutClaim, Join, LoginClear,
        Connect, ConnectThrows, LoginAssign, flags, threads, client
  <2>4. Pending' => Pending
    BY <2>3 DEF Pending
  <2> QED
    BY <2>2, <2>3, <2>4 DEF LoginOwed
<1> QED
  BY <1>1, <1>2, <1>3, <1>4, <1>5

LEMMA ReadingLoginOwed ==
  ASSUME TypeOK, Lifecycle, Attempt, LoginOwed, Reading PROVE LoginOwed'
<1>1. wr \notin {"off", "start"} /\ UNCHANGED wr
  BY ReadingTakes DEF Lifecycle
<1>2. \A a \in Apps : pc[a] \notin Starting /\ pc'[a] = pc[a]
  BY <1>1, SessionAssumption
  DEF Reading, ReceiveLogin, Poll, ReceiveStatus, PublishConnected, PublishLoggedIn,
      ReceiveLogout, ReceiveExpired, ReceiveOther, HandlersReturn, Goto, TypeOK,
      CallersOK, Callers, Lifecycle
<1>3. \A a \in Apps : pc'[a] # "login.spawn"
  BY <1>2 DEF Starting
<1>4. CASE PublishLoggedIn \/ (ReceiveLogout /\ ~isConnected)
  <2>1. Pending
    BY <1>4 DEF PublishLoggedIn, ReceiveLogout, Receive, Pending
  <2>2. ~Pending'
    BY <1>1, <1>4 DEF PublishLoggedIn, ReceiveLogout, Receive, Raise, Attempt, Pending
  <2>3. owed' = [owed EXCEPT !["Login"] = @ - 1]
    BY <1>4 DEF PublishLoggedIn, ReceiveLogout, Raise, EventNames
  <2>4. owed'["Login"] = owed["Login"] - 1 /\ owed["Login"] \in Int
    BY <2>3 DEF TypeOK, ClientOK, EventNames
  <2> QED
    BY <1>3, <2>1, <2>2, <2>4 DEF LoginOwed
<1>5. CASE ~(PublishLoggedIn \/ (ReceiveLogout /\ ~isConnected))
  <2>1. \/ UNCHANGED owed
        \/ \E name \in RequestTypes \cup {"Logout", "ParkingStatusUpdate"} :
             Raise(name, TRUE, rd')
    BY <1>5
    DEF Reading, ReceiveLogin, Poll, ReceiveStatus, PublishConnected, ReceiveLogout,
        ReceiveExpired, ReceiveOther, HandlersReturn, Receive, Raise, client, RequestTypes
  <2>2. owed'["Login"] = owed["Login"]
    BY <2>1 DEF Raise, TypeOK, ClientOK, EventNames, RequestTypes
  <2>3. Pending' => Pending
    <3>1. CASE PublishConnected
      BY <3>1 DEF PublishConnected, Attempt, Pending
    <3>2. CASE ~PublishConnected
      <4>1. UNCHANGED isConnected
        BY <1>5, <3>2
        DEF Reading, ReceiveLogin, Poll, ReceiveStatus, ReceiveLogout, ReceiveExpired,
            ReceiveOther, HandlersReturn, flags
      <4>2. /\ rd' # "connecting"
            /\ rd \in {"recv", "poll", "handler"} \/ rd' = "exited"
        BY <1>5, <3>2
        DEF Reading, ReceiveLogin, Poll, ReceiveStatus, ReceiveLogout, ReceiveExpired,
            ReceiveOther, HandlersReturn, Receive, Raise
      <4> QED
        BY <1>1, <4>1, <4>2 DEF Pending
    <3> QED
      BY <3>1, <3>2
  <2> QED
    BY <1>3, <2>2, <2>3 DEF LoginOwed
<1> QED
  BY <1>4, <1>5

LEMMA LoginOwedInvariant == ASSUME SingleClient PROVE Spec => []LoginOwed
<1>1. Init => LoginOwed
  BY DEF Init, LoginOwed, Pending, EventNames, Callers
<1>2. TypeOK /\ Lifecycle /\ Attempt /\ LoginOwed /\ [Next]_vars => LoginOwed'
  <2>1. ASSUME TypeOK, Lifecycle, Attempt, LoginOwed, Next PROVE LoginOwed'
    <3>1. CASE ThreadThrows
      BY <2>1, <3>1
      DEF ThreadThrows, ProcessEnds, client, LoginOwed, Pending, Callers
    <3>2. CASE Writer
      BY <2>1, <3>2
      DEF Writer, WriterStart, WriterSend, WriterJoin, WriterClearConnected,
          WriterClearDisconnecting, flags, client, Lifecycle, LoginOwed, Pending
    <3>3. CASE ServerAnswers \/ ServerPushes
      BY <2>1, <3>3 DEF ServerAnswers, ServerPushes, flags, threads, client, LoginOwed, Pending
    <3> QED
      BY <2>1, <3>1, <3>2, <3>3, CallerLoginOwed, ReadingLoginOwed DEF Next
  <2>2. ASSUME LoginOwed, UNCHANGED vars PROVE LoginOwed'
    BY <2>2 DEF LoginOwed, Pending, vars, flags, threads, client
  <2> QED
    BY <2>1, <2>2
<1> QED
  BY <1>1, <1>2, TypeCorrect, LifecycleInvariant, AttemptInvariant, PTL DEF Spec

(* A Logout that is on its way will be answered with a LogoutReply.        *)
LogoutDue ==
  \/ wr = "start"
  \/ /\ rd \in {"recv", "poll", "connected", "connecting", "handler"}
     /\ isConnected \/ latestLogin = "Success" \/ Unread

LogoutUnderWay ==
  Has(queue, "Logout") \/ Has(toServer, "Logout") \/ Has(toClient, "Logout")

(* The LogoutReply that is due.  A Logout of handleLoginReply owes none:   *)
(* its reply is reported as the LoginReply of a refusal.                   *)
LogoutOwed ==
  /\ owed["Logout"] >= 0
  /\ LogoutDue /\ LogoutUnderWay => owed["Logout"] >= 1

LEMMA EnqueueOther ==
  ASSUME TypeOK, NEW type \in EntryTypes, NEW other \in EntryTypes \ {type},
         NEW spot \in Nat, Enqueue(type, spot)
  PROVE  Has(queue', other) <=> Has(queue, other)
<1> DEFINE x == [type |-> type, spot |-> spot, session |-> session]
<1>1. /\ queue \in Seq(Entries) /\ x \in Entries /\ queue' = Append(queue, x)
      /\ x.type # other
  BY DEF TypeOK, ClientOK, Entries, EntryTypes, Enqueue
<1> HIDE DEF x
<1> QED
  BY <1>1, AppendHas

LEMMA CallerLogoutOwed ==
  ASSUME TypeOK, Lifecycle, Talk, OwnCalls, RefusedLogin, LogoutOwed,
         NEW t \in Callers, Call(t) \/ Continue(t)
  PROVE  LogoutOwed'
<1>1. ASSUME pc[t] \in Starting PROVE wr = "off" /\ rd = "off" /\ t \in Apps
  BY <1>1 DEF Lifecycle, HandlerLabels, Starting, Callers
<1>2. CASE LogoutEnqueue(t)
  <2>1. /\ UNCHANGED <<wr, rd, latestLogin, isConnected, toClient, server>>
        /\ pc[t] = "logout.enqueue"
        /\ owed' = [owed EXCEPT !["Logout"] = IF by[t] = "handler" THEN @ ELSE @ + 1]
    BY <1>2 DEF LogoutEnqueue, threads, flags, net
  <2>2. owed["Logout"] \in Int /\ owed'["Logout"] = IF by[t] = "handler" THEN owed["Logout"]
                                                     ELSE owed["Logout"] + 1
    BY <2>1 DEF TypeOK, ClientOK, EventNames
  <2>3. CASE by[t] = "handler" /\ t = Reader
    <3>1. /\ rd = "recv" /\ latestLogin # "Success" /\ ~Unread /\ ~isConnected
          /\ wr # "start"
      BY <2>1, <2>3 DEF RefusedLogin, Lifecycle
    <3>2. ~LogoutDue'
      BY <2>1, <3>1 DEF LogoutDue, Unread, Has
    <3> QED
      BY <2>2, <2>3, <3>2 DEF LogoutOwed
  <2>4. CASE by[t] # "handler"
    BY <2>2, <2>4 DEF LogoutOwed
  <2>5. by[t] = "handler" => t = Reader
    BY DEF OwnCalls, Callers
  <2> QED
    BY <2>3, <2>4, <2>5
<1>3. CASE RequestEnqueue(t)
  <2>1. PICK type \in RequestTypes \cap EventNames :
          Enqueue(type, 0) /\ owed' = [owed EXCEPT ![type] = @ + 1]
    BY <1>3, SessionAssumption DEF RequestEnqueue, EventNames
  <2>2. owed'["Logout"] = owed["Logout"]
    BY <2>1 DEF TypeOK, ClientOK, EventNames, RequestTypes
  <2>3. Has(queue', "Logout") <=> Has(queue, "Logout")
    BY <2>1, EnqueueOther DEF EntryTypes, RequestTypes
  <2> QED
    BY <1>3, <2>2, <2>3
    DEF RequestEnqueue, threads, flags, net, LogoutOwed, LogoutDue, LogoutUnderWay, Unread, Has
<1>4. CASE LoginClear(t) \/ Connect(t) \/ LoginEnqueue(t)
  <2>1. wr' = "off" /\ rd' = "off"
    BY <1>1, <1>4 DEF LoginClear, Connect, LoginEnqueue, Starting, threads
  <2>2. owed'["Logout"] \in {owed["Logout"], 0}
    BY <1>4 DEF LoginClear, Connect, LoginEnqueue, client, EventNames
  <2> QED
    BY <2>1, <2>2 DEF LogoutOwed, LogoutDue
<1>5. CASE LoginSpawn(t)
  <2>1. pc[t] = "login.spawn" /\ UNCHANGED <<owed, queue, toServer, toClient>>
    BY <1>5 DEF LoginSpawn, client, net
  <2>2. Fresh /\ LoginFirst /\ Tail(queue) = <<>>
    BY <1>1, <2>1 DEF Talk, Starting, Connected
  <2>3. ~Has(queue, "Logout")
    BY <2>2, TailHas, EmptyHas DEF LoginFirst, TypeOK
  <2>4. ~LogoutUnderWay'
    BY <2>1, <2>2, <2>3 DEF LogoutUnderWay, Fresh, Has
  <2> QED
    BY <2>1, <2>4 DEF LogoutOwed
<1>6. CASE JoinDeleted(t)
  BY <1>6 DEF JoinDeleted, ProcessEnds, client, LogoutOwed, LogoutDue
<1>7. CASE ~(LogoutEnqueue(t) \/ RequestEnqueue(t) \/ LoginClear(t) \/ Connect(t)
             \/ LoginEnqueue(t) \/ LoginSpawn(t) \/ JoinDeleted(t))
  <2>1. /\ UNCHANGED <<owed, isConnected, latestLogin, queue, toServer, toClient, server>>
        /\ (wr' = wr /\ rd' = rd) \/ (wr' = "off" /\ rd' = "off")
    BY <1>7, CallerCases
    DEF Quiet, LoginGuard, LogoutGuard, Branch, LoginClaim, LogoutClaim, Join,
        ConnectThrows, LoginAssign, flags, threads, net, client
  <2> QED
    BY <2>1 DEF LogoutOwed, LogoutDue, LogoutUnderWay, Unread, Has
<1> QED
  BY <1>2, <1>3, <1>4, <1>5, <1>6, <1>7

LEMMA ReadingLogoutOwed ==
  ASSUME TypeOK, Lifecycle, Answer, LogoutOwed, Reading PROVE LogoutOwed'
<1>1. wr \notin {"off", "start"} /\ UNCHANGED <<wr, toServer, server>>
  BY ReadingTakes DEF Lifecycle
<1>2. Has(queue', "Logout") <=> Has(queue, "Logout")
  BY ReadingEnqueues, EnqueueOther DEF EntryTypes, RequestTypes
<1>3. \A type : Has(toClient', type) => Has(toClient, type)
  BY ReadingTakes, TailHas DEF TypeOK, NetOK
<1>4. (LogoutUnderWay' => LogoutUnderWay) /\ (Unread' => Unread)
  BY <1>1, <1>2, <1>3 DEF LogoutUnderWay, Unread, Has
<1>5. CASE ReceiveLogout /\ isConnected
  <2>1. /\ rd = "recv" /\ rd' = "last.handler" /\ toClient # <<>>
        /\ Head(toClient).type = "Logout"
        /\ owed' = [owed EXCEPT !["Logout"] = @ - 1]
    BY <1>5 DEF ReceiveLogout, Receive, Raise, EventNames
  <2>2. LogoutDue /\ LogoutUnderWay
    BY <1>5, <2>1, TailHas DEF LogoutDue, LogoutUnderWay, TypeOK, NetOK
  <2>3. owed'["Logout"] = owed["Logout"] - 1 /\ owed["Logout"] \in Int
    BY <2>1 DEF TypeOK, ClientOK, EventNames
  <2>4. ~LogoutDue'
    BY <1>1, <2>1 DEF LogoutDue
  <2> QED
    BY <2>2, <2>3, <2>4 DEF LogoutOwed
<1>6. CASE ~(ReceiveLogout /\ isConnected)
  <2>1. \/ UNCHANGED owed
        \/ Raise("Login", LoginReported, rd')
        \/ \E name \in RequestTypes \cup {"ParkingStatusUpdate"} : Raise(name, TRUE, rd')
    BY <1>6
    DEF Reading, ReceiveLogin, Poll, ReceiveStatus, PublishConnected, PublishLoggedIn,
        ReceiveLogout, ReceiveExpired, ReceiveOther, HandlersReturn, Receive, Raise,
        client, RequestTypes
  <2>2. owed'["Logout"] = owed["Logout"]
    BY <2>1 DEF Raise, TypeOK, ClientOK, EventNames, RequestTypes
  <2>3. LogoutDue' => LogoutDue
    <3>1. CASE PublishConnected
      BY <3>1 DEF PublishConnected, Answer, LogoutDue
    <3>2. CASE ReceiveLogin
      <4>1. rd = "recv" /\ Unread
        BY <3>2, TailHas DEF ReceiveLogin, Receive, Unread, TypeOK, NetOK
      <4> QED
        BY <4>1 DEF LogoutDue
    <3>3. CASE ~PublishConnected /\ ~ReceiveLogin
      <4>1. UNCHANGED <<isConnected, latestLogin>>
        BY <3>3
        DEF Reading, Poll, ReceiveStatus, PublishLoggedIn, ReceiveLogout, ReceiveExpired,
            ReceiveOther, HandlersReturn, flags
      <4>2. \/ rd \in {"recv", "poll", "connected", "connecting", "handler"}
            \/ rd' \notin {"recv", "poll", "connected", "connecting", "handler"}
        BY <3>3
        DEF Reading, Poll, ReceiveStatus, PublishLoggedIn, ReceiveLogout, ReceiveExpired,
            ReceiveOther, HandlersReturn, Receive, Raise
      <4> QED
        BY <1>1, <1>4, <4>1, <4>2 DEF LogoutDue
    <3> QED
      BY <3>1, <3>2, <3>3
  <2> QED
    BY <1>4, <2>2, <2>3 DEF LogoutOwed
<1> QED
  BY <1>5, <1>6

LEMMA WriterLogoutOwed ==
  ASSUME TypeOK, Lifecycle, LogoutOwed, Writer PROVE LogoutOwed'
<1>1. UNCHANGED <<owed, server, toClient>>
  BY DEF Writer, WriterStart, WriterSend, WriterJoin, WriterClearConnected,
         WriterClearDisconnecting, client, net
<1>2. LogoutUnderWay' => LogoutUnderWay
  <2>1. CASE WriterSend
    <3>1. /\ queue # <<>> /\ queue' = Tail(queue) /\ toServer' = Append(toServer, Head(queue))
      BY <2>1 DEF WriterSend
    <3>2. queue \in Seq(Entries) /\ toServer \in Seq(Entries) /\ Head(queue) \in Entries
      BY <3>1, HeadTailProperties DEF TypeOK, NetOK
    <3>3. /\ Has(queue, "Logout") <=> Head(queue).type = "Logout" \/ Has(queue', "Logout")
          /\ Has(toServer', "Logout") <=> Has(toServer, "Logout") \/ Head(queue).type = "Logout"
      BY <3>1, <3>2, TailHas, AppendHas
    <3> QED
      BY <1>1, <3>3 DEF LogoutUnderWay, Has
  <2>2. CASE ~WriterSend
    BY <1>1, <2>2
    DEF Writer, WriterStart, WriterJoin, WriterClearConnected, WriterClearDisconnecting,
        net, LogoutUnderWay, Has
  <2> QED
    BY <2>1, <2>2
<1>3. LogoutDue' => LogoutDue
  BY <1>1 DEF Writer, WriterStart, WriterSend, WriterJoin, WriterClearConnected,
              WriterClearDisconnecting, flags, Lifecycle, LogoutDue, Unread, Has
<1> QED
  BY <1>1, <1>2, <1>3 DEF LogoutOwed

LEMMA LogoutOwedInvariant == ASSUME SingleClient PROVE Spec => []LogoutOwed
<1>1. Init => LogoutOwed
  BY DEF Init, LogoutOwed, LogoutDue, EventNames
<1>2. /\ TypeOK /\ Lifecycle /\ Talk /\ Answer /\ OwnCalls /\ RefusedLogin /\ LogoutOwed
      /\ [Next]_vars
      => LogoutOwed'
  <2>1. ASSUME TypeOK, Lifecycle, Talk, Answer, OwnCalls, RefusedLogin, LogoutOwed, Next
        PROVE  LogoutOwed'
    <3>1. CASE ThreadThrows
      BY <2>1, <3>1 DEF ThreadThrows, ProcessEnds, client, LogoutOwed, LogoutDue
    <3>2. CASE ServerAnswers \/ ServerPushes
      <4>1. UNCHANGED <<owed, queue, wr, rd, isConnected, latestLogin>>
        BY <3>2 DEF ServerAnswers, ServerPushes, client, threads, flags
      <4>2. LogoutDue' => LogoutDue
        BY <2>1, <3>2, <4>1, ServerUnread DEF LogoutDue
      <4>3. LogoutUnderWay' => LogoutUnderWay
        <5>1. PICK x \in Packets :
                /\ toClient' = Append(toClient, x)
                /\ \/ x.type = "GetParkingStatus" /\ UNCHANGED toServer
                   \/ toServer # <<>> /\ toServer' = Tail(toServer)
                      /\ x.type = Head(toServer).type
          BY <2>1, <3>2, ServerSays
        <5>2. Has(toClient', "Logout") <=> Has(toClient, "Logout") \/ x.type = "Logout"
          BY <2>1, <5>1, AppendHas DEF TypeOK, NetOK
        <5>3. toServer # <<>> =>
                (Has(toServer, "Logout")
                   <=> Head(toServer).type = "Logout" \/ Has(Tail(toServer), "Logout"))
          BY <2>1, TailHas DEF TypeOK, NetOK
        <5> QED
          BY <4>1, <5>1, <5>2, <5>3 DEF LogoutUnderWay, Has
      <4> QED
        BY <2>1, <4>1, <4>2, <4>3 DEF LogoutOwed
    <3> QED
      BY <2>1, <3>1, <3>2, CallerLogoutOwed, WriterLogoutOwed, ReadingLogoutOwed DEF Next
  <2>2. ASSUME LogoutOwed, UNCHANGED vars PROVE LogoutOwed'
    BY <2>2 DEF LogoutOwed, LogoutDue, LogoutUnderWay, Unread, Has, vars, flags, threads,
                net, client
  <2> QED
    BY <2>1, <2>2
<1> QED
  BY <1>1, <1>2, TypeCorrect, LifecycleInvariant, TalkInvariant, AnswerInvariant,
     OwnCallsInvariant, RefusedInvariant, PTL
  DEF Spec

(* How many messages of a type a sequence holds.                           *)
Places(e, s) == {i \in DOMAIN s : s[i].type = e}
Count(e, s) == Cardinality(Places(e, s))

LEMMA CountType ==
  ASSUME NEW S, NEW s \in Seq(S), NEW e
  PROVE  IsFiniteSet(Places(e, s)) /\ Count(e, s) \in Nat
<1>1. Places(e, s) \in SUBSET (1 .. Len(s)) /\ Len(s) \in Nat
  BY LenProperties DEF Places
<1>2. IsFiniteSet(1 .. Len(s))
  BY <1>1, FS_Interval
<1>3. IsFiniteSet(Places(e, s))
  BY <1>1, <1>2, FS_Subset
<1> QED
  BY <1>3, FS_CardinalityType DEF Count

LEMMA CountEmpty == ASSUME NEW e PROVE Count(e, <<>>) = 0
<1>1. Places(e, <<>>) = {}
  BY DEF Places
<1> QED
  BY <1>1, FS_EmptySet DEF Count

LEMMA CountAppend ==
  ASSUME NEW S, NEW s \in Seq(S), NEW x \in S, NEW e
  PROVE  Count(e, Append(s, x)) = Count(e, s) + IF x.type = e THEN 1 ELSE 0
<1>1. /\ DOMAIN Append(s, x) = 1 .. Len(s) + 1 /\ DOMAIN s = 1 .. Len(s)
      /\ \A i \in 1 .. Len(s) : Append(s, x)[i] = s[i]
      /\ Append(s, x)[Len(s) + 1] = x
      /\ Len(s) \in Nat
  BY AppendProperties, LenProperties
<1>2. 1 .. Len(s) + 1 = (1 .. Len(s)) \cup {Len(s) + 1} /\ Len(s) + 1 \notin 1 .. Len(s)
  BY <1>1
<1>3. CASE x.type = e
  <2>1. /\ Places(e, Append(s, x)) = Places(e, s) \cup {Len(s) + 1}
        /\ Len(s) + 1 \notin Places(e, s)
    BY <1>1, <1>2, <1>3 DEF Places
  <2> QED
    BY <1>3, <2>1, CountType, FS_AddElement, ZenonT(40) DEF Count
<1>4. CASE x.type # e
  <2>1. Places(e, Append(s, x)) = Places(e, s)
    BY <1>1, <1>2, <1>4 DEF Places
  <2> QED
    BY <1>4, <2>1, CountType DEF Count
<1> QED
  BY <1>3, <1>4

LEMMA CountTail ==
  ASSUME NEW S, NEW s \in Seq(S), s # <<>>, NEW e
  PROVE  Count(e, s) = Count(e, Tail(s)) + IF Head(s).type = e THEN 1 ELSE 0
<1>1. /\ DOMAIN Tail(s) = 1 .. Len(s) - 1 /\ DOMAIN s = 1 .. Len(s)
      /\ \A i \in 1 .. Len(s) - 1 : Tail(s)[i] = s[i + 1]
      /\ Head(s) = s[1] /\ Len(s) \in Nat \ {0} /\ Tail(s) \in Seq(S)
  BY HeadTailProperties, LenProperties, EmptySeq
<1> DEFINE Later == Places(e, s) \ {1}
           Shift == [i \in Places(e, Tail(s)) |-> i + 1]
<1>2. Shift \in [Places(e, Tail(s)) -> Later]
  BY <1>1 DEF Places
<1>3. \A i, j \in Places(e, Tail(s)) : Shift[i] = Shift[j] => i = j
  BY <1>1 DEF Places
<1>4. \A k \in Later : \E i \in Places(e, Tail(s)) : Shift[i] = k
  <2> SUFFICES ASSUME NEW k \in Later PROVE k - 1 \in Places(e, Tail(s)) /\ (k - 1) + 1 = k
    OBVIOUS
  <2>1. k \in 2 .. Len(s) /\ s[k].type = e
    BY <1>1 DEF Places
  <2>2. k - 1 \in 1 .. Len(s) - 1 /\ (k - 1) + 1 = k
    BY <1>1, <2>1
  <2>3. Tail(s)[k - 1] = s[k]
    BY <1>1, <2>2
  <2> QED
    BY <1>1, <2>1, <2>2, <2>3 DEF Places
<1> HIDE DEF Shift
<1>5. Shift \in Bijection(Places(e, Tail(s)), Later)
  BY <1>2, <1>3, <1>4, Fun_IsBij
<1>6. ExistsBijection(Places(e, Tail(s)), Later)
  BY <1>5, Fun_ExistsBij
<1>7. Cardinality(Later) = Count(e, Tail(s))
  BY <1>1, <1>6, CountType, FS_Bijection DEF Count
<1>8. Cardinality(Later) = IF 1 \in Places(e, s) THEN Count(e, s) - 1 ELSE Count(e, s)
  BY CountType, FS_RemoveElement DEF Count
<1>9. 1 \in Places(e, s) <=> Head(s).type = e
  BY <1>1 DEF Places
<1>10. Count(e, s) \in Nat
  BY CountType
<1> HIDE DEF Later
<1> QED
  BY <1>7, <1>8, <1>9, <1>10

(* Every request under way is owed an event.                               *)
Total(e) == Count(e, queue) + Count(e, toServer) + Count(e, toClient)
RequestsOwed == \A e \in Requests : owed[e] >= Total(e)

LEMMA TotalType ==
  ASSUME TypeOK, NEW e \in Requests
  PROVE  /\ Count(e, queue) \in Nat /\ Count(e, toServer) \in Nat /\ Count(e, toClient) \in Nat
         /\ e \in EventNames /\ e \in EntryTypes /\ owed[e] \in Int
         /\ e \notin {"Login", "Logout", "GetParkingStatus"}
BY CountType, SessionAssumption
DEF TypeOK, NetOK, ClientOK, EventNames, EntryTypes, RequestTypes

LEMMA EnqueueCount ==
  ASSUME TypeOK, NEW type \in EntryTypes, NEW spot \in Nat, Enqueue(type, spot), NEW e
  PROVE  Count(e, queue') = Count(e, queue) + IF type = e THEN 1 ELSE 0
<1> DEFINE x == [type |-> type, spot |-> spot, session |-> session]
<1>1. queue \in Seq(Entries) /\ x \in Entries /\ queue' = Append(queue, x) /\ x.type = type
  BY DEF TypeOK, ClientOK, Entries, EntryTypes, Enqueue
<1> HIDE DEF x
<1> QED
  BY <1>1, CountAppend

(* A step after which no more is under way, and no less is owed.           *)
LEMMA NoMoreOwed ==
  ASSUME TypeOK, RequestsOwed,
         queue' = queue \/ queue' = <<>>,
         toServer' = toServer \/ toServer' = <<>>,
         toClient' = toClient \/ toClient' = <<>>,
         \A e \in Requests : owed'[e] = owed[e]
  PROVE  RequestsOwed'
<1> SUFFICES ASSUME NEW e \in Requests PROVE owed'[e] >= Total(e)'
  BY DEF RequestsOwed
<1>1. /\ Count(e, queue') = Count(e, queue) \/ Count(e, queue') = 0
      /\ Count(e, toServer') = Count(e, toServer) \/ Count(e, toServer') = 0
      /\ Count(e, toClient') = Count(e, toClient) \/ Count(e, toClient') = 0
  BY CountEmpty
<1>2. owed'[e] = owed[e] /\ owed[e] >= Count(e, queue) + Count(e, toServer) + Count(e, toClient)
  BY DEF RequestsOwed, Total
<1> QED
  BY <1>1, <1>2, TotalType DEF Total

LEMMA CallerRequestsOwed ==
  ASSUME TypeOK, Lifecycle, Talk, RequestsOwed, NEW t \in Callers, Call(t) \/ Continue(t)
  PROVE  RequestsOwed'
<1>1. CASE RequestEnqueue(t)
  <2>1. PICK type \in Requests : Enqueue(type, 0) /\ owed' = [owed EXCEPT ![type] = @ + 1]
    BY <1>1 DEF RequestEnqueue
  <2>2. ASSUME NEW e \in Requests PROVE owed'[e] >= Total(e)'
    <3>1. Count(e, queue') = Count(e, queue) + IF type = e THEN 1 ELSE 0
      BY <2>1, TotalType, EnqueueCount
    <3>2. owed'[e] = owed[e] + IF type = e THEN 1 ELSE 0
      BY <2>1, TotalType DEF TypeOK, ClientOK
    <3>3. UNCHANGED <<toServer, toClient>>
      BY <1>1 DEF RequestEnqueue, net
    <3>4. owed[e] >= Count(e, queue) + Count(e, toServer) + Count(e, toClient)
      BY DEF RequestsOwed, Total
    <3> QED
      BY <3>1, <3>2, <3>3, <3>4, TotalType DEF Total
  <2> QED
    BY <2>2 DEF RequestsOwed
<1>2. CASE LogoutEnqueue(t)
  <2>1. Enqueue("Logout", 0) /\ \E n : owed' = [owed EXCEPT !["Logout"] = n]
    BY <1>2 DEF LogoutEnqueue
  <2>2. ASSUME NEW e \in Requests PROVE owed'[e] >= Total(e)'
    <3>1. Count(e, queue') = Count(e, queue)
      BY <2>1, TotalType, EnqueueCount DEF EntryTypes
    <3>2. owed'[e] = owed[e]
      BY <2>1, TotalType DEF TypeOK, ClientOK
    <3>3. UNCHANGED <<toServer, toClient>>
      BY <1>2 DEF LogoutEnqueue, net
    <3>4. owed[e] >= Count(e, queue) + Count(e, toServer) + Count(e, toClient)
      BY DEF RequestsOwed, Total
    <3> QED
      BY <3>1, <3>2, <3>3, <3>4, TotalType DEF Total
  <2> QED
    BY <2>2 DEF RequestsOwed
<1>3. CASE LoginEnqueue(t)
  <2>1. pc[t] = "login.enqueue" /\ Enqueue("Login", 0) /\ UNCHANGED <<toServer, toClient>>
    BY <1>3 DEF LoginEnqueue, net
  <2>2. t \in Apps
    BY <2>1 DEF Lifecycle, HandlerLabels, Callers
  <2>3. queue = <<>> /\ toServer = <<>> /\ toClient = <<>>
    BY <2>1, <2>2 DEF Talk, Connected, Fresh
  <2>4. ASSUME NEW e \in Requests PROVE owed'[e] >= Total(e)'
    <3>1. owed'[e] = 0
      BY <1>3, TotalType DEF LoginEnqueue
    <3>2. Count(e, queue') = Count(e, queue)
      BY <2>1, TotalType, EnqueueCount DEF EntryTypes
    <3>3. Total(e)' = 0
      BY <2>1, <2>3, <3>2, CountEmpty DEF Total
    <3> QED
      BY <3>1, <3>3
  <2> QED
    BY <2>4 DEF RequestsOwed
<1>4. CASE ~(RequestEnqueue(t) \/ LoginEnqueue(t) \/ LogoutEnqueue(t))
  <2>1. /\ UNCHANGED owed
        /\ queue' = queue \/ queue' = <<>>
        /\ toServer' = toServer \/ toServer' = <<>>
        /\ toClient' = toClient \/ toClient' = <<>>
    BY <1>4, CallerCases
    DEF Quiet, LoginGuard, LogoutGuard, Branch, LoginClaim, LogoutClaim, Join, LoginClear,
        Connect, ConnectThrows, LoginSpawn, LoginAssign, JoinDeleted, ProcessEnds, net, client
  <2> QED
    BY <2>1, NoMoreOwed
<1> QED
  BY <1>1, <1>2, <1>3, <1>4

(* A reply of another type, or one whose event is raised, leaves the way.  *)
LEMMA TakeCount ==
  ASSUME TypeOK, toClient # <<>>, toClient' = Tail(toClient), NEW e \in Requests
  PROVE  /\ Count(e, toClient) = Count(e, toClient') + IF Head(toClient).type = e THEN 1 ELSE 0
         /\ Count(e, toClient') \in Nat
<1>1. toClient \in Seq(Packets) /\ Tail(toClient) \in Seq(Packets)
  BY HeadTailProperties DEF TypeOK, NetOK
<1> QED
  BY <1>1, CountTail, CountType

LEMMA ReadingRequestsOwed ==
  ASSUME TypeOK, RequestsOwed, Reading PROVE RequestsOwed'
<1> SUFFICES ASSUME NEW e \in Requests PROVE owed'[e] >= Total(e)'
  BY DEF RequestsOwed
<1>1. UNCHANGED toServer
  BY ReadingTakes
<1>2. owed[e] >= Count(e, queue) + Count(e, toServer) + Count(e, toClient)
  BY DEF RequestsOwed, Total
<1>3. CASE PublishConnected \/ PublishLoggedIn \/ HandlersReturn
  <2>1. UNCHANGED <<queue, toClient>> /\ owed'[e] = owed[e]
    BY <1>3, TotalType
    DEF PublishConnected, PublishLoggedIn, HandlersReturn, Raise, net, client, TypeOK, ClientOK
  <2> QED
    BY <1>1, <1>2, <2>1 DEF Total
<1>4. CASE Poll
  <2>1. UNCHANGED <<toClient, owed>>
    BY <1>4 DEF Poll, net, client
  <2>2. Count(e, queue') = Count(e, queue)
    <3>1. UNCHANGED queue \/ (Enqueue("GetParkingStatus", nextSpot) /\ nextSpot \in Nat)
      BY <1>4 DEF Poll, TypeOK, ThreadsOK
    <3>2. CASE Enqueue("GetParkingStatus", nextSpot) /\ nextSpot \in Nat
      <4>1. "GetParkingStatus" \in EntryTypes
        BY DEF EntryTypes
      <4>2. Count(e, queue') = Count(e, queue) + IF "GetParkingStatus" = e THEN 1 ELSE 0
        BY <3>2, <4>1, EnqueueCount
      <4> QED
        BY <4>2, TotalType
    <3> QED
      BY <3>1, <3>2
  <2> QED
    BY <1>1, <1>2, <2>1, <2>2 DEF Total
<1>5. CASE ReceiveLogin \/ ReceiveStatus \/ ReceiveLogout
  <2>1. toClient # <<>> /\ toClient' = Tail(toClient) /\ UNCHANGED queue
    BY <1>5 DEF ReceiveLogin, ReceiveStatus, ReceiveLogout, Receive
  <2>2. UNCHANGED owed \/ \E name \in {"Login", "Logout"} : \E n : owed' = [owed EXCEPT ![name] = n]
    <3>1. "ParkingStatusUpdate" \notin EventNames
      BY SessionAssumption DEF EventNames, RequestTypes
    <3> QED
      BY <1>5, <3>1 DEF ReceiveLogin, ReceiveStatus, ReceiveLogout, Raise, client
  <2>3. owed'[e] = owed[e]
    BY <2>2, TotalType DEF TypeOK, ClientOK
  <2> QED
    BY <1>1, <1>2, <2>1, <2>3, TakeCount, TotalType DEF Total
<1>6. CASE ReceiveExpired \/ ReceiveOther
  <2>1. toClient # <<>> /\ toClient' = Tail(toClient)
    BY <1>6 DEF ReceiveExpired, ReceiveOther, Receive
  <2>2. CASE ReceiveExpired /\ Head(toClient).reply = "Success"
    <3>1. /\ Enqueue("GetNextExpired", 0) /\ UNCHANGED owed
          /\ Head(toClient).type = "GetNextExpired"
      BY <2>2 DEF ReceiveExpired, Receive
    <3>2. Count(e, queue') = Count(e, queue) + IF "GetNextExpired" = e THEN 1 ELSE 0
      BY <3>1, EnqueueCount DEF EntryTypes, RequestTypes
    <3> QED
      BY <1>1, <1>2, <2>1, <3>1, <3>2, TakeCount, TotalType DEF Total
  <2>3. CASE ~(ReceiveExpired /\ Head(toClient).reply = "Success")
    <3>1. Raise(Head(toClient).type, TRUE, "handler") /\ UNCHANGED queue
      BY <1>6, <2>3 DEF ReceiveExpired, ReceiveOther, Receive
    <3>2. owed'[e] = owed[e] - IF Head(toClient).type = e THEN 1 ELSE 0
      BY <3>1, TotalType DEF Raise, TypeOK, ClientOK
    <3> QED
      BY <1>1, <1>2, <2>1, <3>1, <3>2, TakeCount, TotalType DEF Total
  <2> QED
    BY <2>2, <2>3
<1> QED
  BY <1>3, <1>4, <1>5, <1>6 DEF Reading

(* A request goes from the queue to the socket, or a reply takes its place.*)
LEMMA OtherRequestsOwed ==
  ASSUME TypeOK, Talk, RequestsOwed, Writer \/ ServerAnswers \/ ServerPushes \/ ThreadThrows
  PROVE  RequestsOwed'
<1>1. UNCHANGED owed
  BY DEF Writer, WriterStart, WriterSend, WriterJoin, WriterClearConnected,
         WriterClearDisconnecting, ServerAnswers, ServerPushes, ThreadThrows, ProcessEnds, client
<1>2. CASE WriterSend
  <2>1. /\ queue # <<>> /\ queue' = Tail(queue) /\ toServer' = Append(toServer, Head(queue))
        /\ UNCHANGED toClient
    BY <1>2 DEF WriterSend
  <2>2. /\ queue \in Seq(Entries) /\ toServer \in Seq(Entries) /\ Head(queue) \in Entries
        /\ queue' \in Seq(Entries)
    BY <2>1, HeadTailProperties DEF TypeOK, NetOK
  <2>3. ASSUME NEW e \in Requests PROVE owed'[e] >= Total(e)'
    <3>1. /\ Count(e, queue) = Count(e, queue') + IF Head(queue).type = e THEN 1 ELSE 0
          /\ Count(e, toServer') = Count(e, toServer) + IF Head(queue).type = e THEN 1 ELSE 0
          /\ Count(e, queue') \in Nat
      BY <2>1, <2>2, CountTail, CountAppend, CountType
    <3>2. owed[e] >= Count(e, queue) + Count(e, toServer) + Count(e, toClient)
      BY DEF RequestsOwed, Total
    <3> QED
      BY <1>1, <2>1, <3>1, <3>2, TotalType DEF Total
  <2> QED
    BY <2>3 DEF RequestsOwed
<1>3. CASE (Writer /\ ~WriterSend) \/ ThreadThrows
  BY <1>1, <1>3, NoMoreOwed
  DEF Writer, WriterStart, WriterJoin, WriterClearConnected, WriterClearDisconnecting,
      ThreadThrows, ProcessEnds, net
<1>4. CASE ServerAnswers \/ ServerPushes
  <2>1. UNCHANGED queue
    BY <1>4 DEF ServerAnswers, ServerPushes
  <2>2. PICK x \in Packets :
          /\ toClient' = Append(toClient, x)
          /\ \/ x.type = "GetParkingStatus" /\ UNCHANGED toServer
             \/ /\ toServer # <<>> /\ toServer' = Tail(toServer)
                /\ x.type = Head(toServer).type
    BY <1>4, ServerSays
  <2>3. ASSUME NEW e \in Requests PROVE owed'[e] >= Total(e)'
    <3>1. Count(e, toClient') = Count(e, toClient) + IF x.type = e THEN 1 ELSE 0
      BY <2>2, CountAppend DEF TypeOK, NetOK
    <3>2. owed[e] >= Count(e, queue) + Count(e, toServer) + Count(e, toClient)
      BY DEF RequestsOwed, Total
    <3>3. CASE x.type = "GetParkingStatus" /\ UNCHANGED toServer
      BY <1>1, <2>1, <3>1, <3>2, <3>3, TotalType DEF Total
    <3>4. CASE /\ toServer # <<>> /\ toServer' = Tail(toServer)
               /\ x.type = Head(toServer).type
      <4>1. toServer \in Seq(Entries) /\ toServer' \in Seq(Entries)
        BY <3>4, HeadTailProperties DEF TypeOK, NetOK
      <4>2. /\ Count(e, toServer) = Count(e, toServer') + IF x.type = e THEN 1 ELSE 0
            /\ Count(e, toServer') \in Nat
        BY <3>4, <4>1, CountTail, CountType
      <4> QED
        BY <1>1, <2>1, <3>1, <3>2, <4>2, TotalType DEF Total
    <3> QED
      BY <2>2, <3>3, <3>4
  <2> QED
    BY <2>3 DEF RequestsOwed
<1> QED
  BY <1>2, <1>3, <1>4

LEMMA RequestsOwedInvariant == ASSUME SingleClient PROVE Spec => []RequestsOwed
<1>1. Init => RequestsOwed
  BY CountEmpty, SessionAssumption DEF Init, RequestsOwed, Total, EventNames
<1>2. TypeOK /\ Lifecycle /\ Talk /\ RequestsOwed /\ [Next]_vars => RequestsOwed'
  <2>1. ASSUME TypeOK, Lifecycle, Talk, RequestsOwed, Next PROVE RequestsOwed'
    BY <2>1, CallerRequestsOwed, ReadingRequestsOwed, OtherRequestsOwed DEF Next
  <2>2. ASSUME TypeOK, RequestsOwed, UNCHANGED vars PROVE RequestsOwed'
    BY <2>2, NoMoreOwed DEF vars, net, client
  <2> QED
    BY <2>1, <2>2
<1> QED
  BY <1>1, <1>2, TypeCorrect, LifecycleInvariant, TalkInvariant, PTL DEF Spec

(* Whenever the client calls, a session raises no more LoginReplies,       *)
(* LogoutReplies or answers to requests of a kind than calls of that kind  *)
(* have been accepted in it.                                               *)
THEOREM EventsHaveCalls == ASSUME SingleClient PROVE Spec => []NoEventWithoutCall
<1>1. TypeOK /\ LoginOwed /\ LogoutOwed /\ RequestsOwed => NoEventWithoutCall
  <2> SUFFICES ASSUME TypeOK, LoginOwed, LogoutOwed, RequestsOwed, NEW e \in EventNames
               PROVE  owed[e] >= 0
    BY DEF NoEventWithoutCall
  <2>1. CASE e \in Requests
    <3>1. owed[e] >= Count(e, queue) + Count(e, toServer) + Count(e, toClient)
      BY <2>1 DEF RequestsOwed, Total
    <3> QED
      BY <2>1, <3>1, TotalType
  <2>2. CASE e \notin Requests
    BY <2>2 DEF LoginOwed, LogoutOwed, EventNames
  <2> QED
    BY <2>1, <2>2
<1> QED
  BY <1>1, TypeCorrect, LoginOwedInvariant, LogoutOwedInvariant, RequestsOwedInvariant, PTL
=============================================================================
