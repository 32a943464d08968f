----------------------------- MODULE SessionProofs -----------------------------
(***************************************************************************)
(* Proofs about Session, for every number of parking spots, every set of   *)
(* requests, every server and every bound.                                 *)
(***************************************************************************)
EXTENDS Session, SequenceTheorems, TLAPS

-----------------------------------------------------------------------------
(* Type correctness.                                                       *)

EntryTypes == RequestTypes \cup {"Login", "Logout", "GetParkingStatus"}

(* A group of variables that a step leaves alone keeps its types.          *)
LEMMA Kept ==
  ASSUME TypeOK
  PROVE  /\ UNCHANGED flags => FlagsOK'
         /\ UNCHANGED store => StoreOK'
         /\ UNCHANGED threads => ThreadsOK'
         /\ UNCHANGED <<pc, by>> => CallersOK'
         /\ UNCHANGED net => NetOK'
         /\ UNCHANGED client => ClientOK'
<1>1. UNCHANGED flags => FlagsOK'
  BY DEF TypeOK, FlagsOK, flags
<1>2. UNCHANGED store => StoreOK'
  BY DEF TypeOK, StoreOK, store
<1>3. UNCHANGED threads => ThreadsOK'
  BY DEF TypeOK, ThreadsOK, threads
<1>4. UNCHANGED <<pc, by>> => CallersOK'
  BY DEF TypeOK, CallersOK
<1>5. UNCHANGED net => NetOK'
  BY DEF TypeOK, NetOK, net
<1>6. UNCHANGED client => ClientOK'
  BY DEF TypeOK, ClientOK, client
<1> QED
  BY <1>1, <1>2, <1>3, <1>4, <1>5, <1>6

(* What the helpers of the actions do to their variable's type.            *)
LEMMA GotoType ==
  ASSUME TypeOK, NEW t \in Callers, NEW label \in Labels, Goto(t, label), UNCHANGED by
  PROVE  CallersOK'
BY DEF TypeOK, CallersOK, Goto

LEMMA EnqueueType ==
  ASSUME TypeOK, NEW type \in EntryTypes, NEW spot \in Nat, Enqueue(type, spot)
  PROVE  queue' \in Seq(Entries)
<1>1. [type |-> type, spot |-> spot, session |-> session] \in Entries
  BY DEF TypeOK, ClientOK, Entries, EntryTypes
<1> QED
  BY <1>1, AppendProperties DEF TypeOK, Enqueue

LEMMA OwedType ==
  ASSUME TypeOK, NEW e \in EventNames
  PROVE  /\ [owed EXCEPT ![e] = @ + 1] \in [EventNames -> Int]
         /\ [owed EXCEPT ![e] = @ - 1] \in [EventNames -> Int]
BY DEF TypeOK, ClientOK

(* A guard's step only moves its caller.                                   *)
LEMMA BranchType ==
  ASSUME TypeOK, NEW t \in Callers, NEW from, NEW flag,
         NEW yes \in Labels, NEW no \in Labels, Branch(t, from, flag, yes, no)
  PROVE  TypeOK'
<1>1. (IF flag THEN yes ELSE no) \in Labels
  OBVIOUS
<1>2. CallersOK'
  BY <1>1, GotoType DEF Branch
<1> QED
  BY <1>2, Kept DEF TypeOK, Branch

(* The end of the process leaves every variable in its type.               *)
LEMMA EndsType ==
  ASSUME TypeOK, NEW why \in {"terminate", "deleted"}, ProcessEnds(why) PROVE TypeOK'
<1>1. CallersOK'
  BY DEF TypeOK, CallersOK, ProcessEnds, Labels
<1>2. ThreadsOK'
  BY DEF TypeOK, ThreadsOK, ProcessEnds
<1>3. NetOK'
  <2>1. toServer' \in Seq(Entries) /\ toClient' \in Seq(Packets)
    BY EmptySeq DEF ProcessEnds
  <2> QED
    BY <2>1 DEF TypeOK, NetOK, ProcessEnds
<1>4. UNCHANGED <<flags, queue, store, client>> /\ fault' = why
  BY DEF ProcessEnds
<1> QED
  BY <1>1, <1>2, <1>3, <1>4, Kept DEF TypeOK

LEMMA CallType == ASSUME TypeOK, NEW t \in Callers, Call(t) PROVE TypeOK'
<1>1. ASSUME NEW method, NEW first \in Labels, Begin(t, method, first)
      PROVE  TypeOK'
  <2>1. CallersOK'
    BY <1>1, GotoType DEF Begin
  <2>2. view' \in Views
    BY <1>1 DEF Begin, TypeOK, ClientOK, Views
  <2>3. calls' = calls + 1 /\ UNCHANGED <<session, owed>>
    BY <1>1 DEF Begin
  <2>4. ClientOK'
    BY <2>2, <2>3 DEF TypeOK, ClientOK
  <2> QED
    BY <1>1, <2>1, <2>4, Kept DEF TypeOK, Begin
<1> QED
  BY <1>1 DEF Call, Labels

LEMMA RefuseType == ASSUME TypeOK, NEW t \in Callers, Refuse(t) PROVE TypeOK'
<1>1. CallersOK'
  BY DEF Refuse, Goto, TypeOK, CallersOK, Labels
<1> QED
  BY <1>1, Kept DEF TypeOK, Refuse

LEMMA JoinType ==
  ASSUME TypeOK, NEW t \in Callers, NEW from, NEW next \in Labels, Join(t, from, next)
  PROVE  TypeOK'
<1>1. CallersOK'
  BY GotoType DEF Join
<1>2. ThreadsOK'
  BY DEF TypeOK, ThreadsOK, Join
<1> QED
  BY <1>1, <1>2, Kept DEF TypeOK, Join

LEMMA LoginType == ASSUME TypeOK, NEW t \in Callers, Login(t) PROVE TypeOK'
<1>1. CASE LoginGuard(t)
  BY <1>1, BranchType DEF LoginGuard, Labels
<1>2. CASE LoginBadArguments(t)
  <2>1. CallersOK'
    BY <1>2, GotoType DEF LoginBadArguments, Labels
  <2> QED
    BY <1>2, <2>1, Kept DEF TypeOK, LoginBadArguments
<1>3. CASE LoginClaim(t)
  <2>1. CallersOK'
    BY <1>3, GotoType DEF LoginClaim, Labels
  <2>2. FlagsOK'
    BY <1>3 DEF LoginClaim, TypeOK, FlagsOK
  <2> QED
    BY <1>3, <2>1, <2>2, Kept DEF TypeOK, LoginClaim
<1>4. CASE Join(t, "login.join", "login.clear")
  BY <1>4, JoinType DEF Labels
<1>5. CASE LoginClear(t)
  <2>1. CallersOK'
    BY <1>5, GotoType DEF LoginClear, Labels
  <2>2. queue' \in Seq(Entries)
    BY <1>5, EmptySeq DEF LoginClear
  <2>3. ClientOK'
    BY <1>5 DEF LoginClear, TypeOK, ClientOK
  <2> QED
    BY <1>5, <2>1, <2>2, <2>3, Kept DEF TypeOK, LoginClear
<1>6. CASE Connect(t)
  <2>1. CallersOK'
    BY <1>6, GotoType DEF Connect, Labels
  <2>2. toServer' \in Seq(Entries) /\ toClient' \in Seq(Packets)
    BY <1>6, EmptySeq DEF Connect
  <2>3. NetOK'
    BY <1>6, <2>2 DEF Connect, TypeOK, NetOK
  <2> QED
    BY <1>6, <2>1, <2>3, Kept DEF TypeOK, Connect
<1>7. CASE ConnectThrows(t)
  <2>1. CallersOK'
    BY <1>7, GotoType DEF ConnectThrows, Labels
  <2>2. FlagsOK'
    BY <1>7 DEF ConnectThrows, TypeOK, FlagsOK
  <2>3. sockets' \in Int
    BY <1>7 DEF ConnectThrows, TypeOK, NetOK
  <2>4. NetOK'
    BY <1>7, <2>3 DEF ConnectThrows, TypeOK, NetOK
  <2> QED
    BY <1>7, <2>1, <2>2, <2>4, Kept DEF TypeOK, ConnectThrows
<1>8. CASE LoginEnqueue(t)
  <2>1. CallersOK'
    BY <1>8, GotoType DEF LoginEnqueue, Labels
  <2>2. queue' \in Seq(Entries)
    BY <1>8, EnqueueType DEF LoginEnqueue, EntryTypes
  <2>3. owed' \in [EventNames -> Int] /\ view' \in Views
    BY <1>8, OwedType DEF LoginEnqueue, TypeOK, ClientOK, Views, EventNames
  <2>4. ClientOK'
    BY <1>8, <2>3 DEF LoginEnqueue, TypeOK, ClientOK
  <2> QED
    BY <1>8, <2>1, <2>2, <2>4, Kept DEF TypeOK, LoginEnqueue
<1>9. CASE LoginSpawn(t)
  <2>1. CallersOK'
    BY <1>9, GotoType DEF LoginSpawn, Labels
  <2>2. ThreadsOK'
    BY <1>9 DEF LoginSpawn, TypeOK, ThreadsOK
  <2> QED
    BY <1>9, <2>1, <2>2, Kept DEF TypeOK, LoginSpawn
<1>10. CASE LoginAssign(t)
  <2>1. CallersOK'
    BY <1>10, GotoType DEF LoginAssign, Labels
  <2>2. ThreadsOK'
    BY <1>10 DEF LoginAssign, TypeOK, ThreadsOK
  <2> QED
    BY <1>10, <2>1, <2>2, Kept DEF TypeOK, LoginAssign
<1> QED
  BY <1>1, <1>2, <1>3, <1>4, <1>5, <1>6, <1>7, <1>8, <1>9, <1>10 DEF Login

LEMMA LogoutType == ASSUME TypeOK, NEW t \in Callers, Logout(t) PROVE TypeOK'
<1>1. CASE LogoutGuard(t)
  BY <1>1, BranchType DEF LogoutGuard, Labels
<1>2. CASE LogoutClaim(t)
  <2>1. CallersOK'
    BY <1>2, GotoType DEF LogoutClaim, Labels
  <2>2. FlagsOK'
    BY <1>2 DEF LogoutClaim, TypeOK, FlagsOK
  <2> QED
    BY <1>2, <2>1, <2>2, Kept DEF TypeOK, LogoutClaim
<1>3. CASE LogoutEnqueue(t)
  <2>1. CallersOK'
    BY <1>3 DEF LogoutEnqueue, Goto, TypeOK, CallersOK, Labels
  <2>2. queue' \in Seq(Entries)
    BY <1>3, EnqueueType DEF LogoutEnqueue, EntryTypes
  <2>3. owed' \in [EventNames -> Int] /\ view' \in Views
    BY <1>3 DEF LogoutEnqueue, TypeOK, ClientOK, Views, EventNames
  <2>4. ClientOK'
    BY <1>3, <2>3 DEF LogoutEnqueue, TypeOK, ClientOK
  <2> QED
    BY <1>3, <2>1, <2>2, <2>4, Kept DEF TypeOK, LogoutEnqueue
<1> QED
  BY <1>1, <1>2, <1>3 DEF Logout

LEMMA RequestType == ASSUME TypeOK, NEW t \in Callers, Request(t) PROVE TypeOK'
<1>1. CASE RequestGuard(t)
  BY <1>1, BranchType DEF RequestGuard, Labels
<1>2. CASE RequestEnqueue(t)
  <2>1. PICK type \in Requests :
          Enqueue(type, 0) /\ owed' = [owed EXCEPT ![type] = @ + 1]
    BY <1>2 DEF RequestEnqueue
  <2>2. CallersOK'
    BY <1>2, GotoType DEF RequestEnqueue, Labels
  <2>3. queue' \in Seq(Entries)
    BY <2>1, EnqueueType, SessionAssumption DEF EntryTypes
  <2>4. owed' \in [EventNames -> Int]
    BY <2>1, OwedType DEF EventNames
  <2>5. ClientOK'
    BY <1>2, <2>4 DEF RequestEnqueue, TypeOK, ClientOK
  <2> QED
    BY <1>2, <2>2, <2>3, <2>5, Kept DEF TypeOK, RequestEnqueue
<1>3. CASE RequestBadArguments(t)
  <2>1. CallersOK'
    BY <1>3, GotoType DEF RequestBadArguments, Labels
  <2> QED
    BY <1>3, <2>1, Kept DEF TypeOK, RequestBadArguments
<1> QED
  BY <1>1, <1>2, <1>3 DEF Request

LEMMA SetType == ASSUME TypeOK, NEW t \in Callers, Set(t) PROVE TypeOK'
<1>1. CASE SetGuard(t)
  BY <1>1, BranchType DEF SetGuard, Labels
<1>2. CASE SetApply(t)
  <2>1. CallersOK'
    BY <1>2, GotoType DEF SetApply, Labels
  <2>2. StoreOK'
    BY <1>2, SessionAssumption DEF SetApply, TypeOK, StoreOK, store
  <2> QED
    BY <1>2, <2>1, <2>2, Kept DEF TypeOK, SetApply
<1> QED
  BY <1>1, <1>2 DEF Set

LEMMA CleanupType == ASSUME TypeOK, NEW t \in Callers, Cleanup(t) PROVE TypeOK'
<1>1. CASE CleanupGuard(t)
  BY <1>1, BranchType DEF CleanupGuard, Labels
<1>2. CASE CleanupLogout(t)
  <2>1. CallersOK'
    BY <1>2 DEF CleanupLogout, Goto, TypeOK, CallersOK, Labels
  <2> QED
    BY <1>2, <2>1, Kept DEF TypeOK, CleanupLogout
<1>3. CASE Join(t, "cleanup.join", "idle")
  BY <1>3, JoinType DEF Labels
<1> QED
  BY <1>1, <1>2, <1>3 DEF Cleanup

LEMMA CallerType ==
  ASSUME TypeOK, NEW t \in Callers, Call(t) \/ Continue(t) PROVE TypeOK'
<1>1. CASE JoinDeleted(t)
  BY <1>1, EndsType DEF JoinDeleted
<1> QED
  BY <1>1, CallType, RefuseType, LoginType, LogoutType, RequestType, SetType,
     CleanupType DEF Continue

LEMMA WriterType == ASSUME TypeOK, Writer PROVE TypeOK'
<1>1. CASE WriterStart
  <2>1. ThreadsOK'
    BY <1>1 DEF WriterStart, TypeOK, ThreadsOK, Replies
  <2> QED
    BY <1>1, <2>1, Kept DEF TypeOK, WriterStart
<1>2. CASE WriterSend
  <2>1. queue' \in Seq(Entries) /\ Head(queue) \in Entries
    BY <1>2, HeadTailProperties DEF WriterSend, TypeOK
  <2>2. toServer' \in Seq(Entries)
    BY <1>2, <2>1, AppendProperties DEF WriterSend, TypeOK, NetOK
  <2>3. NetOK'
    BY <1>2, <2>2 DEF WriterSend, TypeOK, NetOK
  <2>4. ThreadsOK'
    BY <1>2 DEF WriterSend, TypeOK, ThreadsOK
  <2> QED
    BY <1>2, <2>1, <2>3, <2>4, Kept DEF TypeOK, WriterSend
<1>3. CASE WriterJoin
  <2>1. ThreadsOK' /\ NetOK'
    BY <1>3 DEF WriterJoin, TypeOK, ThreadsOK, NetOK
  <2> QED
    BY <1>3, <2>1, Kept DEF TypeOK, WriterJoin
<1>4. CASE WriterClearConnected
  <2>1. FlagsOK' /\ ThreadsOK'
    BY <1>4 DEF WriterClearConnected, TypeOK, FlagsOK, ThreadsOK
  <2> QED
    BY <1>4, <2>1, Kept DEF TypeOK, WriterClearConnected
<1>5. CASE WriterClearDisconnecting
  <2>1. FlagsOK' /\ ThreadsOK'
    BY <1>5 DEF WriterClearDisconnecting, TypeOK, FlagsOK, ThreadsOK
  <2> QED
    BY <1>5, <2>1, Kept DEF TypeOK, WriterClearDisconnecting
<1> QED
  BY <1>1, <1>2, <1>3, <1>4, <1>5 DEF Writer

(* An event raised on the reading thread.                                  *)
LEMMA RaiseType ==
  ASSUME TypeOK,
         NEW name \in RequestTypes \cup {"ParkingStatusUpdate", "Login", "Logout"},
         NEW ok \in BOOLEAN, NEW handler \in {"handler", "last.handler"},
         Raise(name, ok, handler),
         UNCHANGED <<writingThread, wr, nextSpot, latestLogin, session, calls>>
  PROVE  ThreadsOK' /\ ClientOK'
<1>1. event' = [name |-> name, ok |-> ok] /\ rd' = handler
  BY DEF Raise
<1>2. ThreadsOK'
  BY <1>1 DEF TypeOK, ThreadsOK
<1>3. owed' \in [EventNames -> Int]
  BY OwedType DEF Raise, TypeOK, ClientOK
<1>4. view' \in Views
  BY DEF Raise, TypeOK, ClientOK, Views
<1> QED
  BY <1>2, <1>3, <1>4 DEF TypeOK, ClientOK

(* A message taken from the socket leaves the rest typed.                  *)
LEMMA ReceiveType ==
  ASSUME TypeOK, NEW types, Receive(types),
         UNCHANGED <<toServer, server, sockets, extras>>
  PROVE  NetOK' /\ Head(toClient) \in Packets
BY HeadTailProperties DEF Receive, TypeOK, NetOK

LEMMA ReadingType == ASSUME TypeOK, Reading PROVE TypeOK'
<1>1. CASE ReceiveLogin
  <2>1. NetOK' /\ Head(toClient) \in Packets
    BY <1>1, ReceiveType DEF ReceiveLogin
  <2>2. latestLogin' \in Replies
    BY <1>1, <2>1 DEF ReceiveLogin, Packets
  <2>3. \/ rd' = "poll" /\ nextSpot' = 1
        \/ UNCHANGED <<rd, nextSpot>>
    BY <1>1 DEF ReceiveLogin
  <2>4. UNCHANGED <<writingThread, wr, event>>
    BY <1>1 DEF ReceiveLogin
  <2>5. ThreadsOK'
    <3>1. ThreadsOK
      BY DEF TypeOK
    <3>2. CASE rd' = "poll" /\ nextSpot' = 1
      BY <2>2, <2>4, <3>1, <3>2 DEF ThreadsOK
    <3>3. CASE UNCHANGED <<rd, nextSpot>>
      BY <2>2, <2>4, <3>1, <3>3 DEF ThreadsOK
    <3> QED
      BY <2>3, <3>2, <3>3
  <2>6. CallersOK'
    BY <1>1 DEF ReceiveLogin, Goto, TypeOK, CallersOK, Labels, Callers
  <2> QED
    BY <1>1, <2>1, <2>5, <2>6, Kept DEF TypeOK, ReceiveLogin
<1>2. CASE Poll
  <2>1. nextSpot \in Nat
    BY DEF TypeOK, ThreadsOK
  <2>2. queue' \in Seq(Entries)
    BY <1>2, <2>1, EnqueueType DEF Poll, EntryTypes, TypeOK
  <2>3. nextSpot' \in Nat /\ rd' \in {"recv", "poll"}
    BY <1>2, <2>1 DEF Poll
  <2>4. ThreadsOK'
    BY <1>2, <2>3 DEF Poll, TypeOK, ThreadsOK
  <2>5. StoreOK'
    BY <1>2 DEF Poll, TypeOK, StoreOK
  <2> QED
    BY <1>2, <2>2, <2>4, <2>5, Kept DEF TypeOK, Poll
<1>3. CASE ReceiveStatus
  <2> DEFINE id == Head(toClient).spot
  <2>1. NetOK'
    BY <1>3, ReceiveType DEF ReceiveStatus
  <2>2. StoreOK'
    BY <1>3 DEF ReceiveStatus, TypeOK, StoreOK, ClientOK
  <2>3. CASE UNCHANGED <<event, owed, view>>
    <3>1. ThreadsOK'
      BY <1>3, <2>3, ZenonT(40) DEF ReceiveStatus, Raise, TypeOK, ThreadsOK
    <3>2. ClientOK'
      BY <1>3, <2>3 DEF ReceiveStatus, TypeOK, ClientOK
    <3> QED
      BY <1>3, <2>1, <2>2, <3>1, <3>2, Kept DEF TypeOK, ReceiveStatus
  <2>4. CASE Raise("ParkingStatusUpdate", TRUE, "handler")
    <3>1. ThreadsOK' /\ ClientOK'
      BY <1>3, <2>4, RaiseType DEF ReceiveStatus
    <3> QED
      BY <1>3, <2>1, <2>2, <3>1, Kept DEF TypeOK, ReceiveStatus
  <2> QED
    BY <1>3, <2>3, <2>4 DEF ReceiveStatus
<1>4. CASE PublishConnected
  <2>1. FlagsOK' /\ ThreadsOK'
    BY <1>4 DEF PublishConnected, TypeOK, FlagsOK, ThreadsOK
  <2> QED
    BY <1>4, <2>1, Kept DEF TypeOK, PublishConnected
<1>5. CASE PublishLoggedIn
  <2>1. FlagsOK'
    BY <1>5 DEF PublishLoggedIn, TypeOK, FlagsOK
  <2>2. ThreadsOK' /\ ClientOK'
    BY <1>5, RaiseType DEF PublishLoggedIn, LoginReported
  <2> QED
    BY <1>5, <2>1, <2>2, Kept DEF TypeOK, PublishLoggedIn
<1>6. CASE ReceiveLogout
  <2>1. NetOK'
    BY <1>6, ReceiveType DEF ReceiveLogout
  <2>2. FlagsOK'
    BY <1>6 DEF ReceiveLogout, TypeOK, FlagsOK
  <2>3. ThreadsOK' /\ ClientOK'
    BY <1>6, RaiseType DEF ReceiveLogout, LoginReported
  <2> QED
    BY <1>6, <2>1, <2>2, <2>3, Kept DEF TypeOK, ReceiveLogout
<1>7. CASE ReceiveExpired
  <2>1. NetOK'
    BY <1>7, ReceiveType DEF ReceiveExpired
  <2>2. CASE Enqueue("GetNextExpired", 0) /\ UNCHANGED <<rd, event, owed, view>>
    <3>1. queue' \in Seq(Entries)
      BY <2>2, EnqueueType DEF EntryTypes, RequestTypes
    <3>2. ThreadsOK' /\ ClientOK'
      BY <1>7, <2>2, ZenonT(40) DEF ReceiveExpired, TypeOK, ThreadsOK, ClientOK
    <3> QED
      BY <1>7, <2>1, <3>1, <3>2, Kept DEF TypeOK, ReceiveExpired
  <2>3. CASE Raise("GetNextExpired", TRUE, "handler") /\ UNCHANGED queue
    <3>1. ThreadsOK' /\ ClientOK'
      BY <1>7, <2>3, RaiseType DEF ReceiveExpired, RequestTypes
    <3> QED
      BY <1>7, <2>1, <2>3, <3>1, Kept DEF TypeOK, ReceiveExpired
  <2> QED
    BY <1>7, <2>2, <2>3 DEF ReceiveExpired
<1>8. CASE ReceiveOther
  <2>1. NetOK' /\ Head(toClient).type \in RequestTypes
    BY <1>8, ReceiveType DEF ReceiveOther, Receive
  <2>2. ThreadsOK' /\ ClientOK'
    BY <1>8, <2>1, RaiseType DEF ReceiveOther
  <2> QED
    BY <1>8, <2>1, <2>2, Kept DEF TypeOK, ReceiveOther
<1>9. CASE HandlersReturn
  <2>1. ThreadsOK'
    BY <1>9 DEF HandlersReturn, NoEvent, TypeOK, ThreadsOK
  <2> QED
    BY <1>9, <2>1, Kept DEF TypeOK, HandlersReturn
<1> QED
  BY <1>1, <1>2, <1>3, <1>4, <1>5, <1>6, <1>7, <1>8, <1>9 DEF Reading

LEMMA ServerType ==
  ASSUME TypeOK, ServerAnswers \/ ServerPushes PROVE TypeOK'
<1>1. CASE ServerAnswers
  <2>1. /\ Head(toServer) \in Entries /\ Tail(toServer) \in Seq(Entries)
        /\ toServer' = Tail(toServer)
    BY <1>1, HeadTailProperties DEF ServerAnswers, TypeOK, NetOK
  <2>2. PICK reply \in Answers(Head(toServer)) :
          toClient' = Append(toClient, [type |-> Head(toServer).type, reply |-> reply,
                                        spot |-> Head(toServer).spot])
    BY <1>1 DEF ServerAnswers
  <2>3. reply \in Replies
    BY SessionAssumption DEF Answers, Replies
  <2>4. [type |-> Head(toServer).type, reply |-> reply, spot |-> Head(toServer).spot]
          \in Packets
    BY <2>1, <2>3 DEF Entries, Packets
  <2>5. toClient' \in Seq(Packets)
    BY <2>2, <2>4, AppendProperties DEF TypeOK, NetOK
  <2>6. server' \in {"none", "new", "in", "denied", "out"}
    BY <1>1 DEF ServerAnswers, TypeOK, NetOK
  <2>7. extras' \in Nat /\ sockets' = sockets
    BY <1>1 DEF ServerAnswers, TypeOK, NetOK
  <2>8. NetOK'
    BY <2>1, <2>5, <2>6, <2>7 DEF TypeOK, NetOK
  <2> QED
    BY <1>1, <2>8, Kept DEF TypeOK, ServerAnswers
<1>2. CASE ServerPushes
  <2>1. PICK id \in 1 .. spots :
          toClient' = Append(toClient, [type |-> "GetParkingStatus",
                                        reply |-> "Success", spot |-> id])
    BY <1>2 DEF ServerPushes
  <2>2. [type |-> "GetParkingStatus", reply |-> "Success", spot |-> id] \in Packets
    BY <2>1 DEF Packets, Replies, TypeOK, StoreOK
  <2>3. toClient' \in Seq(Packets)
    BY <2>1, <2>2, AppendProperties DEF TypeOK, NetOK
  <2>4. NetOK'
    BY <1>2, <2>3 DEF ServerPushes, TypeOK, NetOK
  <2> QED
    BY <1>2, <2>4, Kept DEF TypeOK, ServerPushes
<1> QED
  BY <1>1, <1>2

(* Every variable keeps its type, whatever the client, the server and the  *)
(* unset flags do.                                                         *)
THEOREM TypeCorrect == Spec => []TypeOK
<1>1. Init => TypeOK
  <2> SUFFICES ASSUME Init PROVE TypeOK
    OBVIOUS
  <2>1. FlagsOK /\ StoreOK
    BY SessionAssumption DEF Init, FlagsOK, StoreOK
  <2>2. ThreadsOK /\ CallersOK
    BY DEF Init, ThreadsOK, CallersOK, NoEvent, Replies, Labels
  <2>3. NetOK /\ ClientOK /\ queue \in Seq(Entries)
    BY EmptySeq DEF Init, NetOK, ClientOK, Views
  <2> QED
    BY <2>1, <2>2, <2>3 DEF TypeOK, Init
<1>2. TypeOK /\ [Next]_vars => TypeOK'
  <2>1. ASSUME TypeOK, Next PROVE TypeOK'
    <3>1. CASE ThreadThrows
      BY <2>1, <3>1, EndsType DEF ThreadThrows
    <3> QED
      BY <2>1, <3>1, CallerType, WriterType, ReadingType, ServerType DEF Next
  <2>2. ASSUME TypeOK, UNCHANGED vars PROVE TypeOK'
    BY <2>2, Kept DEF TypeOK, vars
  <2> QED
    BY <2>1, <2>2
<1> QED
  BY <1>1, <1>2, PTL DEF Spec

-----------------------------------------------------------------------------
(* One session at a time, for a client that calls from one thread and      *)
(* whose handlers neither log in nor clean up.                             *)

SingleClient ==
  /\ \A a, b \in Apps : a = b
  /\ HandlerMay["Login"] = {} /\ HandlerMay["Cleanup"] = {}

Starting == {"login.clear", "login.connect", "login.enqueue", "login.spawn"}
HandlerLabels ==
  {"idle", "ended",
   "logout.connected", "logout.connecting", "logout.disconnecting",
   "logout.claim", "logout.enqueue", "logout.refused",
   "request.connected", "request.disconnecting", "request.enqueue",
   "request.refused",
   "set.connected", "set.connecting", "set.apply", "set.refused"}

(* How the positions of the caller, the writing and the reading thread     *)
(* depend on each other: the writing thread has one reading thread, which  *)
(* it joins before its last stores; m_WritingThread points to it from the  *)
(* return of Login until a join; handlers never stand in Login or ~Model.  *)
Lifecycle ==
  /\ wr \in {"off", "start"} <=> rd = "off"
  /\ wr \in {"connected", "disconnecting", "done"} => rd = "exited"
  /\ pc[Reader] \in HandlerLabels /\ by[Reader] # "cleanup"
  /\ \A a \in Apps : pc[a] \in Starting => wr = "off"
  /\ \A a \in Apps : pc[a] # "login.assign" /\ writingThread # "live" => wr = "off"

(* A caller that moves, outside the steps that start or join a thread.     *)
LEMMA MoveLifecycle ==
  ASSUME TypeOK, Lifecycle, NEW t \in Callers, NEW label \in Labels, Goto(t, label),
         UNCHANGED <<wr, rd, writingThread>>,
         pc[t] # "login.assign",
         label \in Starting => wr = "off",
         t = Reader => label \in HandlerLabels,
         by'[Reader] # "cleanup"
  PROVE  Lifecycle'
<1>1. pc' = [pc EXCEPT ![t] = label] /\ Reader \in Callers /\ Apps \subseteq Callers
  BY DEF Goto, Callers
<1>2. pc'[Reader] \in HandlerLabels
  BY <1>1 DEF TypeOK, CallersOK, Lifecycle
<1>3. ASSUME NEW a \in Apps
      PROVE  /\ pc'[a] \in Starting => wr = "off"
             /\ pc'[a] # "login.assign" /\ writingThread # "live" => wr = "off"
  BY <1>1 DEF TypeOK, CallersOK, Lifecycle
<1> QED
  BY <1>2, <1>3 DEF Lifecycle

LEMMA BranchLifecycle ==
  ASSUME TypeOK, Lifecycle, NEW t \in Callers, NEW from \in Labels \ {"login.assign"},
         NEW flag, NEW yes \in Labels \ Starting, NEW no \in Labels \ Starting,
         from \in HandlerLabels => {yes, no} \subseteq HandlerLabels,
         Branch(t, from, flag, yes, no)
  PROVE  Lifecycle'
<1> DEFINE label == IF flag THEN yes ELSE no
<1>1. Goto(t, label) /\ pc[t] = from /\ UNCHANGED <<threads, by>>
  BY DEF Branch
<1>2. label \in Labels \ Starting
  OBVIOUS
<1>3. t = Reader => label \in HandlerLabels
  BY <1>1 DEF Lifecycle
<1> HIDE DEF label
<1> QED
  BY <1>1, <1>2, <1>3, MoveLifecycle DEF Lifecycle, threads

(* Nothing that Lifecycle speaks of has moved.                             *)
LEMMA StillLifecycle ==
  ASSUME Lifecycle, UNCHANGED <<wr, rd, writingThread, pc, by>> PROVE Lifecycle'
BY DEF Lifecycle

LEMMA EndsLifecycle == ASSUME Lifecycle, NEW why, ProcessEnds(why) PROVE Lifecycle'
BY DEF Lifecycle, ProcessEnds, HandlerLabels, Starting, Callers

LEMMA JoinLifecycle ==
  ASSUME TypeOK, SingleClient, Lifecycle, NEW t \in Callers,
         \/ Join(t, "login.join", "login.clear")
         \/ Join(t, "cleanup.join", "idle")
  PROVE  Lifecycle'
<1>1. PICK next \in {"login.clear", "idle"} : Goto(t, next)
  BY DEF Join
<1>2. /\ pc[t] \in {"login.join", "cleanup.join"} /\ UNCHANGED by
      /\ \/ writingThread = "null" /\ UNCHANGED <<writingThread, wr, rd>>
         \/ /\ writingThread = "live" /\ wr = "done"
            /\ writingThread' = "deleted" /\ wr' = "off" /\ rd' = "off"
  BY DEF Join
<1>3. t \in Apps /\ t # Reader
  BY <1>2, SessionAssumption DEF Lifecycle, HandlerLabels, Callers
<1>4. wr' = "off" /\ rd' = "off"
  BY <1>2, <1>3 DEF Lifecycle
<1>5. pc'[Reader] = pc[Reader]
  BY <1>1, <1>3 DEF Goto, TypeOK, CallersOK, Callers
<1> QED
  BY <1>2, <1>4, <1>5 DEF Lifecycle

LEMMA CallLifecycle ==
  ASSUME TypeOK, SingleClient, Lifecycle, NEW t \in Callers, Call(t)
  PROVE  Lifecycle'
<1>1. ASSUME NEW method, NEW first \in Labels \ Starting, Begin(t, method, first),
             t = Reader => first \in HandlerLabels
      PROVE  Lifecycle'
  <2>1. Goto(t, first) /\ pc[t] = "idle" /\ UNCHANGED <<threads, by>>
    BY <1>1 DEF Begin
  <2> QED
    BY <1>1, <2>1, MoveLifecycle DEF Lifecycle, threads
<1>2. ASSUME t = Reader
      PROVE  /\ ~Begin(t, "Login", "login.connecting")
             /\ ~Begin(t, "Cleanup", "cleanup.connected")
  BY <1>2 DEF Begin, SingleClient
<1>3. /\ {"login.connecting", "cleanup.connected"} \subseteq Labels \ Starting
      /\ {"logout.connected", "request.connected", "set.connected"}
           \subseteq (Labels \ Starting) \cap HandlerLabels
  BY DEF Labels, Starting, HandlerLabels
<1> QED
  BY <1>1, <1>2, <1>3 DEF Call

LEMMA LoginLifecycle ==
  ASSUME TypeOK, SingleClient, Lifecycle, NEW t \in Callers, Login(t)
  PROVE  Lifecycle'
<1>1. CASE LoginGuard(t)
  BY <1>1, BranchLifecycle DEF LoginGuard, Labels, Starting, HandlerLabels
<1>2. CASE Join(t, "login.join", "login.clear")
  BY <1>2, JoinLifecycle
<1>3. CASE \/ LoginBadArguments(t) \/ LoginClaim(t) \/ LoginClear(t) \/ Connect(t)
           \/ ConnectThrows(t) \/ LoginEnqueue(t) \/ LoginSpawn(t) \/ LoginAssign(t)
  <2>1. /\ UNCHANGED by
        /\ pc[t] \in Starting \cup {"login.claim", "login.assign"}
    BY <1>3
    DEF LoginBadArguments, LoginClaim, LoginClear, Connect, ConnectThrows,
        LoginEnqueue, LoginSpawn, LoginAssign, Starting
  <2>2. t \in Apps /\ t # Reader
    BY <2>1, SessionAssumption DEF Lifecycle, HandlerLabels, Callers, Starting
  <2>3. CASE \/ LoginBadArguments(t) \/ LoginClaim(t) \/ LoginClear(t) \/ Connect(t)
             \/ ConnectThrows(t) \/ LoginEnqueue(t)
    <3>1. PICK label \in Labels :
            /\ Goto(t, label)
            /\ label \in Starting => pc[t] \in Starting
      BY <2>3
      DEF LoginBadArguments, LoginClaim, LoginClear, Connect, ConnectThrows,
          LoginEnqueue, Starting, Labels
    <3>2. UNCHANGED <<wr, rd, writingThread>> /\ pc[t] # "login.assign"
      BY <2>3
      DEF LoginBadArguments, LoginClaim, LoginClear, Connect, ConnectThrows,
          LoginEnqueue, threads
    <3>3. label \in Starting => wr = "off"
      BY <3>1, <2>2 DEF Lifecycle
    <3> QED
      BY <2>1, <2>2, <3>1, <3>2, <3>3, MoveLifecycle DEF Lifecycle
  <2>4. CASE LoginSpawn(t)
    <3>1. wr = "off" /\ rd = "off"
      BY <2>2, <2>4 DEF LoginSpawn, Lifecycle, Starting
    <3>2. wr' = "start" /\ rd' = "off" /\ pc'[t] = "login.assign" /\ pc'[Reader] = pc[Reader]
      BY <2>2, <2>4, <3>1 DEF LoginSpawn, Goto, TypeOK, CallersOK, Callers
    <3> QED
      BY <2>1, <2>2, <3>2 DEF Lifecycle, SingleClient, Starting
  <2>5. CASE LoginAssign(t)
    <3>1. /\ writingThread' = "live" /\ UNCHANGED <<wr, rd>>
          /\ pc'[t] = "idle" /\ pc'[Reader] = pc[Reader]
      BY <2>2, <2>5 DEF LoginAssign, Goto, TypeOK, CallersOK, Callers
    <3> QED
      BY <2>1, <2>2, <3>1 DEF Lifecycle, SingleClient, Starting
  <2> QED
    BY <1>3, <2>3, <2>4, <2>5
<1> QED
  BY <1>1, <1>2, <1>3 DEF Login

LEMMA LogoutLifecycle ==
  ASSUME TypeOK, Lifecycle, NEW t \in Callers, Logout(t) \/ Refuse(t)
  PROVE  Lifecycle'
<1>1. CASE LogoutGuard(t)
  BY <1>1, BranchLifecycle DEF LogoutGuard, Labels, Starting, HandlerLabels
<1>2. CASE LogoutClaim(t)
  <2>1. /\ Goto(t, "logout.enqueue") /\ pc[t] = "logout.claim"
        /\ UNCHANGED <<threads, by>>
    BY <1>2 DEF LogoutClaim
  <2> QED
    BY <2>1, MoveLifecycle DEF Labels, Starting, HandlerLabels, Lifecycle, threads
<1>3. CASE LogoutEnqueue(t) \/ Refuse(t)
  <2>1. PICK label \in {"idle", "cleanup.join"} :
          Goto(t, label) /\ (label = "cleanup.join" => by[t] = "cleanup")
    BY <1>3 DEF LogoutEnqueue, Refuse
  <2>2. /\ pc[t] # "login.assign" /\ UNCHANGED <<wr, rd, writingThread>>
        /\ by' = [by EXCEPT ![t] = "client"]
    BY <1>3 DEF LogoutEnqueue, Refuse, Refusals, threads
  <2>3. by'[Reader] # "cleanup"
    BY <2>2 DEF TypeOK, CallersOK, Lifecycle, Callers
  <2>4. t = Reader => label \in HandlerLabels
    BY <2>1 DEF Lifecycle, HandlerLabels
  <2> QED
    BY <2>1, <2>2, <2>3, <2>4, MoveLifecycle DEF Labels, Starting
<1> QED
  BY <1>1, <1>2, <1>3 DEF Logout

LEMMA RequestLifecycle ==
  ASSUME TypeOK, Lifecycle, NEW t \in Callers, Request(t) \/ Set(t)
  PROVE  Lifecycle'
<1>1. CASE RequestGuard(t) \/ SetGuard(t)
  BY <1>1, BranchLifecycle
  DEF RequestGuard, SetGuard, Labels, Starting, HandlerLabels
<1>2. CASE RequestEnqueue(t) \/ RequestBadArguments(t) \/ SetApply(t)
  <2>1. Goto(t, "idle") /\ pc[t] # "login.assign" /\ UNCHANGED <<threads, by>>
    BY <1>2 DEF RequestEnqueue, RequestBadArguments, SetApply
  <2> QED
    BY <2>1, MoveLifecycle DEF Labels, Starting, HandlerLabels, Lifecycle, threads
<1> QED
  BY <1>1, <1>2 DEF Request, Set

LEMMA CleanupLifecycle ==
  ASSUME TypeOK, SingleClient, Lifecycle, NEW t \in Callers, Cleanup(t)
  PROVE  Lifecycle'
<1>1. CASE CleanupGuard(t)
  BY <1>1, BranchLifecycle DEF CleanupGuard, Labels, Starting, HandlerLabels
<1>2. CASE CleanupLogout(t)
  <2>1. /\ Goto(t, "logout.connected") /\ pc[t] = "cleanup.logout"
        /\ by' = [by EXCEPT ![t] = "cleanup"] /\ UNCHANGED threads
    BY <1>2 DEF CleanupLogout
  <2>2. t # Reader
    BY <2>1 DEF Lifecycle, HandlerLabels
  <2>3. by'[Reader] # "cleanup"
    BY <2>1, <2>2 DEF TypeOK, CallersOK, Lifecycle, Callers
  <2> QED
    BY <2>1, <2>2, <2>3, MoveLifecycle DEF Labels, Starting, threads
<1>3. CASE Join(t, "cleanup.join", "idle")
  BY <1>3, JoinLifecycle
<1> QED
  BY <1>1, <1>2, <1>3 DEF Cleanup

LEMMA WriterLifecycle == ASSUME Lifecycle, Writer PROVE Lifecycle'
<1>1. /\ wr # "off" /\ wr' # "off" /\ UNCHANGED <<pc, by, writingThread>>
      /\ wr' \in {"off", "start"} <=> rd' = "off"
      /\ wr' \in {"connected", "disconnecting", "done"} => rd' = "exited"
  BY DEF Writer, WriterStart, WriterSend, WriterJoin, WriterClearConnected,
         WriterClearDisconnecting, Lifecycle
<1> QED
  BY <1>1 DEF Lifecycle

LEMMA ReadingLifecycle == ASSUME TypeOK, Lifecycle, Reading PROVE Lifecycle'
<1>1. rd \notin {"off", "exited"} /\ rd' # "off" /\ UNCHANGED <<wr, writingThread>>
  BY DEF Reading, ReceiveLogin, Poll, ReceiveStatus, PublishConnected,
         PublishLoggedIn, ReceiveLogout, ReceiveExpired, ReceiveOther,
         HandlersReturn, Receive, Raise
<1>2. CASE UNCHANGED <<pc, by>>
  BY <1>1, <1>2 DEF Lifecycle
<1>3. CASE ReceiveLogin
  <2>1. CASE UNCHANGED <<pc, by>>
    BY <1>1, <2>1 DEF Lifecycle
  <2>2. CASE Goto(Reader, "logout.connected") /\ by' = [by EXCEPT ![Reader] = "handler"]
    <3>1. /\ pc'[Reader] = "logout.connected" /\ by'[Reader] = "handler"
          /\ \A a \in Apps : pc'[a] = pc[a]
      BY <2>2, SessionAssumption DEF Goto, TypeOK, CallersOK, Callers
    <3> QED
      BY <1>1, <3>1 DEF Lifecycle, HandlerLabels
  <2> QED
    BY <1>3, <2>1, <2>2 DEF ReceiveLogin
<1> QED
  BY <1>2, <1>3
  DEF Reading, Poll, ReceiveStatus, PublishConnected, PublishLoggedIn,
      ReceiveLogout, ReceiveExpired, ReceiveOther, HandlersReturn

LEMMA LifecycleInvariant == ASSUME SingleClient PROVE Spec => []Lifecycle
<1>1. Init => Lifecycle
  BY SessionAssumption DEF Init, Lifecycle, Callers, HandlerLabels
<1>2. TypeOK /\ Lifecycle /\ [Next]_vars => Lifecycle'
  <2>1. ASSUME TypeOK, Lifecycle, Next PROVE Lifecycle'
    <3>1. ASSUME NEW t \in Callers, Call(t) \/ Continue(t) PROVE Lifecycle'
      <4>1. CASE JoinDeleted(t)
        BY <2>1, <4>1, EndsLifecycle DEF JoinDeleted
      <4> QED
        BY <2>1, <3>1, <4>1, CallLifecycle, LoginLifecycle, LogoutLifecycle,
           RequestLifecycle, CleanupLifecycle DEF Continue
    <3>2. CASE ThreadThrows
      BY <2>1, <3>2, EndsLifecycle DEF ThreadThrows
    <3>3. CASE ServerAnswers \/ ServerPushes
      BY <2>1, <3>3, StillLifecycle DEF ServerAnswers, ServerPushes, threads
    <3> QED
      BY <2>1, <3>1, <3>2, <3>3, WriterLifecycle, ReadingLifecycle DEF Next
  <2>2. ASSUME Lifecycle, UNCHANGED vars PROVE Lifecycle'
    BY <2>2, StillLifecycle DEF vars, threads
  <2> QED
    BY <2>1, <2>2
<1> QED
  BY <1>1, <1>2, TypeCorrect, PTL DEF Spec

(* Login never starts a session while a thread of an earlier one runs.     *)
THEOREM OneSessionAtATime == ASSUME SingleClient PROVE Spec => []OneSession
<1>1. Lifecycle => OneSession
  BY DEF Lifecycle, OneSession, Starting, HandlerLabels, Callers
<1> QED
  BY <1>1, LifecycleInvariant, PTL

-----------------------------------------------------------------------------
(* Requests of a session are sent in that session or never.                *)

Tagged(entries) == \A i \in DOMAIN entries : entries[i].session = session
Wired == {"login.enqueue", "login.spawn"}

(* The queue holds requests of this session only, and so does the wire     *)
(* from the connect of this session on.                                    *)
OwnRequests ==
  /\ Tagged(queue)
  /\ wr # "off" => Tagged(toServer)
  /\ \A a \in Apps : pc[a] \in Wired => Tagged(toServer)

LEMMA EnqueueTagged ==
  ASSUME TypeOK, Tagged(queue), NEW type \in EntryTypes, NEW spot \in Nat,
         Enqueue(type, spot), UNCHANGED session
  PROVE  Tagged(queue)'
<1> DEFINE entry == [type |-> type, spot |-> spot, session |-> session]
<1>1. queue' = Append(queue, entry) /\ queue \in Seq(Entries) /\ entry \in Entries
  BY DEF Enqueue, TypeOK, ClientOK, Entries, EntryTypes
<1>2. entry.session = session
  OBVIOUS
<1> HIDE DEF entry
<1>3. ASSUME NEW i \in DOMAIN queue' PROVE queue'[i].session = session
  <2>1. CASE i \in DOMAIN queue
    BY <1>1, <2>1, AppendProperties DEF Tagged
  <2>2. CASE i \notin DOMAIN queue
    BY <1>1, <1>2, <1>3, <2>2, AppendProperties
  <2> QED
    BY <2>1, <2>2
<1> QED
  BY <1>3 DEF Tagged

LEMMA TailTagged ==
  ASSUME NEW entries \in Seq(Entries), entries # <<>>, Tagged(entries)
  PROVE  Tagged(Tail(entries)) /\ Head(entries).session = session
<1>1. \A i \in DOMAIN Tail(entries) :
        i + 1 \in DOMAIN entries /\ Tail(entries)[i] = entries[i + 1]
  BY HeadTailProperties
<1>2. 1 \in DOMAIN entries /\ Head(entries) = entries[1]
  BY HeadTailProperties
<1> QED
  BY <1>1, <1>2 DEF Tagged

(* A step that neither starts the thread nor connects nor counts a session *)
(* and at most puts a request into the queue.                              *)
LEMMA QuietOwn ==
  ASSUME TypeOK, OwnRequests, UNCHANGED <<toServer, session>>,
         wr' # "off" => wr # "off",
         \A a \in Apps : pc'[a] \in Wired => pc[a] \in Wired,
         Tagged(queue)'
  PROVE  OwnRequests'
BY DEF OwnRequests, Tagged

LEMMA EndsOwn == ASSUME OwnRequests, NEW why, ProcessEnds(why) PROVE OwnRequests'
BY DEF ProcessEnds, OwnRequests, Tagged, client

LEMMA CallerOwn ==
  ASSUME TypeOK, SingleClient, Lifecycle, OwnRequests,
         NEW t \in Callers, Call(t) \/ Continue(t)
  PROVE  OwnRequests'
<1> DEFINE Moves == \E label \in Labels \ Wired : Goto(t, label)
<1>1. Moves => \A a \in Apps : pc'[a] \in Wired => pc[a] \in Wired
  BY DEF Goto, TypeOK, CallersOK, Callers
<1>2. CASE Moves /\ UNCHANGED <<toServer, session, queue>> /\ (wr' = "off" \/ wr' = wr)
  BY <1>1, <1>2, QuietOwn DEF OwnRequests, Tagged
<1>3. CASE LoginClear(t)
  <2>1. queue' = <<>> /\ pc[t] = "login.clear" /\ pc'= [pc EXCEPT ![t] = "login.connect"]
        /\ wr' = wr
    BY <1>3 DEF LoginClear, Goto, threads
  <2>2. t \in Apps
    BY <2>1 DEF Lifecycle, HandlerLabels, Callers
  <2>3. wr' = "off" /\ \A a \in Apps : pc'[a] = "login.connect"
    BY <2>1, <2>2 DEF Lifecycle, Starting, SingleClient, TypeOK, CallersOK
  <2> QED
    BY <2>1, <2>3 DEF OwnRequests, Tagged, Wired
<1>4. CASE Connect(t)
  <2>1. toServer' = <<>> /\ UNCHANGED <<queue, session>>
    BY <1>4 DEF Connect, client
  <2> QED
    BY <2>1 DEF OwnRequests, Tagged
<1>5. CASE LoginEnqueue(t)
  <2>1. Tagged(queue)'
    BY <1>5, EnqueueTagged DEF LoginEnqueue, OwnRequests, EntryTypes
  <2>2. \A a \in Apps : pc'[a] \in Wired => pc[a] \in Wired
    BY <1>5 DEF LoginEnqueue, Goto, TypeOK, CallersOK, Callers, Wired
  <2> QED
    BY <1>5, <2>1, <2>2, QuietOwn DEF LoginEnqueue, threads, net
<1>6. CASE LoginSpawn(t)
  <2>1. pc[t] = "login.spawn" /\ UNCHANGED <<toServer, queue, session>> /\ Goto(t, "login.assign")
    BY <1>6 DEF LoginSpawn, net, client
  <2>2. t \in Apps
    BY <2>1 DEF Lifecycle, HandlerLabels, Callers
  <2>3. Tagged(toServer)
    BY <2>1, <2>2 DEF OwnRequests, Wired
  <2> QED
    BY <2>1, <2>3 DEF OwnRequests, Tagged
<1>7. CASE LogoutEnqueue(t) \/ RequestEnqueue(t)
  <2>1. PICK type \in EntryTypes : Enqueue(type, 0)
    BY <1>7, SessionAssumption DEF LogoutEnqueue, RequestEnqueue, EntryTypes
  <2>2. UNCHANGED <<toServer, session, wr>>
    BY <1>7 DEF LogoutEnqueue, RequestEnqueue, net, threads
  <2>3. Tagged(queue)'
    BY <2>1, <2>2, EnqueueTagged DEF OwnRequests
  <2>4. Moves
    BY <1>7 DEF LogoutEnqueue, RequestEnqueue, Labels, Wired
  <2> QED
    BY <1>1, <2>2, <2>3, <2>4, QuietOwn
<1>8. CASE JoinDeleted(t)
  BY <1>8, EndsOwn DEF JoinDeleted
<1>9. ASSUME NEW from, NEW flag, NEW yes \in Labels \ Wired, NEW no \in Labels \ Wired,
             Branch(t, from, flag, yes, no)
      PROVE  OwnRequests'
  BY <1>2, <1>9 DEF Branch, threads, net, client
<1>10. CASE LoginGuard(t) \/ LogoutGuard(t)
  BY <1>9, <1>10 DEF LoginGuard, LogoutGuard, Labels, Wired
<1>11. CASE RequestGuard(t) \/ SetGuard(t) \/ CleanupGuard(t)
  BY <1>9, <1>11 DEF RequestGuard, SetGuard, CleanupGuard, Labels, Wired
<1>12. ASSUME NEW method, NEW first \in Labels \ Wired, Begin(t, method, first)
       PROVE  OwnRequests'
  BY <1>2, <1>12 DEF Begin, threads, net
<1>13. CASE Call(t)
  BY <1>12, <1>13 DEF Call, Labels, Wired
<1>14. CASE Refuse(t) \/ LoginBadArguments(t) \/ LoginClaim(t) \/ LogoutClaim(t)
            \/ RequestBadArguments(t)
  <2>1. Moves
    BY <1>14 DEF Refuse, LoginBadArguments, LoginClaim, LogoutClaim,
                 RequestBadArguments, Labels, Wired
  <2>2. UNCHANGED <<toServer, session, queue, wr>>
    BY <1>14 DEF Refuse, LoginBadArguments, LoginClaim, LogoutClaim,
                 RequestBadArguments, net, client, threads
  <2> QED
    BY <1>2, <2>1, <2>2
<1>15. CASE SetApply(t) \/ CleanupLogout(t) \/ ConnectThrows(t)
  <2>1. Moves
    BY <1>15 DEF SetApply, CleanupLogout, ConnectThrows, Labels, Wired
  <2>2. UNCHANGED <<toServer, session, queue, wr>>
    BY <1>15 DEF SetApply, CleanupLogout, ConnectThrows, net, client, threads
  <2> QED
    BY <1>2, <2>1, <2>2
<1>16. CASE LoginAssign(t)
  BY <1>2, <1>16 DEF LoginAssign, net, client, Labels, Wired
<1>17. CASE Join(t, "login.join", "login.clear") \/ Join(t, "cleanup.join", "idle")
  <2>1. Moves
    BY <1>17 DEF Join, Labels, Wired
  <2>2. UNCHANGED <<toServer, session, queue>> /\ (wr' = "off" \/ wr' = wr)
    BY <1>17 DEF Join, net, client
  <2> QED
    BY <1>2, <2>1, <2>2
<1> QED
  BY <1>3, <1>4, <1>5, <1>6, <1>7, <1>8, <1>10, <1>11, <1>13, <1>14, <1>15, <1>16,
     <1>17
  DEF Continue, Login, Logout, Request, Set, Cleanup

LEMMA WriterOwn == ASSUME TypeOK, OwnRequests, Writer PROVE OwnRequests'
<1>1. CASE WriterSend
  <2>1. /\ queue # <<>> /\ queue' = Tail(queue) /\ wr # "off"
        /\ toServer' = Append(toServer, Head(queue))
        /\ UNCHANGED <<session, pc>>
    BY <1>1 DEF WriterSend, client
  <2>2. queue \in Seq(Entries) /\ toServer \in Seq(Entries) /\ Head(queue) \in Entries
    BY <2>1, HeadTailProperties DEF TypeOK, NetOK
  <2>3. Tagged(queue)' /\ Head(queue).session = session
    BY <2>1, <2>2, TailTagged DEF OwnRequests, Tagged
  <2>4. ASSUME NEW i \in DOMAIN toServer' PROVE toServer'[i].session = session
    <3>1. CASE i \in DOMAIN toServer
      BY <2>1, <2>2, <3>1, AppendProperties DEF OwnRequests, Tagged
    <3>2. CASE i \notin DOMAIN toServer
      BY <2>1, <2>2, <2>3, <2>4, <3>2, AppendProperties
    <3> QED
      BY <3>1, <3>2
  <2> QED
    BY <2>1, <2>3, <2>4 DEF OwnRequests, Tagged
<1>2. CASE ~WriterSend
  <2>1. wr # "off" /\ UNCHANGED <<queue, toServer, session, pc>>
    BY <1>2
    DEF Writer, WriterStart, WriterJoin, WriterClearConnected,
        WriterClearDisconnecting, net, client
  <2> QED
    BY <2>1 DEF OwnRequests, Tagged
<1> QED
  BY <1>1, <1>2

LEMMA ReadingOwn == ASSUME TypeOK, OwnRequests, Reading PROVE OwnRequests'
<1>1. UNCHANGED <<toServer, session, wr>>
  BY DEF Reading, ReceiveLogin, Poll, ReceiveStatus, PublishConnected,
         PublishLoggedIn, ReceiveLogout, ReceiveExpired, ReceiveOther,
         HandlersReturn, net, client
<1>2. \A a \in Apps : pc'[a] \in Wired => pc[a] \in Wired
  BY DEF Reading, ReceiveLogin, Poll, ReceiveStatus, PublishConnected,
         PublishLoggedIn, ReceiveLogout, ReceiveExpired, ReceiveOther,
         HandlersReturn, Goto, TypeOK, CallersOK, Callers, Wired
<1>3. \/ UNCHANGED queue
      \/ \E type \in EntryTypes : \E spot \in Nat : Enqueue(type, spot)
  <2>1. CASE Poll
    <3>1. nextSpot \in Nat /\ (UNCHANGED queue \/ Enqueue("GetParkingStatus", nextSpot))
      BY <2>1 DEF Poll, TypeOK, ThreadsOK
    <3> QED
      BY <3>1 DEF EntryTypes
  <2>2. CASE ReceiveExpired
    <3>1. UNCHANGED queue \/ Enqueue("GetNextExpired", 0)
      BY <2>2 DEF ReceiveExpired
    <3> QED
      BY <3>1 DEF EntryTypes, RequestTypes
  <2> QED
    BY <2>1, <2>2
    DEF Reading, ReceiveLogin, ReceiveStatus, PublishConnected, PublishLoggedIn,
        ReceiveLogout, ReceiveOther, HandlersReturn
<1>4. Tagged(queue)'
  BY <1>1, <1>3, EnqueueTagged DEF OwnRequests, Tagged
<1> QED
  BY <1>1, <1>2, <1>4, QuietOwn

LEMMA OtherOwn ==
  ASSUME TypeOK, OwnRequests, ServerAnswers \/ ServerPushes \/ ThreadThrows
  PROVE  OwnRequests'
<1>1. CASE ServerAnswers
  <2>1. /\ toServer # <<>> /\ toServer \in Seq(Entries) /\ toServer' = Tail(toServer)
        /\ UNCHANGED <<queue, wr, pc, session>>
    BY <1>1 DEF ServerAnswers, threads, client, TypeOK, NetOK
  <2>2. Tagged(toServer) => Tagged(toServer)'
    BY <2>1, TailTagged DEF Tagged
  <2> QED
    BY <2>1, <2>2 DEF OwnRequests, Tagged
<1>2. CASE ServerPushes
  BY <1>2 DEF ServerPushes, threads, client, OwnRequests, Tagged
<1>3. CASE ThreadThrows
  BY <1>3, EndsOwn DEF ThreadThrows
<1> QED
  BY <1>1, <1>2, <1>3

(* What is queued or sent while a writing thread runs was requested in its *)
(* own session: no request survives into the next Login.                   *)
THEOREM NoRequestSurvives == ASSUME SingleClient PROVE Spec => []NoStaleRequest
<1>1. Init => OwnRequests
  BY DEF Init, OwnRequests, Tagged, Wired, Callers
<1>2. TypeOK /\ Lifecycle /\ OwnRequests /\ [Next]_vars => OwnRequests'
  <2>1. ASSUME TypeOK, Lifecycle, OwnRequests, Next PROVE OwnRequests'
    BY <2>1, CallerOwn, WriterOwn, ReadingOwn, OtherOwn DEF Next
  <2>2. ASSUME OwnRequests, UNCHANGED vars PROVE OwnRequests'
    BY <2>2 DEF vars, threads, net, client, OwnRequests, Tagged
  <2> QED
    BY <2>1, <2>2
<1>3. OwnRequests => NoStaleRequest
  BY DEF OwnRequests, NoStaleRequest, Tagged
<1> QED
  BY <1>1, <1>2, <1>3, TypeCorrect, LifecycleInvariant, PTL DEF Spec
================================================================================
