------------------------------- MODULE Session -------------------------------
(***************************************************************************)
(* The session engine of class Model: the three atomic flags, the request  *)
(* queue, the writing and the reading thread that live from a Login to a   *)
(* Logout, the cache of parking spot statuses whose completion ends a      *)
(* login, and the methods that the application's threads and its event     *)
(* handlers (which run on the reading thread) call.                        *)
(*                                                                         *)
(* One step is one access to something that two threads share: a load or a *)
(* store of a flag, an Enqueue, a Dequeue, a join, a message.  A guard     *)
(* such as "m_IsConnected || m_IsConnecting" is therefore several steps,   *)
(* and other threads run between them.                                     *)
(***************************************************************************)
EXTENDS Integers, Sequences

CONSTANTS
  Apps,             \* the application's threads
  Reader,           \* the reading thread, when a handler it runs makes a call
  Requests,         \* types of the requests the application makes
  SpotCounts,       \* arguments of SetNumberOfParkingSpots
  DefaultSpots,     \* DEFAULT_NUMBER_OF_PARKING_SPOTS
  UnsetFlag,        \* values of a std::atomic<bool> no constructor has set
  LoginReplies,     \* the server's answers to a Login
  ConnectFailures,  \* the calls in connectSocket that may fail
  ConnectionFails,  \* may recv() or send() fail, or the peer close early?
  AppMay,           \* what the client has been told (Views) when its threads ...
  HandlerMay,       \* ... and its event handlers call each method
  MaxCalls,         \* bounds the client's calls
  MaxExtras         \* bounds the statuses the server pushes and the expired
                    \* users it reports

Callers == Apps \cup {Reader}
Methods == {"Login", "Logout", "Request", "Set", "Cleanup"}
Views   == {"out", "pending", "in", "leaving", "gone"}
RequestTypes ==
  {"OpenGate", "ChangePW", "ReserveParkingSpot", "AddDriver", "RemoveDriver",
   "CancelReservation", "ChangeExpiration", "GetNextExpired"}
\* Replies a ReplyMessage can hold; "InsufficientPriviledge" is the default.
Replies == {"Success", "UsernameNotFound", "WrongPW", "InsufficientPriviledge",
            "DateExpired", "IDNotFound"}

ASSUME SessionAssumption ==
  /\ Reader \notin Apps
  /\ Requests \subseteq RequestTypes
  /\ SpotCounts \subseteq Nat \ {0}
  /\ DefaultSpots \in SpotCounts
  /\ UnsetFlag \subseteq BOOLEAN
  /\ LoginReplies \subseteq Replies
  /\ ConnectFailures \subseteq {"socket", "getaddrinfo", "connect"}
  /\ ConnectionFails \in BOOLEAN
  /\ AppMay \in [Methods -> SUBSET Views]
  /\ HandlerMay \in [Methods -> SUBSET Views]
  /\ MaxCalls \in Nat /\ MaxExtras \in Nat

VARIABLES
  isConnected, isConnecting, isDisconnecting,    \* m_IsConnected, ...
  queue,            \* m_RequestsQueue, oldest request first
  spots,            \* m_NumberOfParkingSpots
  cache,            \* m_CachedStatuses: 0 where m_IsValid is false, otherwise
                    \* the session that reported the status (history)
  writingThread,    \* m_WritingThread: "null", "live", or "deleted" when the
                    \* pointer is left to a deleted thread object
  wr,               \* where the writing thread is
  rd,               \* where the reading thread is
  nextSpot,         \* the loop variable of handleLoginReply
  latestLogin,      \* latestLoginReply.GetReply()
  event,            \* the event whose handlers run, and what it reports
  pc,               \* where each caller is in a method; "idle" outside,
                    \* "ended" when the process has ended
  by,               \* who called Logout: "client", "cleanup", "handler"
  toServer, toClient,  \* the TCP connection's two directions
  server,           \* the server's view of this connection
  sockets,          \* sockets created and not closed
  fault,            \* "terminate": an exception has left a thread function;
                    \* "deleted": a deleted thread object has been used
  session,          \* history: number of the Login that last cleared the queue
  owed,             \* history: calls accepted since the latest Login, itself
                    \* among them, whose event has not been raised
  view,             \* history: what returns and events have told the client
  calls, extras     \* counters for the bounds

flags   == <<isConnected, isConnecting, isDisconnecting>>
store   == <<spots, cache>>
threads == <<writingThread, wr, rd, nextSpot, latestLogin, event>>
net     == <<toServer, toClient, server, sockets, extras>>
client  == <<session, owed, view, calls>>
vars    == <<flags, queue, store, threads, pc, by, net, fault, client>>

EventNames == Requests \cup {"Login", "Logout"}
NoEvent == [name |-> "none", ok |-> FALSE]

(* The constructor sets no flag, and calls SetNumberOfParkingSpots, whose  *)
(* guard reads two of them.                                                *)
Init ==
  /\ isConnected \in UnsetFlag
  /\ isConnecting \in UnsetFlag
  /\ isDisconnecting \in UnsetFlag
  /\ queue = <<>>
  /\ spots = IF isConnected \/ isConnecting THEN 0 ELSE DefaultSpots
  /\ cache = [id \in 1 .. spots |-> 0]
  /\ writingThread = "null" /\ wr = "off" /\ rd = "off"
  /\ nextSpot = 1 /\ latestLogin = "InsufficientPriviledge" /\ event = NoEvent
  /\ pc = [t \in Callers |-> "idle"]
  /\ by = [t \in Callers |-> "client"]
  /\ toServer = <<>> /\ toClient = <<>> /\ server = "none"
  /\ sockets = 0 /\ extras = 0
  /\ fault = "none"
  /\ session = 0 /\ owed = [e \in EventNames |-> 0] /\ view = "out" /\ calls = 0

-----------------------------------------------------------------------------
(* Calls.                                                                  *)

Goto(t, label) == pc' = [pc EXCEPT ![t] = label]

\* Mutant: a queue that serves the newest request first.
EnqueueFirst(type, spot) ==
  queue' = <<[type |-> type, spot |-> spot, session |-> session]>> \o queue
Enqueue(type, spot) ==
  queue' = Append(queue, [type |-> type, spot |-> spot, session |-> session])

(* No thread of the process goes on, and the connection is gone.  (Using a *)
(* deleted object need not end the process: what it does is undefined, and *)
(* the model goes no further.)                                             *)
ProcessEnds(why) ==
  /\ fault' = why
  /\ pc' = [t \in Callers |-> "ended"]
  /\ wr' = "off" /\ rd' = "off"
  /\ toServer' = <<>> /\ toClient' = <<>> /\ server' = "none" /\ sockets' = 0
  /\ UNCHANGED <<flags, queue, store, writingThread, nextSpot, latestLogin, event,
                 by, extras, client>>

(* Caller t, having loaded a flag, takes one of two ways.                  *)
Branch(t, from, flag, yes, no) ==
  /\ pc[t] = from
  /\ Goto(t, IF flag THEN yes ELSE no)
  /\ UNCHANGED <<flags, queue, store, threads, by, net, fault, client>>

(* The client calls a method: from a thread of its own, or from a handler. *)
Begin(t, method, first) ==
  /\ pc[t] = "idle"
  /\ view # "gone"
  /\ calls < MaxCalls
  /\ IF t = Reader
       THEN rd \in {"handler", "last.handler"} /\ view \in HandlerMay[method]
       ELSE view \in AppMay[method]
  /\ Goto(t, first)
  /\ calls' = calls + 1
  /\ view' = IF method = "Cleanup" THEN "gone" ELSE view
  /\ UNCHANGED <<flags, queue, store, threads, by, net, fault, session, owed>>

Call(t) ==
  \/ Begin(t, "Login", "login.connecting")
  \/ Begin(t, "Logout", "logout.connected")
  \/ Begin(t, "Request", "request.connected")
  \/ Begin(t, "Set", "set.connected")
  \/ Begin(t, "Cleanup", "cleanup.connected")

Refusals == {"login.refused", "logout.refused", "request.refused", "set.refused"}

\* A method returns false.
Refuse(t) ==
  /\ pc[t] \in Refusals
  /\ Goto(t, IF pc[t] = "logout.refused" /\ by[t] = "cleanup"
             THEN "cleanup.join" ELSE "idle")
  /\ by' = [by EXCEPT ![t] = "client"]
  /\ UNCHANGED <<flags, queue, store, threads, net, fault, client>>

(* Login.                                                                  *)

LoginGuard(t) ==
  \/ Branch(t, "login.connecting", isConnecting, "login.refused", "login.connected")
  \/ Branch(t, "login.connected", isConnected, "login.disconnecting", "login.claim")
  \/ Branch(t, "login.disconnecting", isDisconnecting, "login.claim", "login.refused")

\* The name or the password is empty: the method returns false.
LoginBadArguments(t) ==
  /\ pc[t] = "login.claim"
  /\ Goto(t, "login.refused")
  /\ UNCHANGED <<flags, queue, store, threads, by, net, fault, client>>

LoginClaim(t) ==
  /\ pc[t] = "login.claim"
  /\ isConnecting' = TRUE
  /\ Goto(t, "login.join")
  /\ UNCHANGED <<isConnected, isDisconnecting, queue, store, threads, by, net,
                 fault, client>>

\* Mutant: the old thread is not joined.
JoinNot(t, from, next) ==
  /\ pc[t] = from
  /\ writingThread' = IF writingThread = "null" THEN "null" ELSE "deleted"
  /\ Goto(t, next)
  /\ UNCHANGED <<flags, queue, store, wr, rd, nextSpot, latestLogin, event, by,
                 net, fault, client>>

\* join() and delete of m_WritingThread, which keeps its value.
Join(t, from, next) ==
  /\ pc[t] = from
  /\ \/ writingThread = "null" /\ UNCHANGED <<writingThread, wr, rd>>
     \/ /\ writingThread = "live" /\ wr = "done"
        /\ writingThread' = "deleted" /\ wr' = "off" /\ rd' = "off"
  /\ Goto(t, next)
  /\ UNCHANGED <<flags, queue, store, nextSpot, latestLogin, event, by, net,
                 fault, client>>

JoinDeleted(t) ==
  /\ pc[t] \in {"login.join", "cleanup.join"}
  /\ writingThread = "deleted"
  /\ ProcessEnds("deleted")

\* Mutant: the queue is not cleared.
LoginClearNot(t) ==
  /\ pc[t] = "login.clear"
  /\ session' = session + 1
  /\ Goto(t, "login.connect")
  /\ UNCHANGED <<flags, queue, store, threads, by, net, fault, owed, view, calls>>

LoginClear(t) ==
  /\ pc[t] = "login.clear"
  /\ queue' = <<>>
  /\ session' = session + 1
  /\ Goto(t, "login.connect")
  /\ UNCHANGED <<flags, store, threads, by, net, fault, owed, view, calls>>

\* connectSocket: a new connection to the server.
Connect(t) ==
  /\ pc[t] = "login.connect"
  /\ sockets' = sockets + 1
  /\ toServer' = <<>> /\ toClient' = <<>> /\ server' = "new"
  /\ Goto(t, "login.enqueue")
  /\ UNCHANGED <<flags, queue, store, threads, by, extras, fault, client>>

\* connectSocket throws; API's Login catches.  A failed getaddrinfo leaves
\* the socket open.
ConnectThrows(t) ==
  /\ pc[t] = "login.connect"
  /\ \E failure \in ConnectFailures :
       sockets' = IF failure = "getaddrinfo" THEN sockets + 1 ELSE sockets
  /\ isConnecting' = FALSE
  /\ Goto(t, "idle")
  /\ UNCHANGED <<isConnected, isDisconnecting, queue, store, threads, by,
                 toServer, toClient, server, extras, fault, client>>

LoginEnqueue(t) ==
  /\ pc[t] = "login.enqueue"
  /\ Enqueue("Login", 0)
  /\ owed' = [e \in EventNames |-> IF e = "Login" THEN 1 ELSE 0]
  /\ view' = IF view = "gone" THEN "gone" ELSE "pending"
  /\ Goto(t, "login.spawn")
  /\ UNCHANGED <<flags, store, threads, by, net, fault, session, calls>>

\* new std::thread: the thread may run before the pointer is assigned.
LoginSpawn(t) ==
  /\ pc[t] = "login.spawn"
  /\ wr' = "start"
  /\ Goto(t, "login.assign")
  /\ UNCHANGED <<flags, queue, store, writingThread, rd, nextSpot, latestLogin,
                 event, by, net, fault, client>>

LoginAssign(t) ==
  /\ pc[t] = "login.assign"
  /\ writingThread' = "live"
  /\ Goto(t, "idle")
  /\ UNCHANGED <<flags, queue, store, wr, rd, nextSpot, latestLogin, event, by,
                 net, fault, client>>

Login(t) ==
  \/ LoginGuard(t) \/ LoginBadArguments(t) \/ LoginClaim(t)
  \/ Join(t, "login.join", "login.clear") \/ LoginClear(t)
  \/ Connect(t) \/ ConnectThrows(t)
  \/ LoginEnqueue(t) \/ LoginSpawn(t) \/ LoginAssign(t)

(* Logout, called by the client, by ~Model or by handleLoginReply.         *)

\* Mutant: the guard does not test m_IsConnected.
LogoutGuardConnecting(t) ==
  \/ Branch(t, "logout.connected", FALSE, "logout.disconnecting", "logout.connecting")
  \/ Branch(t, "logout.connecting", isConnecting, "logout.disconnecting", "logout.refused")
  \/ Branch(t, "logout.disconnecting", isDisconnecting, "logout.refused", "logout.claim")

LogoutGuard(t) ==
  \/ Branch(t, "logout.connected", isConnected, "logout.disconnecting", "logout.connecting")
  \/ Branch(t, "logout.connecting", isConnecting, "logout.disconnecting", "logout.refused")
  \/ Branch(t, "logout.disconnecting", isDisconnecting, "logout.refused", "logout.claim")

LogoutClaim(t) ==
  /\ pc[t] = "logout.claim"
  /\ isDisconnecting' = TRUE
  /\ Goto(t, "logout.enqueue")
  /\ UNCHANGED <<isConnected, isConnecting, queue, store, threads, by, net,
                 fault, client>>

LogoutEnqueue(t) ==
  /\ pc[t] = "logout.enqueue"
  /\ Enqueue("Logout", 0)
  /\ owed' = [owed EXCEPT !["Logout"] = IF by[t] = "handler" THEN @ ELSE @ + 1]
  /\ view' = IF by[t] = "client" /\ view \in {"pending", "in"} THEN "leaving" ELSE view
  /\ Goto(t, IF by[t] = "cleanup" THEN "cleanup.join" ELSE "idle")
  /\ by' = [by EXCEPT ![t] = "client"]
  /\ UNCHANGED <<flags, store, threads, net, fault, session, calls>>

Logout(t) == LogoutGuard(t) \/ LogoutClaim(t) \/ LogoutEnqueue(t)

(* OpenGate, CancelReservation, ChangePassword, DeleteDriver, AddDriver,   *)
(* UpdateDriverExpiration, ReserveParkingSpot and RequestExpiredUsers: a   *)
(* guard, for some a check of the arguments, an Enqueue.                   *)

Checked == {"ChangePW", "AddDriver", "ChangeExpiration", "ReserveParkingSpot"}

\* Mutants: the guard does not test m_IsConnected; or not m_IsDisconnecting.
RequestGuardNotConnected(t) ==
  \/ Branch(t, "request.connected", TRUE, "request.disconnecting", "request.refused")
  \/ Branch(t, "request.disconnecting", isDisconnecting, "request.refused", "request.enqueue")
RequestGuardNotDisconnecting(t) ==
  \/ Branch(t, "request.connected", isConnected, "request.disconnecting", "request.refused")
  \/ Branch(t, "request.disconnecting", FALSE, "request.refused", "request.enqueue")

RequestGuard(t) ==
  \/ Branch(t, "request.connected", isConnected, "request.disconnecting", "request.refused")
  \/ Branch(t, "request.disconnecting", isDisconnecting, "request.refused", "request.enqueue")

RequestEnqueue(t) ==
  /\ pc[t] = "request.enqueue"
  /\ \E type \in Requests :
       /\ Enqueue(type, 0)
       /\ owed' = [owed EXCEPT ![type] = @ + 1]
  /\ Goto(t, "idle")
  /\ UNCHANGED <<flags, store, threads, by, net, fault, session, view, calls>>

\* The arguments are bad: the method returns false.
RequestBadArguments(t) ==
  /\ pc[t] = "request.enqueue"
  /\ Checked \cap Requests # {}
  /\ Goto(t, "idle")
  /\ UNCHANGED <<flags, queue, store, threads, by, net, fault, client>>

Request(t) == RequestGuard(t) \/ RequestEnqueue(t) \/ RequestBadArguments(t)

(* SetNumberOfParkingSpots; SetIP and SetPort have its guard and change    *)
(* only the address that the next Login connects to.                       *)

\* Mutant: the guard tests only m_IsConnecting.
SetGuardNotConnected(t) ==
  \/ Branch(t, "set.connected", FALSE, "set.refused", "set.connecting")
  \/ Branch(t, "set.connecting", isConnecting, "set.refused", "set.apply")

SetGuard(t) ==
  \/ Branch(t, "set.connected", isConnected, "set.refused", "set.connecting")
  \/ Branch(t, "set.connecting", isConnecting, "set.refused", "set.apply")

\* Mutant: the array is not allocated anew.
SetApplyKeepingCache(t) ==
  /\ pc[t] = "set.apply"
  /\ \E n \in SpotCounts : spots' = n
  /\ Goto(t, "idle")
  /\ UNCHANGED <<flags, queue, cache, threads, by, net, fault, client>>

SetApply(t) ==
  /\ pc[t] = "set.apply"
  /\ \/ \E n \in SpotCounts \ {spots} :
          spots' = n /\ cache' = [id \in 1 .. n |-> 0]
     \/ UNCHANGED store
  /\ Goto(t, "idle")
  /\ UNCHANGED <<flags, queue, threads, by, net, fault, client>>

Set(t) == SetGuard(t) \/ SetApply(t)

(* ~Model, called by CleanupModel.                                         *)

\* Mutant: the destructor logs out only during a login.
CleanupGuardNotConnected(t) ==
  \/ Branch(t, "cleanup.connected", FALSE, "cleanup.logout", "cleanup.connecting")
  \/ Branch(t, "cleanup.connecting", isConnecting, "cleanup.logout", "cleanup.join")

CleanupGuard(t) ==
  \/ Branch(t, "cleanup.connected", isConnected, "cleanup.logout", "cleanup.connecting")
  \/ Branch(t, "cleanup.connecting", isConnecting, "cleanup.logout", "cleanup.join")

CleanupLogout(t) ==
  /\ pc[t] = "cleanup.logout"
  /\ by' = [by EXCEPT ![t] = "cleanup"]
  /\ Goto(t, "logout.connected")
  /\ UNCHANGED <<flags, queue, store, threads, net, fault, client>>

Cleanup(t) ==
  CleanupGuard(t) \/ CleanupLogout(t) \/ Join(t, "cleanup.join", "idle")

Continue(t) ==
  \/ Refuse(t) \/ Login(t) \/ Logout(t) \/ Request(t) \/ Set(t) \/ Cleanup(t)
  \/ JoinDeleted(t)

-----------------------------------------------------------------------------
(* writingThreadRun.                                                       *)

WriterStart ==
  /\ wr = "start"
  /\ wr' = "loop" /\ rd' = "recv"
  /\ latestLogin' = "InsufficientPriviledge"
  /\ UNCHANGED <<flags, queue, store, writingThread, nextSpot, event, pc, by,
                 net, fault, client>>

\* Mutant: the loop goes on after a Logout while requests wait.
WriterSendOn ==
  /\ wr = "loop" /\ queue # <<>>
  /\ queue' = Tail(queue)
  /\ toServer' = Append(toServer, Head(queue))
  /\ wr' = IF Head(queue).type = "Logout" /\ Len(queue) = 1 THEN "join" ELSE "loop"
  /\ UNCHANGED <<flags, store, writingThread, rd, nextSpot, latestLogin, event,
                 pc, by, toClient, server, sockets, extras, fault, client>>

WriterSend ==
  /\ wr = "loop" /\ queue # <<>>
  /\ queue' = Tail(queue)
  /\ toServer' = Append(toServer, Head(queue))
  /\ wr' = IF Head(queue).type = "Logout" THEN "join" ELSE "loop"
  /\ UNCHANGED <<flags, store, writingThread, rd, nextSpot, latestLogin, event,
                 pc, by, toClient, server, sockets, extras, fault, client>>

\* Mutant: the socket is not closed.
WriterJoinOpen ==
  /\ wr = "join" /\ rd = "exited"
  /\ wr' = "connected"
  /\ UNCHANGED <<flags, queue, store, writingThread, rd, nextSpot, latestLogin,
                 event, pc, by, net, fault, client>>

WriterJoin ==
  /\ wr = "join" /\ rd = "exited"
  /\ wr' = "connected"
  /\ sockets' = sockets - 1
  /\ UNCHANGED <<flags, queue, store, writingThread, rd, nextSpot, latestLogin,
                 event, pc, by, toServer, toClient, server, extras, fault, client>>

WriterClearConnected ==
  /\ wr = "connected"
  /\ isConnected' = FALSE
  /\ wr' = "disconnecting"
  /\ UNCHANGED <<isConnecting, isDisconnecting, queue, store, writingThread, rd,
                 nextSpot, latestLogin, event, pc, by, net, fault, client>>

\* Mutant: m_IsDisconnecting is left set.
WriterClearDisconnectingNot ==
  /\ wr = "disconnecting"
  /\ wr' = "done"
  /\ UNCHANGED <<flags, queue, store, writingThread, rd, nextSpot, latestLogin,
                 event, pc, by, net, fault, client>>

WriterClearDisconnecting ==
  /\ wr = "disconnecting"
  /\ isDisconnecting' = FALSE
  /\ wr' = "done"
  /\ UNCHANGED <<isConnected, isConnecting, queue, store, writingThread, rd,
                 nextSpot, latestLogin, event, pc, by, net, fault, client>>

Writer ==
  \/ WriterStart \/ WriterSend \/ WriterJoin
  \/ WriterClearConnected \/ WriterClearDisconnecting

-----------------------------------------------------------------------------
(* readingThreadRun: receive a reply, handle it, until a Logout reply.     *)

Receive(types) ==
  /\ rd = "recv" /\ pc[Reader] = "idle"
  /\ toClient # <<>> /\ Head(toClient).type \in types
  /\ toClient' = Tail(toClient)

\* Raise an event: its handlers run, and may call methods, before the loop
\* goes on ("handler") or ends ("last.handler").
Raise(name, ok, handler) ==
  /\ event' = [name |-> name, ok |-> ok]
  /\ rd' = handler
  /\ owed' = IF name \in EventNames THEN [owed EXCEPT ![name] = @ - 1] ELSE owed
  /\ view' = IF view = "gone" THEN "gone"
             ELSE CASE name = "Login" /\ ok -> IF view = "leaving" THEN view ELSE "in"
                    [] name = "Login" /\ ~ok -> "out"
                    [] name = "Logout" -> "out"
                    [] OTHER -> view

\* Mutant: only a wrong password is reported.
LoginReportedWrongPW == latestLogin # "WrongPW"
\* What the handler of LoginReply is told: neither UsernameNotFound nor WrongPW.
LoginReported == latestLogin \notin {"UsernameNotFound", "WrongPW"}

ReceiveLogin ==
  /\ Receive({"Login"})
  /\ latestLogin' = Head(toClient).reply
  /\ IF latestLogin' = "Success"
       THEN /\ rd' = "poll" /\ nextSpot' = 1
            /\ UNCHANGED <<pc, by>>
       ELSE /\ Goto(Reader, "logout.connected")
            /\ by' = [by EXCEPT ![Reader] = "handler"]
            /\ UNCHANGED <<rd, nextSpot>>
  /\ UNCHANGED <<flags, queue, store, writingThread, wr, event, toServer, server,
                 sockets, extras, fault, client>>

\* Mutants of the loop: m_IsValid keeps its value; the last spot is left out.
PollKeepingStatus ==
  /\ rd = "poll"
  /\ IF nextSpot <= spots
       THEN /\ Enqueue("GetParkingStatus", nextSpot)
            /\ nextSpot' = nextSpot + 1
            /\ UNCHANGED <<cache, rd>>
       ELSE rd' = "recv" /\ UNCHANGED <<cache, queue, nextSpot>>
  /\ UNCHANGED <<flags, spots, writingThread, wr, latestLogin, event, pc, by, net,
                 fault, client>>
PollAllButLast ==
  /\ rd = "poll"
  /\ IF nextSpot < spots
       THEN /\ cache' = [cache EXCEPT ![nextSpot] = 0]
            /\ Enqueue("GetParkingStatus", nextSpot)
            /\ nextSpot' = nextSpot + 1
            /\ UNCHANGED rd
       ELSE rd' = "recv" /\ UNCHANGED <<cache, queue, nextSpot>>
  /\ UNCHANGED <<flags, spots, writingThread, wr, latestLogin, event, pc, by, net,
                 fault, client>>
\* One turn of handleLoginReply's loop.
Poll ==
  /\ rd = "poll"
  /\ IF nextSpot <= spots
       THEN /\ cache' = [cache EXCEPT ![nextSpot] = 0]
            /\ Enqueue("GetParkingStatus", nextSpot)
            /\ nextSpot' = nextSpot + 1
            /\ UNCHANGED rd
       ELSE rd' = "recv" /\ UNCHANGED <<cache, queue, nextSpot>>
  /\ UNCHANGED <<flags, spots, writingThread, wr, latestLogin, event, pc, by, net,
                 fault, client>>

AllValid(c) == \A id \in DOMAIN c : c[id] # 0

ReceiveStatus ==
  /\ Receive({"GetParkingStatus"})
  /\ LET id == Head(toClient).spot
     IN  IF id \notin 1 .. spots
           THEN UNCHANGED <<cache, rd, event, owed, view>>
           ELSE /\ cache' = [cache EXCEPT ![id] = session]
                /\ IF isConnected
                     THEN Raise("ParkingStatusUpdate", TRUE, "handler")
                     ELSE /\ rd' = IF AllValid(cache') THEN "connected" ELSE "recv"
                          /\ UNCHANGED <<event, owed, view>>
  /\ UNCHANGED <<flags, queue, spots, writingThread, wr, nextSpot, latestLogin,
                 pc, by, toServer, server, sockets, extras, fault, session, calls>>

PublishConnected ==
  /\ rd = "connected"
  /\ isConnected' = TRUE
  /\ rd' = "connecting"
  /\ UNCHANGED <<isConnecting, isDisconnecting, queue, store, writingThread, wr,
                 nextSpot, latestLogin, event, pc, by, net, fault, client>>

PublishLoggedIn ==
  /\ rd = "connecting"
  /\ isConnecting' = FALSE
  /\ Raise("Login", LoginReported, "handler")
  /\ UNCHANGED <<isConnected, isDisconnecting, queue, store, writingThread, wr,
                 nextSpot, latestLogin, pc, by, net, fault, session, calls>>

\* Mutant: LoginReply is raised as well when the client was logged in.
ReceiveLogoutAsLogin ==
  /\ Receive({"Logout"})
  /\ Raise("Login", LoginReported, "last.handler") /\ isConnecting' = FALSE
  /\ UNCHANGED <<isConnected, isDisconnecting, queue, store, writingThread, wr,
                 nextSpot, latestLogin, pc, by, toServer, server, sockets, extras,
                 fault, session, calls>>

ReceiveLogout ==
  /\ Receive({"Logout"})
  /\ IF isConnected
       THEN Raise("Logout", TRUE, "last.handler") /\ UNCHANGED isConnecting
       ELSE Raise("Login", LoginReported, "last.handler") /\ isConnecting' = FALSE
  /\ UNCHANGED <<isConnected, isDisconnecting, queue, store, writingThread, wr,
                 nextSpot, latestLogin, pc, by, toServer, server, sockets, extras,
                 fault, session, calls>>

\* handleGetNextExpiredReply asks for the next record until there is none.
ReceiveExpired ==
  /\ Receive({"GetNextExpired"})
  /\ IF Head(toClient).reply = "Success"
       THEN Enqueue("GetNextExpired", 0) /\ UNCHANGED <<rd, event, owed, view>>
       ELSE Raise("GetNextExpired", TRUE, "handler") /\ UNCHANGED queue
  /\ UNCHANGED <<flags, store, writingThread, wr, nextSpot, latestLogin, pc, by,
                 toServer, server, sockets, extras, fault, session, calls>>

ReceiveOther ==
  /\ Receive(RequestTypes \ {"GetNextExpired"})
  /\ Raise(Head(toClient).type, TRUE, "handler")
  /\ UNCHANGED <<flags, queue, store, writingThread, wr, nextSpot, latestLogin,
                 pc, by, toServer, server, sockets, extras, fault, session, calls>>

HandlersReturn ==
  /\ rd \in {"handler", "last.handler"} /\ pc[Reader] = "idle"
  /\ rd' = IF rd = "handler" THEN "recv" ELSE "exited"
  /\ event' = NoEvent
  /\ UNCHANGED <<flags, queue, store, writingThread, wr, nextSpot, latestLogin,
                 pc, by, net, fault, client>>

Reading ==
  \/ ReceiveLogin \/ Poll \/ ReceiveStatus \/ PublishConnected \/ PublishLoggedIn
  \/ ReceiveLogout \/ ReceiveExpired \/ ReceiveOther \/ HandlersReturn

(* recv() or send() fails, or the stream ends: the exception leaves the    *)
(* thread function, and the C++ runtime ends the process.                  *)
ThreadThrows ==
  /\ ConnectionFails
  /\ (rd = "recv" /\ pc[Reader] = "idle") \/ (wr = "loop" /\ queue # <<>>)
  /\ ProcessEnds("terminate")

-----------------------------------------------------------------------------
(* The server (not part of the repository): answers the requests of a      *)
(* connection in order, one reply each, and pushes statuses to a logged-in *)
(* client, which is what ParkingStatusUpdate is there for.                 *)

Answers(request) ==
  CASE request.type = "Login" -> LoginReplies
    [] request.type = "GetNextExpired" ->
         {"IDNotFound"} \cup (IF extras < MaxExtras THEN {"Success"} ELSE {})
    [] OTHER -> {"Success"}

ServerAnswers ==
  /\ server \in {"new", "in", "denied"} /\ toServer # <<>>
  /\ LET request == Head(toServer)
     IN  \E reply \in Answers(request) :
           /\ toClient' = Append(toClient, [type |-> request.type, reply |-> reply,
                                            spot |-> request.spot])
           /\ server' = CASE request.type = "Logout" -> "out"
                          [] request.type = "Login" ->
                               IF reply = "Success" THEN "in" ELSE "denied"
                          [] OTHER -> server
           /\ extras' = IF request.type = "GetNextExpired" /\ reply = "Success"
                        THEN extras + 1 ELSE extras
  /\ toServer' = Tail(toServer)
  /\ UNCHANGED <<flags, queue, store, threads, pc, by, sockets, fault, client>>

ServerPushes ==
  /\ server = "in" /\ extras < MaxExtras
  /\ \E id \in 1 .. spots :
       toClient' = Append(toClient, [type |-> "GetParkingStatus", reply |-> "Success",
                                     spot |-> id])
  /\ extras' = extras + 1
  /\ UNCHANGED <<flags, queue, store, threads, pc, by, toServer, server, sockets,
                 fault, client>>

-----------------------------------------------------------------------------
Next ==
  \/ \E t \in Callers : Call(t) \/ Continue(t)
  \/ Writer \/ Reading \/ ThreadThrows
  \/ ServerAnswers \/ ServerPushes

Spec == Init /\ [][Next]_vars

(* The operating system runs every thread that can run, handlers return,   *)
(* and the server answers.  Nothing obliges the client to make a call.     *)
Fairness ==
  /\ \A t \in Callers : WF_vars(Continue(t))
  /\ WF_vars(Writer)
  /\ WF_vars(Reading)
  /\ WF_vars(ServerAnswers)

FairSpec == Spec /\ Fairness

-----------------------------------------------------------------------------
(* Types.                                                                  *)

Entries == [type : RequestTypes \cup {"Login", "Logout", "GetParkingStatus"},
            spot : Nat, session : Nat]
Packets == [type : RequestTypes \cup {"Login", "Logout", "GetParkingStatus"},
            reply : Replies, spot : Nat]
Labels ==
  {"idle", "ended",
   "login.connecting", "login.connected", "login.disconnecting", "login.claim",
   "login.join", "login.clear", "login.connect", "login.enqueue", "login.spawn",
   "login.assign", "login.refused",
   "logout.connected", "logout.connecting", "logout.disconnecting",
   "logout.claim", "logout.enqueue", "logout.refused",
   "request.connected", "request.disconnecting", "request.enqueue",
   "request.refused",
   "set.connected", "set.connecting", "set.apply", "set.refused",
   "cleanup.connected", "cleanup.connecting", "cleanup.logout", "cleanup.join"}

FlagsOK ==
  /\ isConnected \in BOOLEAN /\ isConnecting \in BOOLEAN
  /\ isDisconnecting \in BOOLEAN

StoreOK == spots \in Nat /\ cache \in [1 .. spots -> Nat]

ThreadsOK ==
  /\ writingThread \in {"null", "live", "deleted"}
  /\ wr \in {"off", "start", "loop", "join", "connected", "disconnecting", "done"}
  /\ rd \in {"off", "recv", "poll", "connected", "connecting", "handler",
             "last.handler", "exited"}
  /\ nextSpot \in Nat /\ latestLogin \in Replies
  /\ event \in [name : {"none", "ParkingStatusUpdate", "Login", "Logout"}
                         \cup RequestTypes, ok : BOOLEAN]

CallersOK ==
  /\ pc \in [Callers -> Labels]
  /\ by \in [Callers -> {"client", "cleanup", "handler"}]

NetOK ==
  /\ toServer \in Seq(Entries) /\ toClient \in Seq(Packets)
  /\ server \in {"none", "new", "in", "denied", "out"}
  /\ sockets \in Int /\ extras \in Nat

ClientOK ==
  /\ session \in Nat /\ owed \in [EventNames -> Int]
  /\ view \in Views /\ calls \in Nat

(* Every variable has its type, whatever the client, the server and the    *)
(* unset flags do; the array of statuses always has the size the code      *)
(* takes it to have.                                                       *)
TypeOK ==
  /\ FlagsOK /\ queue \in Seq(Entries) /\ StoreOK /\ ThreadsOK /\ CallersOK
  /\ NetOK /\ fault \in {"none", "terminate", "deleted"} /\ ClientOK

-----------------------------------------------------------------------------
(* Safety.                                                                 *)

(* While Login clears the queue, connects, enqueues its request and starts *)
(* the writing thread, neither thread of an earlier session still runs: no *)
(* two threads ever take requests from the queue or replies from a socket. *)
OneSession ==
  \A t \in Callers :
    pc[t] \in {"login.clear", "login.connect", "login.enqueue", "login.spawn"}
      => wr = "off" /\ rd = "off"

(* Once a writing thread runs, whatever waits in the queue or travels to   *)
(* the server was requested in this session: requests that a previous one  *)
(* left behind are never sent.                                             *)
NoStaleRequest ==
  wr # "off" =>
    /\ \A i \in DOMAIN queue : queue[i].session = session
    /\ \A i \in DOMAIN toServer : toServer[i].session = session

(* A connection carries one Login, first, and nothing after its Logout.    *)
Conversation ==
  /\ \A i \in DOMAIN toServer :
       /\ toServer[i].type = "Login" <=> (i = 1 /\ server = "new")
       /\ toServer[i].type = "Logout" => i = Len(toServer)
  /\ server = "out" => toServer = <<>>

(* A request that has passed its guard finds a writing thread that will    *)
(* still send it: it is never put in a queue that nobody empties.          *)
RequestsOnlyInSession ==
  \A t \in Callers :
    pc[t] = "request.enqueue" =>
      wr = "loop" /\ \A i \in DOMAIN queue : queue[i].type # "Logout"

(* m_IsConnected is set only when the server has accepted the login and    *)
(* every cached status has been received in this very session.             *)
ConnectedMeansFresh ==
  isConnected /\ rd \notin {"off", "exited"} =>
    latestLogin = "Success" /\ \A id \in 1 .. spots : cache[id] = session

(* handleGetParkingStatusReply reads the array's size and elements, and    *)
(* handleLoginReply loops over them, so SetNumberOfParkingSpots must never *)
(* replace the array while the reading thread may be in one of them.       *)
CacheKeptWhileReading ==
  [][store' # store /\ rd \notin {"off", "last.handler", "exited"}
       => spots' = spots]_vars

(* A session raises no more events of a kind than calls of that kind have  *)
(* been accepted in it: no LoginReply, LogoutReply or answer to a request  *)
(* comes without a call, or twice.  (ParkingStatusUpdate answers no call.) *)
NoEventWithoutCall == \A e \in EventNames : owed[e] >= 0

(* m_IsDisconnecting always has a Logout request behind it that is yet to  *)
(* be sent or answered: were it left TRUE otherwise, no Logout would ever  *)
(* be accepted again and the next Login would join its thread for ever.    *)
(* (~Model may leave one behind: the object is gone then.)                 *)
DisconnectingHasLogout ==
  isDisconnecting /\ view # "gone" =>
    \/ \E t \in Callers : pc[t] = "logout.enqueue"
    \/ wr \in {"start", "loop"} /\ \E i \in DOMAIN queue : queue[i].type = "Logout"
    \/ wr \in {"join", "connected", "disconnecting"}

Promise == INSTANCE SessionPromise WITH
  answer   <- latestLogin,
  refusing <- {t \in Callers : /\ pc[t] \in {"request.refused", "logout.refused"}
                               /\ by[t] = "client"}

(* The session keeps its promise to the client (SessionPromise): a Login   *)
(* is accepted only when the last session has settled, neither a request   *)
(* nor the Logout of a logged-in client is ever refused, one Logout is     *)
(* under way at most, every event has a call of its session behind it,     *)
(* LoginReply tells the truth, and when LogoutReply comes nothing else is  *)
(* owed.                                                                   *)
KeepsPromise == Promise!Spec

(* There is one socket from a successful connect to the closesocket at the *)
(* end of the writing thread, and none otherwise.                          *)
OneSocket ==
  sockets = IF \/ wr \in {"start", "loop", "join"}
               \/ \E t \in Callers : pc[t] \in {"login.enqueue", "login.spawn"}
            THEN 1 ELSE 0

-----------------------------------------------------------------------------
(* What the comments of Model.h and API.h promise and the code, driven by  *)
(* some client, does not keep.                                             *)

(* No call uses the thread object that an earlier Login has deleted.       *)
NoDeletedThread == fault # "deleted"

-----------------------------------------------------------------------------
(* Liveness.                                                               *)

(* Every accepted call gets its event in its own session, whatever calls   *)
(* follow it.  (~Model calls Logout itself, after LogoutReply too: the     *)
(* object is gone then.)                                                   *)
Answered ==
  \A e \in EventNames \ {"GetNextExpired"}, n \in 1 .. MaxCalls :
    owed[e] > 0 /\ session = n
      ~> (owed[e] = 0 /\ session = n) \/ (e = "Logout" /\ view = "gone")

(* Every call returns; in particular Login and ~Model do not join their    *)
(* predecessor's threads for ever.                                         *)
CallsReturn == \A t \in Callers : pc[t] # "idle" ~> pc[t] = "idle"
=============================================================================
