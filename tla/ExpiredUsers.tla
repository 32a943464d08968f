----------------------------- MODULE ExpiredUsers -----------------------------
(***************************************************************************)
(* The list of expired users that Model collects for its client.           *)
(* RequestExpiredUsers empties it and puts a request in the queue; each    *)
(* reply that names a user is added to the list by the reading thread,     *)
(* which then asks for the next one; the first reply that names none       *)
(* raises RequestExpiredUsersReply, after which GetNextExpiredUser hands   *)
(* the users out.  The list and its size have no lock.                     *)
(*                                                                         *)
(* Three threads: the reading thread, the writing thread and one of the    *)
(* application's that is after the expired users; another one may log the  *)
(* session out at any time.  Session has the whole of logging in and out;  *)
(* here it is as much as a chain of requests meets.                        *)
(***************************************************************************)
EXTENDS Naturals, Sequences

CONSTANTS
  Users,          \* what the server may report
  Patient,        \* TRUE: the client waits for a chain's event before it starts
                  \* another, as API.h has it
  MaxReported,    \* bounds the users the server reports in a chain
  MaxCalls,       \* bounds the calls of RequestExpiredUsers
  MaxSessions     \* bounds the logins

GetNextExpired == "GetNextExpired"
Logout == "Logout"
NoMore == "NoMore"

ASSUME ExpiredUsersAssumption ==
  /\ Patient \in BOOLEAN /\ {NoMore, Logout} \cap Users = {}
  /\ MaxReported \in Nat /\ MaxCalls \in Nat /\ MaxSessions \in Nat

VARIABLES
  m_IsConnected, m_IsDisconnecting,
  m_ExpiredUsersList, m_ExpiredUsersListSize,
  m_RequestsQueue,
  writer,      \* the writing thread: "writing", "joining" the reading thread,
               \* "clearing" m_IsDisconnecting, "ended"
  reader,      \* the reading thread: "reading", in handleGetNextExpiredReply
               \* ("push", "count", "request", "raise"), or "ended"
  reply,       \* the reply it handles
  replies,     \* replies on their way
  caller,      \* the client's thread: "idle" or where it is in a call
  leaver,      \* the thread that logs out: "idle" or to "enqueue" its request
  chain,       \* what the client knows: "none", "running" or "prepared"
  reported,    \* history: the users the server has reported in the chain
  handed,      \* history: those handed to the client since
  count,       \* history: the number the event has reported
  calls, sessions   \* history: counted for the bounds

session == <<m_IsConnected, m_IsDisconnecting>>
users   == <<m_ExpiredUsersList, m_ExpiredUsersListSize>>
history == <<reported, handed, count>>
bounds  == <<calls, sessions>>
vars == <<session, users, m_RequestsQueue, writer, reader, reply, replies, caller,
          leaver, chain, history, bounds>>

Init ==
  /\ m_IsConnected = TRUE /\ m_IsDisconnecting = FALSE
  /\ m_ExpiredUsersList = <<>> /\ m_ExpiredUsersListSize = 0
  /\ m_RequestsQueue = <<>> /\ replies = <<>> /\ reply = NoMore
  /\ writer = "writing" /\ reader = "reading" /\ caller = "idle" /\ leaver = "idle"
  /\ chain = "none" /\ reported = <<>> /\ handed = <<>> /\ count = 0
  /\ calls = 0 /\ sessions = 1

-----------------------------------------------------------------------------
(* RequestExpiredUsers.                                                    *)

\* Mutant: the request is made before the list is emptied.
RequestStepsSwapped == <<"request", "clear", "reset", "idle">>
\* The order of its steps once the guard has let it pass.
RequestSteps == <<"clear", "reset", "request", "idle">>
After(step) == RequestSteps[(CHOOSE i \in 1 .. 3 : RequestSteps[i] = step) + 1]

RequestExpiredUsers ==
  /\ caller = "idle" /\ reader # "ended" /\ calls < MaxCalls
  /\ Patient => chain # "running"
  /\ chain' = "running" /\ reported' = <<>> /\ handed' = <<>> /\ count' = 0
  /\ caller' = IF m_IsConnected THEN "check" ELSE "refused"
  /\ calls' = calls + 1
  /\ UNCHANGED <<session, users, m_RequestsQueue, writer, reader, reply, replies,
                 leaver, sessions>>

Check ==
  /\ caller = "check"
  /\ caller' = IF m_IsDisconnecting THEN "refused" ELSE RequestSteps[1]
  /\ UNCHANGED <<session, users, m_RequestsQueue, writer, reader, reply, replies,
                 leaver, chain, history, bounds>>

Refused ==
  /\ caller = "refused" /\ caller' = "idle" /\ chain' = "none"
  /\ UNCHANGED <<session, users, m_RequestsQueue, writer, reader, reply, replies,
                 leaver, history, bounds>>

Clear ==
  /\ caller = "clear" /\ caller' = After("clear")
  /\ m_ExpiredUsersList' = <<>>
  /\ UNCHANGED <<session, m_ExpiredUsersListSize, m_RequestsQueue, writer, reader, reply,
                 replies, leaver, chain, history, bounds>>

\* Mutant: the size keeps its value.
ResetNot ==
  /\ caller = "reset" /\ caller' = After("reset")
  /\ UNCHANGED <<session, users, m_RequestsQueue, writer, reader, reply, replies,
                 leaver, chain, history, bounds>>
Reset ==
  /\ caller = "reset" /\ caller' = After("reset")
  /\ m_ExpiredUsersListSize' = 0
  /\ UNCHANGED <<session, m_ExpiredUsersList, m_RequestsQueue, writer, reader, reply,
                 replies, leaver, chain, history, bounds>>

RequestFirst ==
  /\ caller = "request" /\ caller' = After("request")
  /\ m_RequestsQueue' = Append(m_RequestsQueue, GetNextExpired)
  /\ UNCHANGED <<session, users, writer, reader, reply, replies, leaver, chain,
                 history, bounds>>

-----------------------------------------------------------------------------
(* GetNextExpiredUser, which the client calls after the event.             *)

GetNextExpiredUser ==
  /\ caller = "idle" /\ reader # "ended" /\ chain = "prepared"
  /\ caller' = IF m_IsConnected THEN "look" ELSE "idle"
  /\ UNCHANGED <<session, users, m_RequestsQueue, writer, reader, reply, replies,
                 leaver, chain, history, bounds>>

Look ==
  /\ caller = "look"
  /\ caller' = IF m_IsDisconnecting \/ m_ExpiredUsersList = <<>> THEN "idle" ELSE "pop"
  /\ UNCHANGED <<session, users, m_RequestsQueue, writer, reader, reply, replies,
                 leaver, chain, history, bounds>>

Pop ==
  /\ caller = "pop" /\ caller' = "uncount"
  /\ handed' = Append(handed, Head(m_ExpiredUsersList))
  /\ m_ExpiredUsersList' = Tail(m_ExpiredUsersList)
  /\ UNCHANGED <<session, m_ExpiredUsersListSize, m_RequestsQueue, writer, reader, reply,
                 replies, leaver, chain, reported, count, bounds>>

Uncount ==
  /\ caller = "uncount" /\ caller' = "idle"
  /\ m_ExpiredUsersListSize' = m_ExpiredUsersListSize - 1
  /\ UNCHANGED <<session, m_ExpiredUsersList, m_RequestsQueue, writer, reader, reply,
                 replies, leaver, chain, history, bounds>>

-----------------------------------------------------------------------------
(* Logging out and in again.                                               *)

Leave ==
  /\ leaver = "idle" /\ m_IsConnected /\ ~m_IsDisconnecting
  /\ m_IsDisconnecting' = TRUE /\ leaver' = "enqueue"
  /\ UNCHANGED <<m_IsConnected, users, m_RequestsQueue, writer, reader, reply, replies,
                 caller, chain, history, bounds>>

LeaveEnqueue ==
  /\ leaver = "enqueue" /\ leaver' = "idle"
  /\ m_RequestsQueue' = Append(m_RequestsQueue, Logout)
  /\ UNCHANGED <<session, users, writer, reader, reply, replies, caller, chain,
                 history, bounds>>

\* The client logs in when its calls have returned and the old session is over.
Login ==
  /\ writer = "ended" /\ caller = "idle" /\ leaver = "idle" /\ sessions < MaxSessions
  /\ sessions' = sessions + 1
  /\ m_RequestsQueue' = <<>> /\ m_IsConnected' = TRUE
  /\ writer' = "writing" /\ reader' = "reading" /\ chain' = "none"
  /\ UNCHANGED <<m_IsDisconnecting, users, reply, replies, caller, leaver, history, calls>>

-----------------------------------------------------------------------------
(* The writing thread, and the server that answers what it sends.          *)

\* The server names another user, or none.
Answer ==
  \/ \E user \in Users : /\ Len(reported) < MaxReported
                         /\ reported' = Append(reported, user)
                         /\ replies' = Append(replies, user)
  \/ replies' = Append(replies, NoMore) /\ UNCHANGED reported

Send ==
  /\ writer = "writing" /\ m_RequestsQueue # <<>>
  /\ m_RequestsQueue' = Tail(m_RequestsQueue)
  /\ IF Head(m_RequestsQueue) = Logout
       THEN /\ writer' = "joining" /\ replies' = Append(replies, Logout)
            /\ UNCHANGED reported
       ELSE Answer /\ UNCHANGED writer
  /\ UNCHANGED <<session, users, reader, reply, caller, leaver, chain, handed, count,
                 bounds>>

Join ==
  /\ writer = "joining" /\ reader = "ended"
  /\ writer' = "clearing" /\ m_IsConnected' = FALSE
  /\ UNCHANGED <<m_IsDisconnecting, users, m_RequestsQueue, reader, reply, replies,
                 caller, leaver, chain, history, bounds>>

WriterEnd ==
  /\ writer = "clearing" /\ writer' = "ended" /\ m_IsDisconnecting' = FALSE
  /\ UNCHANGED <<m_IsConnected, users, m_RequestsQueue, reader, reply, replies,
                 caller, leaver, chain, history, bounds>>

-----------------------------------------------------------------------------
(* The reading thread.  At LogoutReply the client knows that its chain,    *)
(* if one was running, is cut.                                             *)

GetReply ==
  /\ reader = "reading" /\ replies # <<>>
  /\ reply' = Head(replies) /\ replies' = Tail(replies)
  /\ reader' = CASE reply' = Logout -> "ended"
                 [] reply' = NoMore -> "raise"
                 [] OTHER -> "push"
  /\ UNCHANGED <<session, users, m_RequestsQueue, writer, caller, leaver, chain,
                 history, bounds>>

Push ==
  /\ reader = "push" /\ reader' = "count"
  /\ m_ExpiredUsersList' = Append(m_ExpiredUsersList, reply)
  /\ UNCHANGED <<session, m_ExpiredUsersListSize, m_RequestsQueue, writer, reply, replies,
                 caller, leaver, chain, history, bounds>>

Count ==
  /\ reader = "count" /\ reader' = "request"
  /\ m_ExpiredUsersListSize' = m_ExpiredUsersListSize + 1
  /\ UNCHANGED <<session, m_ExpiredUsersList, m_RequestsQueue, writer, reply, replies,
                 caller, leaver, chain, history, bounds>>

\* Mutant: a user ends the chain.
RequestNextNot ==
  /\ reader = "request" /\ reader' = "reading"
  /\ UNCHANGED <<session, users, m_RequestsQueue, writer, reply, replies, caller, leaver,
                 chain, history, bounds>>
RequestNext ==
  /\ reader = "request" /\ reader' = "reading"
  /\ m_RequestsQueue' = Append(m_RequestsQueue, GetNextExpired)
  /\ UNCHANGED <<session, users, writer, reply, replies, caller, leaver, chain, history,
                 bounds>>

\* RequestExpiredUsersReply.Invoke: the client learns that the list is prepared.
Raise ==
  /\ reader = "raise" /\ reader' = "reading"
  /\ count' = m_ExpiredUsersListSize /\ chain' = "prepared"
  /\ UNCHANGED <<session, users, m_RequestsQueue, writer, reply, replies, caller, leaver,
                 reported, handed, bounds>>

-----------------------------------------------------------------------------
Caller == Check \/ Refused \/ Clear \/ Reset \/ RequestFirst \/ Look \/ Pop \/ Uncount
Writer == Send \/ Join \/ WriterEnd
Reader == GetReply \/ Push \/ Count \/ RequestNext \/ Raise

Next ==
  \/ RequestExpiredUsers \/ GetNextExpiredUser \/ Caller
  \/ Leave \/ LeaveEnqueue \/ Login \/ Writer \/ Reader

Spec == Init /\ [][Next]_vars

(* Threads run: a call that has begun goes on, and so do the writing and   *)
(* the reading thread; the server answers what it is sent.                 *)
FairSpec == Spec /\ WF_vars(Caller) /\ WF_vars(LeaveEnqueue)
                 /\ WF_vars(Writer) /\ WF_vars(Reader)

-----------------------------------------------------------------------------
CallSteps == {"idle", "check", "refused", "clear", "reset", "request", "look", "pop", "uncount"}

(* Every variable has its type.                                            *)
TypeOK ==
  /\ m_IsConnected \in BOOLEAN /\ m_IsDisconnecting \in BOOLEAN
  /\ m_ExpiredUsersList \in Seq(Users) /\ m_ExpiredUsersListSize \in Nat
  /\ m_RequestsQueue \in Seq({GetNextExpired, Logout})
  /\ writer \in {"writing", "joining", "clearing", "ended"}
  /\ reader \in {"reading", "push", "count", "request", "raise", "ended"}
  /\ reply \in Users \cup {NoMore, Logout} /\ replies \in Seq(Users \cup {NoMore, Logout})
  /\ caller \in CallSteps /\ leaver \in {"idle", "enqueue"}
  /\ chain \in {"none", "running", "prepared"}
  /\ reported \in Seq(Users) /\ handed \in Seq(Users) /\ count \in Nat
  /\ calls \in Nat /\ sessions \in Nat

(* When the event has told the client that the list is prepared, it has    *)
(* told how many users the server has reported since the call, and those   *)
(* not handed out yet are in the list, each once and in the server's       *)
(* order: none of an earlier chain, even of an earlier session that was    *)
(* cut off, and none missing.                                              *)
PreparedAsReported ==
  chain = "prepared" =>
    /\ count = Len(reported)
    /\ handed \o m_ExpiredUsersList = reported
    /\ m_ExpiredUsersListSize = Len(m_ExpiredUsersList) + (IF caller = "uncount" THEN 1 ELSE 0)

(* The list and its size, which no lock guards, are never in use by the    *)
(* client's thread and by the reading thread at once.                      *)
ListUsedByOne ==
  caller \in {"clear", "reset", "look", "pop", "uncount"} =>
    reader \notin {"push", "count", "raise"}

(* A chain ends in its event, unless its session is logged out.  (A call   *)
(* that is under way when the session ends may return true nevertheless,   *)
(* and no event follows: the guard looks at the two flags one after the    *)
(* other, and the writing thread clears them in the same order.)           *)
ChainEnds ==
  chain = "running" /\ reader # "ended" ~> chain # "running" \/ m_IsDisconnecting
===============================================================================
