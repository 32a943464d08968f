-------------------------- MODULE ExpiredUsersProofs --------------------------
(***************************************************************************)
(* That a patient client finds in the list what the server has reported,   *)
(* and never uses it together with the reading thread, for any users and   *)
(* any number of calls, sessions and users reported.                       *)
(*                                                                         *)
(* The argument: a chain is one request that travels.  It is in the queue, *)
(* or its answer is on the way, or the reading thread handles the answer;  *)
(* it is never in two of these places, and it is in none while no chain    *)
(* runs or a call has yet to put it in the queue.                          *)
(***************************************************************************)
EXTENDS ExpiredUsers, SequenceTheorems, TLAPS

Named    == Users \cup {NoMore}
Handling == reader \in {"push", "count", "request", "raise"}
Asking   == caller \in {"check", "refused", "clear", "reset", "request"}
Taking   == caller \in {"look", "pop", "uncount"}

\* Queues that hold the chain's request, and queues that hold a Logout.
AskedQueues   == {<<GetNextExpired>>, <<GetNextExpired, Logout>>,
                   <<Logout, GetNextExpired>>}
LeavingQueues == {<<Logout>>, <<GetNextExpired, Logout>>, <<Logout, GetNextExpired>>}
Asked    == m_RequestsQueue \in AskedQueues
Leaves   == m_RequestsQueue \in LeavingQueues
\* The chain's answer is on the way.
Answered == \E x \in Named : replies = <<x>> \/ replies = <<x, Logout>>

\* How the flags, the ends of the threads and the Logout depend on each other.
Lifetimes ==
  /\ m_IsConnected <=> writer \in {"writing", "joining"}
  /\ writer = "ended" => ~m_IsDisconnecting
  /\ ~m_IsDisconnecting => ~Leaves /\ leaver = "idle" /\ writer \in {"writing", "ended"}
  /\ leaver = "enqueue" => ~Leaves /\ writer = "writing"
  /\ Leaves => writer = "writing"
  /\ writer = "writing" =>
       reader # "ended" /\ (replies = <<>> \/ \E x \in Named : replies = <<x>>)
  /\ writer = "joining" /\ reader # "ended" =>
       replies = <<Logout>> \/ \E x \in Named : replies = <<x, Logout>>
  /\ writer \in {"clearing", "ended"} => reader = "ended"
  /\ reader = "ended" => replies = <<>>

\* The request of a chain is in one place.
OnePlace ==
  /\ m_RequestsQueue = <<>> \/ m_RequestsQueue = <<Logout>> \/ Asked
  /\ ~(Asked /\ Answered) /\ ~(Asked /\ Handling) /\ ~(Answered /\ Handling)
  /\ chain # "running" \/ Asking => ~Asked /\ ~Answered /\ ~Handling
  /\ Asking => chain = "running"
  /\ Taking => chain = "prepared"

\* What the list is while a chain runs.
Contents ==
  /\ chain = "running" => handed = <<>>
  /\ Asking => reported = <<>>
  /\ caller \in {"reset", "request"} => m_ExpiredUsersList = <<>>
  /\ caller = "request" => m_ExpiredUsersListSize = 0
  /\ chain = "running" /\ ~Asking =>
       /\ Answered /\ Head(replies) \in Users =>
            reported = Append(m_ExpiredUsersList, Head(replies))
       /\ reader = "push" => reported = Append(m_ExpiredUsersList, reply)
       /\ ~(Answered /\ Head(replies) \in Users) /\ reader # "push" =>
            reported = m_ExpiredUsersList
       /\ Len(m_ExpiredUsersList)
            = m_ExpiredUsersListSize + (IF reader = "count" THEN 1 ELSE 0)
  /\ caller = "pop" => m_ExpiredUsersList # <<>>
  /\ reader = "push" => reply \in Users

IInv == TypeOK /\ Lifetimes /\ OnePlace /\ Contents /\ PreparedAsReported
-----------------------------------------------------------------------------
(* The queues and the replies there may be.                                *)

LEMMA StepAfter ==
  /\ RequestSteps[1] = "clear" /\ After("clear") = "reset"
  /\ After("reset") = "request" /\ After("request") = "idle"
BY DEF After, RequestSteps

LEMMA Queues ==
  /\ GetNextExpired # Logout
  /\ <<>> \notin AskedQueues /\ <<>> \notin LeavingQueues
  /\ <<Logout>> \notin AskedQueues /\ <<Logout>> \in LeavingQueues
  /\ <<GetNextExpired>> \in AskedQueues /\ <<GetNextExpired>> \notin LeavingQueues
BY DEF AskedQueues, LeavingQueues, GetNextExpired, Logout

LEMMA AppendSecond ==
  ASSUME NEW a, NEW b
  PROVE  Append(<<a>>, b) = <<a, b>>
<1> DEFINE S == {a, b}
<1>1. <<a>> \in Seq(S) /\ b \in S
  OBVIOUS
<1>2. Append(<<a>>, b) \in Seq(S) /\ Len(Append(<<a>>, b)) = 2
  BY <1>1, AppendProperties
<1>3. Append(<<a>>, b)[1] = a /\ Append(<<a>>, b)[2] = b
  BY <1>1, AppendProperties
<1>4. <<a, b>> \in Seq(S) /\ Len(<<a, b>>) = 2 /\ <<a, b>>[1] = a /\ <<a, b>>[2] = b
  OBVIOUS
<1>5. ASSUME NEW i \in 1 .. 2 PROVE Append(<<a>>, b)[i] = <<a, b>>[i]
  BY <1>3, <1>4
<1> HIDE DEF S
<1>q. QED BY <1>2, <1>4, <1>5, SeqEqual

\* A queue without the chain's request is given it.
LEMMA AppendRequest ==
  ASSUME NEW q, q = <<>> \/ q = <<Logout>>
  PROVE  /\ Append(q, GetNextExpired) \in AskedQueues
         /\ Append(q, GetNextExpired) \in LeavingQueues <=> q \in LeavingQueues
<1>1. CASE q = <<>>
  <2>1. Append(q, GetNextExpired) = <<GetNextExpired>> BY <1>1
  <2>q. QED BY <2>1, <1>1, Queues
<1>2. CASE q = <<Logout>>
  <2>1. Append(q, GetNextExpired) = <<Logout, GetNextExpired>> BY <1>2, AppendSecond
  <2>q. QED BY <2>1, <1>2, Queues DEF AskedQueues, LeavingQueues
<1>q. QED BY <1>1, <1>2

\* A queue without a Logout is given one.
LEMMA AppendLogout ==
  ASSUME NEW q, q = <<>> \/ q \in AskedQueues, q \notin LeavingQueues
  PROVE  /\ Append(q, Logout) = <<Logout>> \/ Append(q, Logout) \in AskedQueues
         /\ Append(q, Logout) \in AskedQueues <=> q \in AskedQueues
<1>1. CASE q = <<>>
  <2>1. Append(q, Logout) = <<Logout>> BY <1>1
  <2>q. QED BY <2>1, <1>1, Queues
<1>2. CASE q = <<GetNextExpired>>
  <2>1. Append(q, Logout) = <<GetNextExpired, Logout>> BY <1>2, AppendSecond
  <2>q. QED BY <2>1, <1>2, Queues DEF AskedQueues
<1>q. QED BY <1>1, <1>2 DEF AskedQueues, LeavingQueues

\* A queue loses its first request.
LEMMA TakeFirst ==
  ASSUME NEW q, q # <<>>, q = <<Logout>> \/ q \in AskedQueues
  PROVE  /\ Head(q) = Logout =>
              /\ q \in LeavingQueues /\ Tail(q) \notin LeavingQueues
              /\ Tail(q) = <<>> \/ Tail(q) \in AskedQueues
              /\ Tail(q) \in AskedQueues => q \in AskedQueues
         /\ Head(q) # Logout =>
              /\ q \in AskedQueues /\ Tail(q) \notin AskedQueues
              /\ Tail(q) = <<>> \/ Tail(q) = <<Logout>>
              /\ Tail(q) \in LeavingQueues <=> q \in LeavingQueues
<1>1. CASE q = <<Logout>>
  <2>1. Head(q) = Logout /\ Tail(q) = <<>> BY <1>1
  <2>q. QED BY <2>1, <1>1, Queues
<1>2. CASE q = <<GetNextExpired>>
  <2>1. Head(q) = GetNextExpired /\ Tail(q) = <<>> BY <1>2
  <2>q. QED BY <2>1, <1>2, Queues
<1>3. CASE q = <<GetNextExpired, Logout>>
  <2>1. Head(q) = GetNextExpired /\ Tail(q) = <<Logout>> BY <1>3
  <2>q. QED BY <2>1, <1>3, Queues DEF AskedQueues, LeavingQueues
<1>4. CASE q = <<Logout, GetNextExpired>>
  <2>1. Head(q) = Logout /\ Tail(q) = <<GetNextExpired>> BY <1>4
  <2>q. QED BY <2>1, <1>4, Queues DEF AskedQueues, LeavingQueues
<1>q. QED BY <1>1, <1>2, <1>3, <1>4 DEF AskedQueues

\* What the replies on the way may be, and what is first in them.
LEMMA Replies ==
  /\ Logout \notin Named
  /\ \A x, y \in Named : /\ <<x>> # <<>> /\ <<x, Logout>> # <<>>
                         /\ <<x>> # <<y, Logout>>
                         /\ <<x>> # <<Logout>> /\ <<x, Logout>> # <<Logout>>
                         /\ Head(<<x>>) = x /\ Head(<<x, Logout>>) = x
                         /\ Tail(<<x>>) = <<>> /\ Tail(<<x, Logout>>) = <<Logout>>
  /\ Head(<<Logout>>) = Logout /\ Tail(<<Logout>>) = <<>> /\ <<Logout>> # <<>>
<1>1. Logout \notin Named
  BY ExpiredUsersAssumption DEF Named, Logout, NoMore
<1>2. ASSUME NEW x \in Named, NEW y \in Named
      PROVE /\ <<x>> # <<>> /\ <<x, Logout>> # <<>> /\ <<x>> # <<y, Logout>>
            /\ <<x, Logout>> # <<Logout>>
            /\ Head(<<x>>) = x /\ Head(<<x, Logout>>) = x
            /\ Tail(<<x>>) = <<>> /\ Tail(<<x, Logout>>) = <<Logout>>
  OBVIOUS
<1>3. ASSUME NEW x \in Named PROVE <<x>> # <<Logout>>
  BY <1>1
<1>4. Head(<<Logout>>) = Logout /\ Tail(<<Logout>>) = <<>> /\ <<Logout>> # <<>>
  OBVIOUS
<1>q. QED BY <1>1, <1>2, <1>3, <1>4

LEMMA MoveHead ==
  ASSUME NEW S, NEW s \in Seq(S), NEW t \in Seq(S), t # <<>>
  PROVE  Append(s, Head(t)) \o Tail(t) = s \o t
<1>1. /\ Append(s, Head(t)) \o Tail(t) \in Seq(S) /\ s \o t \in Seq(S)
  OBVIOUS
<1>2. Len(Append(s, Head(t)) \o Tail(t)) = Len(s \o t)
  OBVIOUS
<1>3. ASSUME NEW i \in 1 .. Len(s \o t)
      PROVE  (Append(s, Head(t)) \o Tail(t))[i] = (s \o t)[i]
  OBVIOUS
<1>q. QED BY <1>1, <1>2, <1>3

-----------------------------------------------------------------------------
(* The invariant is inductive.                                             *)

THEOREM Inductive == Patient /\ IInv /\ [Next]_vars => IInv'
<1> SUFFICES ASSUME Patient, IInv, [Next]_vars PROVE IInv'
  OBVIOUS
<1> USE ExpiredUsersAssumption DEF IInv
<1>1. CASE RequestExpiredUsers
  <2>1. TypeOK'
    BY <1>1 DEF RequestExpiredUsers, session, users, TypeOK, CallSteps
  <2>2. Lifetimes'
    BY <1>1 DEF RequestExpiredUsers, session, Lifetimes, Leaves
  <2>3. OnePlace'
    BY <1>1 DEF RequestExpiredUsers, OnePlace, Asked, Answered, Handling, Taking
  <2>4. Contents'
    BY <1>1 DEF RequestExpiredUsers, Contents, Asking
  <2>5. PreparedAsReported'
    BY <1>1 DEF RequestExpiredUsers, PreparedAsReported
  <2>q. QED BY <2>1, <2>2, <2>3, <2>4, <2>5
<1>2. CASE GetNextExpiredUser
  <2>1. TypeOK'
    BY <1>2 DEF GetNextExpiredUser, session, users, history, bounds, TypeOK, CallSteps
  <2>2. Lifetimes'
    BY <1>2 DEF GetNextExpiredUser, session, Lifetimes, Leaves
  <2>3. OnePlace'
    BY <1>2 DEF GetNextExpiredUser, OnePlace, Asked, Answered, Handling, Asking
  <2>4. Contents'
    BY <1>2 DEF GetNextExpiredUser, Contents, Asking
  <2>5. PreparedAsReported'
    BY <1>2 DEF GetNextExpiredUser, users, history, PreparedAsReported
  <2>q. QED BY <2>1, <2>2, <2>3, <2>4, <2>5
<1>3. CASE Check
  <2>1. TypeOK'
    BY <1>3, StepAfter DEF Check, session, users, history, bounds, TypeOK, CallSteps
  <2>2. Lifetimes'
    BY <1>3 DEF Check, session, Lifetimes, Leaves
  <2>3. OnePlace'
    BY <1>3, StepAfter DEF Check, OnePlace, Asked, Answered, Handling, Asking, Taking
  <2>4. Contents'
    BY <1>3, StepAfter DEF Check, history, Contents, Asking
  <2>5. PreparedAsReported'
    BY <1>3, StepAfter DEF Check, users, history, OnePlace, PreparedAsReported
  <2>q. QED BY <2>1, <2>2, <2>3, <2>4, <2>5
<1>4. CASE Refused
  <2>1. TypeOK'
    BY <1>4 DEF Refused, session, users, history, bounds, TypeOK, CallSteps
  <2>2. Lifetimes'
    BY <1>4 DEF Refused, session, Lifetimes, Leaves
  <2>3. OnePlace'
    BY <1>4 DEF Refused, OnePlace, Asked, Answered, Handling, Asking, Taking
  <2>4. Contents'
    BY <1>4 DEF Refused, Contents, Asking
  <2>5. PreparedAsReported'
    BY <1>4 DEF Refused, PreparedAsReported
  <2>q. QED BY <2>1, <2>2, <2>3, <2>4, <2>5
<1>5. CASE Clear
  <2>1. TypeOK'
    BY <1>5, StepAfter DEF Clear, session, history, bounds, TypeOK, CallSteps
  <2>2. Lifetimes'
    BY <1>5 DEF Clear, session, Lifetimes, Leaves
  <2>3. OnePlace'
    BY <1>5, StepAfter DEF Clear, OnePlace, Asked, Answered, Handling, Asking, Taking
  <2>4. Contents'
    BY <1>5, StepAfter DEF Clear, history, Contents, Asking
  <2>5. PreparedAsReported'
    BY <1>5 DEF Clear, OnePlace, PreparedAsReported, Asking
  <2>q. QED BY <2>1, <2>2, <2>3, <2>4, <2>5
<1>6. CASE Reset
  <2>1. TypeOK'
    BY <1>6, StepAfter DEF Reset, session, history, bounds, TypeOK, CallSteps
  <2>2. Lifetimes'
    BY <1>6 DEF Reset, session, Lifetimes, Leaves
  <2>3. OnePlace'
    BY <1>6, StepAfter DEF Reset, OnePlace, Asked, Answered, Handling, Asking, Taking
  <2>4. Contents'
    BY <1>6, StepAfter DEF Reset, history, Contents, Asking
  <2>5. PreparedAsReported'
    BY <1>6, StepAfter DEF Reset, history, Contents, PreparedAsReported
  <2>q. QED BY <2>1, <2>2, <2>3, <2>4, <2>5
<1>7. CASE RequestFirst
  <2>1. TypeOK'
    BY <1>7, StepAfter DEF RequestFirst, session, users, history, bounds, TypeOK,
                           CallSteps
  <2>2. Lifetimes'
    BY <1>7, AppendRequest DEF RequestFirst, session, Lifetimes, OnePlace, Leaves,
                               Asking
  <2>3. OnePlace'
    BY <1>7, AppendRequest, StepAfter DEF RequestFirst, OnePlace, Asked, Answered,
           Handling, Asking, Taking
  <2>4. Contents'
    BY <1>7, StepAfter DEF RequestFirst, users, history, OnePlace, Contents, Answered,
                           Handling, Asking
  <2>5. PreparedAsReported'
    BY <1>7, StepAfter DEF RequestFirst, users, history, PreparedAsReported
  <2>q. QED BY <2>1, <2>2, <2>3, <2>4, <2>5
<1>8. CASE Look
  <2>1. TypeOK'
    BY <1>8 DEF Look, session, users, history, bounds, TypeOK, CallSteps
  <2>2. Lifetimes'
    BY <1>8 DEF Look, session, Lifetimes, Leaves
  <2>3. OnePlace'
    BY <1>8 DEF Look, OnePlace, Asked, Answered, Handling, Asking, Taking
  <2>4. Contents'
    BY <1>8 DEF Look, users, history, Contents, Answered, Asking
  <2>5. PreparedAsReported'
    BY <1>8 DEF Look, users, history, PreparedAsReported
  <2>q. QED BY <2>1, <2>2, <2>3, <2>4, <2>5
<1>9. CASE Pop
  <2>1. TypeOK'
    BY <1>9 DEF Pop, session, bounds, TypeOK, CallSteps, Contents
  <2>2. Lifetimes'
    BY <1>9 DEF Pop, session, Lifetimes, Leaves
  <2>3. OnePlace'
    BY <1>9 DEF Pop, OnePlace, Asked, Answered, Handling, Asking, Taking
  <2>4. Contents'
    BY <1>9 DEF Pop, OnePlace, Contents, Asking, Taking
  <2>5. PreparedAsReported'
    <3>1. /\ chain = "prepared" /\ m_ExpiredUsersList # <<>>
          /\ handed \in Seq(Users) /\ m_ExpiredUsersList \in Seq(Users)
      BY <1>9 DEF Pop, TypeOK, OnePlace, Contents, Taking
    <3>2. Append(handed, Head(m_ExpiredUsersList)) \o Tail(m_ExpiredUsersList)
            = handed \o m_ExpiredUsersList
      BY <3>1, MoveHead
    <3>3. handed' \o m_ExpiredUsersList' = reported'
      BY <1>9, <3>1 DEF Pop, PreparedAsReported
    <3>4. Len(m_ExpiredUsersList') = Len(m_ExpiredUsersList) - 1
      BY <1>9, <3>1 DEF Pop
    <3>5. /\ m_ExpiredUsersListSize = Len(m_ExpiredUsersList) /\ count = Len(reported)
          /\ Len(m_ExpiredUsersList) \in Nat
      BY <1>9, <3>1 DEF Pop, PreparedAsReported
    <3>6. m_ExpiredUsersListSize' = Len(m_ExpiredUsersList') + 1
      BY <1>9, <3>4, <3>5 DEF Pop
    <3>q. QED BY <1>9, <3>3, <3>5, <3>6 DEF Pop, PreparedAsReported
  <2>q. QED BY <2>1, <2>2, <2>3, <2>4, <2>5
<1>10. CASE Uncount
  <2>1. TypeOK'
    BY <1>10 DEF Uncount, session, history, bounds, TypeOK, CallSteps, OnePlace,
                 PreparedAsReported, Taking
  <2>2. Lifetimes'
    BY <1>10 DEF Uncount, session, Lifetimes, Leaves
  <2>3. OnePlace'
    BY <1>10 DEF Uncount, OnePlace, Asked, Answered, Handling, Asking, Taking
  <2>4. Contents'
    BY <1>10 DEF Uncount, OnePlace, Contents, Asking, Taking
  <2>5. PreparedAsReported'
    BY <1>10 DEF Uncount, history, OnePlace, PreparedAsReported, Answered
  <2>q. QED BY <2>1, <2>2, <2>3, <2>4, <2>5
<1>11. CASE Leave
  <2>1. TypeOK'
    BY <1>11 DEF Leave, users, history, bounds, TypeOK
  <2>2. Lifetimes'
    BY <1>11 DEF Leave, Lifetimes, Leaves
  <2>3. OnePlace'
    BY <1>11 DEF Leave, OnePlace, Asked, Answered, Handling, Asking, Taking
  <2>4. Contents'
    BY <1>11 DEF Leave, users, history, Contents, Answered, Asking
  <2>5. PreparedAsReported'
    BY <1>11 DEF Leave, users, history, PreparedAsReported
  <2>q. QED BY <2>1, <2>2, <2>3, <2>4, <2>5
<1>12. CASE LeaveEnqueue
  <2>1. TypeOK'
    BY <1>12 DEF LeaveEnqueue, session, users, history, bounds, TypeOK
  <2>2. Lifetimes'
    BY <1>12 DEF LeaveEnqueue, session, Lifetimes
  <2>3. OnePlace'
    <3>1. /\ m_RequestsQueue' = <<Logout>> \/ Asked'
          /\ Asked' <=> Asked
      BY <1>12, AppendLogout, Queues DEF LeaveEnqueue, Lifetimes, OnePlace, Asked,
             Leaves
    <3>q. QED
      BY <1>12, <3>1 DEF LeaveEnqueue, OnePlace, Answered, Handling, Asking, Taking
  <2>4. Contents'
    BY <1>12 DEF LeaveEnqueue, users, history, Contents, Answered, Asking
  <2>5. PreparedAsReported'
    BY <1>12 DEF LeaveEnqueue, users, history, PreparedAsReported
  <2>q. QED BY <2>1, <2>2, <2>3, <2>4, <2>5
<1>13. CASE Login
  <2>1. TypeOK'
    BY <1>13 DEF Login, users, history, TypeOK
  <2>2. Lifetimes'
    BY <1>13, Queues DEF Login, Lifetimes, Leaves
  <2>3. OnePlace'
    BY <1>13, Queues DEF Login, Lifetimes, OnePlace, Asked, Answered, Handling, Asking,
                         Taking
  <2>4. Contents'
    BY <1>13 DEF Login, Contents, Asking
  <2>5. PreparedAsReported'
    BY <1>13 DEF Login, PreparedAsReported
  <2>q. QED BY <2>1, <2>2, <2>3, <2>4, <2>5
<1>14. CASE Send
  <2>0. /\ m_RequestsQueue # <<>> /\ (m_RequestsQueue = <<Logout>> \/ Asked)
        /\ m_RequestsQueue' = Tail(m_RequestsQueue)
        /\ writer = "writing" /\ reader # "ended" /\ m_IsConnected
        /\ UNCHANGED <<session, users, reader, reply, caller, leaver, chain, handed, count,
                       bounds>>
    BY <1>14 DEF Send, OnePlace, Lifetimes
  <2>1. CASE Head(m_RequestsQueue) = Logout
    <3>1. /\ writer' = "joining" /\ replies' = Append(replies, Logout) /\ reported' = reported
          /\ Leaves /\ ~Leaves' /\ (Asked' => Asked)
          /\ (m_RequestsQueue' = <<>> \/ Asked')
      BY <1>14, <2>0, <2>1, TakeFirst DEF Send, Asked, Leaves
    <3>2. m_IsDisconnecting
      BY <3>1 DEF Lifetimes
    <3>3. /\ replies = <<>> => replies' = <<Logout>>
          /\ \A x \in Named : replies = <<x>> => replies' = <<x, Logout>>
      <4>1. replies = <<>> => replies' = <<Logout>> BY <3>1
      <4>2. ASSUME NEW x \in Named, replies = <<x>> PROVE replies' = <<x, Logout>>
        BY <3>1, <4>2, AppendSecond
      <4>q. QED BY <4>1, <4>2
    <3>4. /\ replies' = <<Logout>> \/ \E x \in Named : replies' = <<x, Logout>>
          /\ Answered' <=> Answered
          /\ Answered => Head(replies') = Head(replies)
      BY <2>0, <3>3, Replies DEF Lifetimes, Answered
    <3>5. TypeOK'
      BY <2>0, <3>1 DEF TypeOK, session, users, bounds
    <3>6. Lifetimes'
      BY <2>0, <3>1, <3>4 DEF Lifetimes, session
    <3>7. OnePlace'
      BY <2>0, <3>1, <3>4 DEF OnePlace, Handling, Asking, Taking
    <3>8. Contents' /\ PreparedAsReported'
      BY <2>0, <3>1, <3>4 DEF Contents, PreparedAsReported, Asking, users
    <3>q. QED BY <3>5, <3>6, <3>7, <3>8
  <2>2. CASE Head(m_RequestsQueue) # Logout
    <3>1. /\ Answer /\ writer' = writer /\ Asked /\ ~Asked' /\ (Leaves' <=> Leaves)
          /\ (m_RequestsQueue' = <<>> \/ m_RequestsQueue' = <<Logout>>)
      BY <1>14, <2>0, <2>2, TakeFirst DEF Send, Asked, Leaves
    <3>2. replies = <<>> /\ ~Answered /\ ~Handling /\ chain = "running" /\ ~Asking
      BY <2>0, <3>1 DEF OnePlace, Lifetimes, Answered
    <3>3. PICK x \in Named : /\ replies' = <<x>>
                             /\ reported' =
                                  IF x \in Users THEN Append(reported, x) ELSE reported
      BY <3>1, <3>2 DEF Answer, Named
    <3>4. Answered' /\ Head(replies') = x
      BY <3>3, Replies DEF Answered
    <3>5. TypeOK'
      BY <2>0, <3>1, <3>3 DEF TypeOK, Named, session, users, bounds
    <3>6. Lifetimes'
      BY <2>0, <3>1, <3>3 DEF Lifetimes, session
    <3>7. OnePlace'
      BY <2>0, <3>1 DEF OnePlace, Handling, Asking, Taking
    <3>8. Contents' /\ PreparedAsReported'
      BY <2>0, <3>2, <3>3, <3>4 DEF Contents, PreparedAsReported, Handling, Asking,
             users
    <3>q. QED BY <3>5, <3>6, <3>7, <3>8
  <2>q. QED BY <2>1, <2>2
<1>15. CASE Join
  <2>1. TypeOK'
    BY <1>15 DEF Join, users, history, bounds, TypeOK
  <2>2. Lifetimes'
    BY <1>15 DEF Join, Lifetimes, Leaves
  <2>3. OnePlace'
    BY <1>15 DEF Join, OnePlace, Asked, Answered, Handling, Asking, Taking
  <2>4. Contents'
    BY <1>15 DEF Join, users, history, Contents, Answered, Asking
  <2>5. PreparedAsReported'
    BY <1>15 DEF Join, users, history, PreparedAsReported
  <2>q. QED BY <2>1, <2>2, <2>3, <2>4, <2>5
<1>16. CASE WriterEnd
  <2>1. TypeOK'
    BY <1>16 DEF WriterEnd, users, history, bounds, TypeOK
  <2>2. Lifetimes'
    BY <1>16 DEF WriterEnd, TypeOK, Lifetimes, Leaves
  <2>3. OnePlace'
    BY <1>16 DEF WriterEnd, OnePlace, Asked, Answered, Handling, Asking, Taking
  <2>4. Contents'
    BY <1>16 DEF WriterEnd, users, history, Contents, Answered, Asking
  <2>5. PreparedAsReported'
    BY <1>16 DEF WriterEnd, users, history, PreparedAsReported
  <2>q. QED BY <2>1, <2>2, <2>3, <2>4, <2>5
<1>17. CASE GetReply
  <2>0. /\ reader = "reading" /\ replies # <<>> /\ ~Handling
        /\ reply' = Head(replies) /\ replies' = Tail(replies)
        /\ UNCHANGED <<session, users, m_RequestsQueue, writer, caller, leaver, chain, history,
                       bounds>>
    BY <1>17 DEF GetReply, Handling
  <2>1. CASE replies = <<Logout>>
    <3>0. writer = "joining"
      BY <2>1, Replies DEF Lifetimes, TypeOK
    <3>1. reply' = Logout /\ reader' = "ended" /\ replies' = <<>>
      BY <1>17, <2>1, Replies DEF GetReply, Named
    <3>2. ~Answered /\ ~Answered' /\ ~Handling'
      BY <2>1, <3>1, Replies DEF Answered, Handling
    <3>3. TypeOK'
      BY <2>0, <3>1 DEF TypeOK, session, users, history, bounds
    <3>4. Lifetimes'
      BY <2>0, <3>0, <3>1 DEF Lifetimes, Leaves, session
    <3>5. OnePlace'
      BY <2>0, <3>2 DEF OnePlace, Asked, Asking, Taking
    <3>6. Contents' /\ PreparedAsReported'
      BY <2>0, <3>1, <3>2 DEF Contents, PreparedAsReported, Asking, users, history
    <3>q. QED BY <3>3, <3>4, <3>5, <3>6
  <2>2. CASE replies # <<Logout>>
    <3>1. PICK x \in Named : replies = <<x>> \/ replies = <<x, Logout>>
      BY <2>0, <2>2 DEF Lifetimes, TypeOK
    <3>2. /\ reply' = x /\ x # Logout /\ Head(replies) = x
          /\ reader' = IF x \in Users THEN "push" ELSE "raise"
          /\ replies = <<x>> => replies' = <<>>
          /\ replies = <<x, Logout>> => replies' = <<Logout>>
      BY <1>17, <2>0, <3>1, Replies, ExpiredUsersAssumption DEF GetReply, Named
    <3>3. Answered /\ ~Answered' /\ Handling'
      BY <3>1, <3>2, Replies DEF Answered, Handling
    <3>4. ~Asked /\ chain = "running" /\ ~Asking /\ ~Taking
      BY <3>3 DEF OnePlace
    <3>5. TypeOK'
      BY <2>0, <3>2 DEF TypeOK, session, users, history, bounds
    <3>6. Lifetimes'
      BY <2>0, <3>2 DEF Lifetimes, Leaves, session
    <3>7. OnePlace'
      BY <2>0, <3>3 DEF OnePlace, Asked, Asking, Taking
    <3>8. Contents' /\ PreparedAsReported'
      BY <2>0, <3>2, <3>3 DEF Contents, PreparedAsReported, Asking, users, history
    <3>q. QED BY <3>5, <3>6, <3>7, <3>8
  <2>q. QED BY <2>1, <2>2
<1>18. CASE Push
  <2>1. TypeOK'
    BY <1>18 DEF Push, session, history, bounds, TypeOK, Contents
  <2>2. Lifetimes'
    BY <1>18 DEF Push, session, Lifetimes, Leaves
  <2>3. OnePlace'
    BY <1>18 DEF Push, OnePlace, Asked, Answered, Handling, Asking, Taking
  <2>4. Contents'
    BY <1>18, SMTT(30) DEF Push, session, history, bounds, TypeOK, CallSteps, OnePlace, Contents,
                 PreparedAsReported, Answered, Named, Handling, Asking
  <2>5. PreparedAsReported'
    BY <1>18 DEF Push, OnePlace, PreparedAsReported, Handling
  <2>q. QED BY <2>1, <2>2, <2>3, <2>4, <2>5
<1>19. CASE Count
  <2>1. TypeOK'
    BY <1>19 DEF Count, session, history, bounds, TypeOK
  <2>2. Lifetimes'
    BY <1>19 DEF Count, session, Lifetimes, Leaves
  <2>3. OnePlace'
    BY <1>19 DEF Count, OnePlace, Asked, Answered, Handling, Asking, Taking
  <2>4. Contents'
    BY <1>19 DEF Count, history, OnePlace, Contents, Answered, Handling, Asking
  <2>5. PreparedAsReported'
    BY <1>19 DEF Count, OnePlace, PreparedAsReported, Handling
  <2>q. QED BY <2>1, <2>2, <2>3, <2>4, <2>5
<1>20. CASE RequestNext
  <2>1. TypeOK'
    BY <1>20 DEF RequestNext, session, users, history, bounds, TypeOK
  <2>2. Lifetimes'
    BY <1>20, AppendRequest DEF RequestNext, session, Lifetimes, OnePlace, Leaves,
                                Handling
  <2>3. OnePlace'
    BY <1>20, AppendRequest DEF RequestNext, OnePlace, Asked, Answered, Handling,
                                Asking, Taking
  <2>4. Contents'
    BY <1>20 DEF RequestNext, users, history, OnePlace, Contents, Answered, Handling,
                 Asking
  <2>5. PreparedAsReported'
    BY <1>20 DEF RequestNext, users, history, CallSteps, PreparedAsReported, Handling
  <2>q. QED BY <2>1, <2>2, <2>3, <2>4, <2>5
<1>21. CASE Raise
  <2>1. TypeOK'
    BY <1>21 DEF Raise, session, users, bounds, TypeOK
  <2>2. Lifetimes'
    BY <1>21 DEF Raise, session, Lifetimes, Leaves
  <2>3. OnePlace'
    BY <1>21 DEF Raise, OnePlace, Asked, Answered, Handling, Asking
  <2>4. Contents'
    BY <1>21 DEF Raise, users, Contents, Asking
  <2>5. PreparedAsReported'
    BY <1>21 DEF Raise, users, TypeOK, OnePlace, Contents, PreparedAsReported,
                 Handling, Taking
  <2>q. QED BY <2>1, <2>2, <2>3, <2>4, <2>5
<1>u. CASE UNCHANGED vars
  BY <1>u DEF vars, session, users, history, bounds, TypeOK, Lifetimes, OnePlace,
              Contents, PreparedAsReported, Asked, Leaves, Answered, Handling, Asking,
                    Taking
<1>q. QED
  BY <1>1, <1>2, <1>3, <1>4, <1>5, <1>6, <1>7, <1>8, <1>9, <1>10, <1>11, <1>12, <1>13,
     <1>14, <1>15, <1>16, <1>17, <1>18, <1>19, <1>20, <1>21, <1>u DEF Next, Caller,
            Writer, Reader
-----------------------------------------------------------------------------
LEMMA Initially == Init => IInv
<1> SUFFICES ASSUME Init PROVE IInv
  OBVIOUS
<1>1. ~Asked /\ ~Leaves /\ ~Answered /\ ~Handling /\ ~Asking /\ ~Taking
  BY Queues DEF Init, Asked, Leaves, Answered, Handling, Asking, Taking
<1>2. TypeOK
  <2>1. /\ <<>> \in Seq(Users) /\ <<>> \in Seq({GetNextExpired, Logout})
        /\ <<>> \in Seq(Users \cup {NoMore, Logout})
    OBVIOUS
  <2>q. QED BY <2>1 DEF Init, TypeOK, CallSteps
<1>3. Lifetimes
  BY <1>1 DEF Init, Lifetimes
<1>4. OnePlace
  BY <1>1 DEF Init, OnePlace
<1>5. Contents /\ PreparedAsReported
  BY DEF Init, Contents, PreparedAsReported
<1>q. QED BY <1>2, <1>3, <1>4, <1>5 DEF IInv

LEMMA Invariantly == Patient => (Spec => []IInv)
<1>1. Patient /\ IInv /\ [Next]_vars => IInv'
  BY Inductive
<1>2. ASSUME Patient PROVE Spec => []IInv
  <2>1. IInv /\ [Next]_vars => IInv'
    BY <1>1, <1>2
  <2>q. QED BY <2>1, Initially, PTL DEF Spec
<1>q. QED BY <1>2

(* Every variable has its type.                                            *)
THEOREM Typed == Patient => (Spec => []TypeOK)
<1>1. IInv => TypeOK
  BY DEF IInv
<1>q. QED BY <1>1, Invariantly, PTL

(* A patient client is told how many users there are and finds them in the *)
(* list, in order: handleGetNextExpiredReply and RequestExpiredUsers.      *)
THEOREM Prepared == Patient => (Spec => []PreparedAsReported)
<1>1. IInv => PreparedAsReported
  BY DEF IInv
<1>q. QED BY <1>1, Invariantly, PTL

(* A patient client and the reading thread never use the list at once.     *)
THEOREM OneUser == Patient => (Spec => []ListUsedByOne)
<1>1. IInv => ListUsedByOne
  BY DEF IInv, OnePlace, ListUsedByOne, Asking, Taking, Handling
<1>q. QED BY <1>1, Invariantly, PTL
===============================================================================
