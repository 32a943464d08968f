---------------------------- MODULE SessionPromise ----------------------------
(***************************************************************************)
(* What a session promises the client, in the client's own terms: calls it *)
(* makes, calls that are accepted or refused, and events.  The flags, the  *)
(* threads, the queue and the connection are nowhere to be seen.           *)
(***************************************************************************)
EXTENDS Naturals

CONSTANTS
  Callers,      \* whoever calls methods
  Requests      \* types of the requests

VARIABLES
  view,      \* where the client stands: "out", "pending" (a Login has been
             \* accepted), "in" (LoginReply has reported a success), "leaving"
             \* (its Logout has been accepted), "gone" (it has called
             \* CleanupModel)
  answer,    \* the server's answer to the latest Login
  owed,      \* calls of each kind, accepted since the latest Login (itself
             \* included), whose event is still to be raised
  event,     \* the event whose handlers run, and what it reports
  refusing   \* callers to whom a request or a Logout is being refused

vars == <<view, answer, owed, event, refusing>>

NoEvent == [name |-> "none", ok |-> FALSE]

(* Nothing else is owed.  A RequestExpiredUsers is left out: its chain of  *)
(* requests is cut when the session ends.                                  *)
Settled(but) == \A e \in DOMAIN owed \ {but, "GetNextExpired"} : owed[e] = 0

Init ==
  /\ view = "out" /\ answer = "InsufficientPriviledge"
  /\ owed = [e \in Requests \cup {"Login", "Logout"} |-> 0]
  /\ event = NoEvent /\ refusing = {}

-----------------------------------------------------------------------------
(* Calls.                                                                  *)

CallCleanup ==
  view # "gone" /\ view' = "gone" /\ UNCHANGED <<answer, owed, event, refusing>>

Owe(e) == owed' = [owed EXCEPT ![e] = @ + 1] /\ UNCHANGED <<answer, event, refusing>>

\* A session begins only when the last one has paid its debts; what is left of a
\* RequestExpiredUsers is forgotten.  Nothing is promised of a Login that is
\* refused: one is for some time after LogoutReply, which the client cannot tell.
AcceptLogin ==
  /\ view = "out" /\ Settled("none") /\ view' = "pending"
  /\ owed' = [e \in DOMAIN owed |-> IF e = "Login" THEN 1 ELSE 0]
  /\ UNCHANGED <<answer, event, refusing>>

\* One Logout is under way at most; it may be accepted before LoginReply has come.
\* (CleanupModel logs out, too.)
AcceptLogout ==
  /\ view \in {"pending", "in", "gone"} /\ owed["Logout"] = 0
  /\ view' = IF view = "gone" THEN "gone" ELSE "leaving"
  /\ Owe("Logout")

\* Requests are accepted in a session only; one made just before LoginReply may
\* be, because the session has begun by then.
AcceptRequest == /\ view \in {"pending", "in"}
                 /\ \E e \in Requests : Owe(e)
                 /\ UNCHANGED view

\* A client that has been told it is logged in is refused neither a request nor
\* its Logout: it stays "in" until its Logout has been accepted.
Refuse ==
  /\ view # "in"
  /\ \E t \in Callers \ refusing : refusing' = refusing \cup {t}
  /\ UNCHANGED <<view, answer, owed, event>>

Refused ==
  /\ \E t \in refusing : refusing' = refusing \ {t}
  /\ UNCHANGED <<view, answer, owed, event>>

-----------------------------------------------------------------------------
(* Events, one at a time, in the order in which their calls were accepted  *)
(* as far as the session's two ends go.                                    *)

Pay(e, ok) ==
  /\ event = NoEvent /\ event' = [name |-> e, ok |-> ok]
  /\ owed[e] > 0 /\ owed' = [owed EXCEPT ![e] = @ - 1]
  /\ UNCHANGED <<answer, refusing>>

ServerAnswers == view \in {"pending", "leaving"} /\ answer' # answer
                 /\ UNCHANGED <<view, owed, event, refusing>>

\* LoginReply reports a success if and only if the server has accepted the login.
LoginReply ==
  /\ view \in {"pending", "leaving", "gone"}
  /\ Pay("Login", answer = "Success")
  /\ view' = IF view = "gone" THEN "gone"
             ELSE IF answer # "Success" THEN "out"
             ELSE IF view = "pending" THEN "in" ELSE "leaving"

\* LogoutReply is a session's last event: all the others have been raised.
LogoutReply ==
  /\ view \in {"leaving", "gone"} /\ Settled("Logout")
  /\ Pay("Logout", TRUE)
  /\ view' = IF view = "gone" THEN "gone" ELSE "out"

RequestReply ==
  /\ view \in {"in", "leaving", "gone"}
  /\ \E e \in Requests : Pay(e, TRUE)
  /\ UNCHANGED view

\* Statuses are reported to a client that is logged in, and to no other.
ParkingStatusUpdate ==
  /\ view \in {"in", "leaving", "gone"}
  /\ event = NoEvent /\ event' = [name |-> "ParkingStatusUpdate", ok |-> TRUE]
  /\ UNCHANGED <<view, answer, owed, refusing>>

HandlersReturn ==
  /\ event' = NoEvent
  /\ UNCHANGED <<view, answer, owed, refusing>>

Next ==
  \/ CallCleanup \/ AcceptLogin \/ AcceptLogout \/ AcceptRequest \/ Refuse \/ Refused
  \/ ServerAnswers \/ LoginReply \/ LogoutReply \/ RequestReply
  \/ ParkingStatusUpdate \/ HandlersReturn

Spec == Init /\ [][Next]_vars
===============================================================================
