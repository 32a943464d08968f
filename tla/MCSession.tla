------------------------------- MODULE MCSession -------------------------------
(***************************************************************************)
(* Instances of Session for TLC: which calls each client makes, and when.  *)
(***************************************************************************)
EXTENDS Session

(* May(login, logout, request, set, cleanup): what the client has been     *)
(* told (Views) when it calls each method.                                 *)
May(login, logout, request, set, cleanup) ==
  [m \in Methods |-> CASE m = "Login"   -> login
                       [] m = "Logout"  -> logout
                       [] m = "Request" -> request
                       [] m = "Set"     -> set
                       [] m = "Cleanup" -> cleanup]

Never    == May({}, {}, {}, {}, {})

(* One thread that makes every call the flags protect it from: Login at    *)
(* any time, requests up to its own Logout, SetNumberOfParkingSpots at any *)
(* time but during a login.                                                *)
Careful  == May(Views, {"in"}, {"pending", "in"}, {"out", "in", "leaving"},
                {"out", "in", "leaving"})

(* A client that leaves everything but Login and clean-up to its handlers, *)
(* which run on the reading thread and may call the rest whenever they     *)
(* like; of their calls only Login and clean-up would wait for themselves. *)
Starter  == May(Views, {}, {}, {}, {"out"})
Handlers == May({}, Views, Views, Views, {})

(* One thread and its handlers that make every call at every time, except  *)
(* the handlers' calls that wait for themselves.                           *)
Anytime == May(Views, Views, Views, Views, Views)

-----------------------------------------------------------------------------
(* The client of the run that finds a comment of API.h not kept: one that  *)
(* does no more than the comments allow.                                   *)
Documented == May({"out"}, {"in"}, {"in"}, {"out"}, {})
================================================================================
