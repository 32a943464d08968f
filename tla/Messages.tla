------------------------------- MODULE Messages -------------------------------
(***************************************************************************)
(* Requests and replies as Message.h and Message.cpp define them, with the *)
(* names that the enumerations have on the wire, and the methods of Model  *)
(* that check their arguments and make a request of them.                  *)
(*                                                                         *)
(* A text (a name, a password) is a sequence of runs <<kind, length>> of   *)
(* characters of one kind: all that the code tells apart in a text is its  *)
(* length, whether it is empty and, for the name of a new driver, where    *)
(* the letters and the spaces are.                                         *)
(***************************************************************************)
EXTENDS Integers, Sequences, FiniteSets, SequencesExt

NULL_DATE == 0
Empty     == <<>>
Length(text) == FoldLeft(LAMBDA sum, run : sum + run[2], 0, text)

-----------------------------------------------------------------------------
(* The four tables.                                                        *)

stringFromERequestType ==
  [Login |-> "LOGIN", Logout |-> "LOGOUT", OpenGate |-> "OPEN_GATE",
   GetParkingStatus |-> "GET_PARKING_STATUS", ChangePW |-> "CHANGE_PW",
   ReserveParkingSpot |-> "RESERVE_PARKING_SPOT", AddDriver |-> "ADD_DRIVER",
   RemoveDriver |-> "REMOVE_DRIVER", CancelReservation |-> "CANCEL_RESERVATION",
   ChangeExpiration |-> "CHANGE_EXPIRATION", GetNextExpired |-> "GET_NEXT_EXPIRED"]

stringFromEReply ==
  [Success |-> "SUCCESS", UsernameNotFound |-> "USERNAME_NOT_FOUND",
   WrongPW |-> "WRONG_PW", InsufficientPriviledge |-> "INSUFFICIENT_PRIVILEDGE",
   DateExpired |-> "DATE_EXPIRED", IDNotFound |-> "ID_NOT_FOUND"]

eRequestType == DOMAIN stringFromERequestType
eReply       == DOMAIN stringFromEReply

\* Both spellings are understood; the values with the given spelling: one or none.
eRequestTypeFromString(s) == {t \in eRequestType : s \in {t, stringFromERequestType[t]}}
eReplyFromString(s)       == {r \in eReply : s \in {r, stringFromEReply[r]}}

\* The constructors.
Request ==
  [type |-> "Logout", intField |-> 0, stringField1 |-> Empty,
   stringField2 |-> Empty, dateField |-> NULL_DATE]
ReplyMessage ==
  [type |-> "Logout", reply |-> "InsufficientPriviledge", intField |-> 0,
   stringField |-> Empty, boolField1 |-> FALSE, boolField2 |-> FALSE,
   dateField |-> NULL_DATE]

-----------------------------------------------------------------------------
(* The methods of Model, given that the flags let them pass: the requests  *)
(* each may make of its arguments, one or none.                            *)

MakeIf(accepted, request) == IF accepted THEN {request} ELSE {}

\* [A-Za-z]{2,}[ ]+[A-Za-z]{2,}
NameMatches(name) ==
  /\ Len(name) = 3
  /\ name[1][1] = "letters" /\ name[1][2] >= 2
  /\ name[2][1] = "spaces"  /\ name[2][2] >= 1
  /\ name[3][1] = "letters" /\ name[3][2] >= 2

\* The scan counts the characters before the first space and the spaces.
NameTooLong(name) ==
  LET firstNameLength == name[1][2]
      numOfSpaces     == name[2][2]
  IN  firstNameLength + (Length(name) - (firstNameLength + numOfSpaces)) > 20

Login(username, password) ==
  MakeIf(username # Empty /\ password # Empty,
         [Request EXCEPT !.type = "Login", !.stringField1 = username,
                         !.stringField2 = password])

Logout   == {[Request EXCEPT !.type = "Logout"]}
OpenGate == {[Request EXCEPT !.type = "OpenGate"]}

CancelReservation(spot) ==
  {[Request EXCEPT !.type = "CancelReservation", !.intField = spot]}

ChangePassword(username, password) ==
  MakeIf(password # Empty,
         [Request EXCEPT !.type = "ChangePW", !.stringField1 = username,
                         !.stringField2 = password])

DeleteDriver(username) ==
  {[Request EXCEPT !.type = "RemoveDriver", !.stringField1 = username]}

AddDriver(name, password, date) ==
  MakeIf(password # Empty /\ date >= 0 /\ NameMatches(name) /\ ~NameTooLong(name),
         [Request EXCEPT !.type = "AddDriver", !.stringField1 = name,
                         !.stringField2 = password, !.dateField = date])

UpdateDriverExpiration(username, date) ==
  MakeIf(date >= 0,
         [Request EXCEPT !.type = "ChangeExpiration", !.stringField1 = username,
                         !.dateField = date])

ReserveParkingSpot(spot, reservedFor, date) ==
  MakeIf(date >= 0,
         [Request EXCEPT !.type = "ReserveParkingSpot", !.intField = spot,
                         !.stringField1 = reservedFor, !.dateField = date])

requestNextExpiredUser == {[Request EXCEPT !.type = "GetNextExpired"]}

\* One turn of handleLoginReply's loop.
requestParkingStatus(spot) ==
  {[Request EXCEPT !.type = "GetParkingStatus", !.intField = spot]}
===============================================================================
