-------------------------------- MODULE MCWire --------------------------------
(***************************************************************************)
(* An instance of Wire for TLC, with the buffers of Model.h and texts of   *)
(* telling lengths.  A long has 16 bits, so that 32 is the last second     *)
(* whose milliseconds it holds.                                            *)
(***************************************************************************)
EXTENDS Wire

Word(n) == << <<"letters", n>> >>
Name(first, spaces, second) ==
  << <<"letters", first>>, <<"spaces", spaces>>, <<"letters", second>> >>

\* A short name, one of 20 letters, one too long, one with a short first name.
MCNames == {Name(2, 1, 2), Name(10, 3, 10), Name(10, 1, 11), Name(1, 1, 5)}

\* Passwords: a short one, the longest that must arrive, and a longer one.
MCPasswords == {Word(4), Word(208), Word(209)}
MCSpots == {1}
MCDates == {-1, 0, 32, 33}

\* Texts of no, of a few and of more characters than the receive buffer.
MCReplyTexts == {Empty, Word(3), Word(513)}
MCReplyDates == {0, 32767}

\* In the stream's header, the object's, a date and the last field; and at their ends.
MCCuts == {0, 1, 4, 100, 199, 200, 206, 230, 239, 250, 320, 400}
================================================================================
