SPECIFICATION Spec
CONSTANTS
  LongBits = 16
  ReplyLongBits = 16
  SendBufferLength = 512
  ReceiveBufferLength = 512
  Names <- MCNames
  Passwords <- MCPasswords
  Spots <- MCSpots
  Dates <- MCDates
  ReplyTexts <- MCReplyTexts
  ReplyDates <- MCReplyDates
  LongestTexts = 208
  MaxInFlight = 2
  Cuts <- MCCuts
INVARIANTS TypeOK RequestsArrive RepliesArrive RepliesTaken
PROPERTY ThrowsWithReason
CHECK_DEADLOCK FALSE
