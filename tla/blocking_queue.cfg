\* Two application threads, two kinds of request and four calls of Enqueue
\* or Clear: enough for two pushes around a sleep and a Clear between the
\* notification and the wake-up.
CONSTANTS
  Producers = {a1, a2}
  Consumer = writer
  NoThread = none
  Values = {r1, r2}
  MaxCalls = 4
SPECIFICATION FairSpec
INVARIANTS
  TypeOK
  NoLostWakeup
PROPERTY IsFifo
