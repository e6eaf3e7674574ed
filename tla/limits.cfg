SPECIFICATION LimitsSpec
CONSTANTS
  Tasks = {t1, t2, t3, t4, t5}
  Maximum = 2
  MaxQueueSize = 3
  Requests = {1, 2, 3, 4}
  Maxima = {0, 2, 4}
  RequestsPerHour = 2
  TokensPerDay = 3
  Hour = 2
  Day = 3
  LastTick = 4
INVARIANTS
    SlotsConserved
    WindowsRespected
    DecisionsExact
PROPERTIES
    WaitersServed
    ImplementsFifoSlots
CHECK_DEADLOCK FALSE
