CONSTANTS
  MaxDuration = 6000
  Horizon = 6
  Doers <- MCDoers
SPECIFICATION Spec
INVARIANTS
  DoerTypeOK
  ReturnsLastError
  EndedContextStopsCalls
  ScheduleFollows
  WaitOfCall
