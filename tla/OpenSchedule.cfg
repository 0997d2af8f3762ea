SPECIFICATION ScheduleSpec
CONSTANTS
  Clients = {1, 4}
  Hour = 7
  Minute = 4
  Dog = 3
INVARIANT TurnComes
