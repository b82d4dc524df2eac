SPECIFICATION ReminderSpec
CONSTANTS
  p1 = p1
  p2 = p2
  r1 = r1
  r2 = r2
  Slots <- TwoSlots
  Runs <- TwoRuns
  Settings <- SomeDays
  Lead = 1
  LastTime = 4
  Gap = 2
  MaxCommands = 2
INVARIANTS ClockIsKept CountUnlessEdited RemindersInTime
SYMMETRY InAnyOrder
CHECK_DEADLOCK FALSE
