SPECIFICATION MCSpec
CONSTANTS
  Worker = {w1, w2}
  hourly = hourly
  daily = daily
  Schedule = {hourly, daily}
  Horizon = 2
  NextTime <- MCNextTime
  MaxFaults = 1
  NoSchedule = none
INVARIANTS SlotOnce NeverStuck NoFlood
PROPERTY DueRuns
CHECK_DEADLOCK FALSE
