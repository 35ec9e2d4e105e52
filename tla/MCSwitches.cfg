SPECIFICATION MCSpec
CONSTANTS
  DayLength = 3
  Temps = {0, 1, 2, 3}
  InvalidValue <- MCInvalidValue
  Lows = {0, 2}
  Highs = {2, 3}
  Delta = 1
  MaxPulls = 2
  FanTemps = {0, 1, 2}
  Hums = {0, 1, 2}
  Limits <- MCLimits
  Speeds = {100}
  Drop <- MCDrop
  Period = 1
INVARIANTS ForceIsObeyed SettledIsRight FanIsRight
