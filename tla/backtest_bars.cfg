SPECIFICATION Spec
CONSTANTS
  Capital = 100
  RiskPct = 10
  DailyCapPct = 12
  DrawdownCapPct = 20
  MaxLosses = 2
  EquityPerLot = 10
  EntryCost = 1
  StopSlip = 1
  TargetSlip = 0
  Fee = 0
  MaxTradesPerDay = 3
  MaxDayLosses = 2
  TrailR = 1
  TimeBudget = 2
  PauseDays = 2
  Plans <- MCPlans
  Bars <- MCBars
  MaxGap = 2
  MaxBars = 6
INVARIANTS
  ExposureAllowed
  PauseServed
CHECK_DEADLOCK FALSE
