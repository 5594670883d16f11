SPECIFICATION Spec
CONSTANTS
  MaxQueue = 2
  BatchSize = 2
  TradeLimit = 2
  LossLimit = 2
  ConsLimit = 2
  MaxDay = 2
  MaxFaults = 1
  MaxEvents = 4
  HealthFactor = 20
  Setups <- MCSetups
  Losses <- MCLosses
INVARIANTS
  TypeOK
  TradesPerDay
  ShutdownComplete
PROPERTIES
  LossesHalt
  JournalSettles
