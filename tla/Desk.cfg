SPECIFICATION Spec
CONSTANTS
  SPY = SPY
  AAPL = AAPL
  None = None
  CoreMaxSingleNamePct = 12
  SatelliteMaxSingleNamePct = 50
  SatelliteFirstTrancheMaxPct = 25
  MaxTradesPerDayPerSleeve = 3
  PdtBufferedDayTradeBlockAt = 2
  BuyingPowerBuffer = 500
  Symbols <- MCSymbols
  Markets <- MCMarkets
  MaxDay = 2
  CoreEquities <- MCCoreEquities
  SatelliteEquities <- MCSatelliteEquities
  Accounts <- MCAccounts
  Performances <- MCPerformances
  Orders <- MCOrders
  CoreNav = 90000
  SatelliteNav = 10000
  CoreDailyLossPct = 2
  SatelliteDailyLossPct = 10
  PdtThreshold = 2500000
  PhaseCoreDeployCap = 5000
INVARIANTS
  BlocksAgree
PROPERTIES
  LossesStopBuys
  HaltLiftsOnlyOnRecovery
  NoStaleUniverse
