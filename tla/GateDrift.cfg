SPECIFICATION Spec
CONSTANTS
  SPY = SPY
  AAPL = AAPL
  None = None
  CoreMaxSingleNamePct = 12
  SatelliteMaxSingleNamePct = 50
  SatelliteFirstTrancheMaxPct = 25
  MaxTradesPerDayPerSleeve = 3
  PdtBufferedDayTradeBlockAt = 2
  BuyingPowerBuffer = 500
  Symbols <- MCSymbols
  Orders <- MCOrders
  Contexts <- MCContexts
INVARIANTS
  ExitStaysOpen
  ExceptionsWaiveOnlyTheirRules
  HaltIsNeverDeferred
PROPERTY
  StricterNeverOpens
