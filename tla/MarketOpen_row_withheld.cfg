SPECIFICATION FairSpec
CONSTANTS
  SPY = "SPY"
  None = None
  CoreMaxSingleNamePct = 12
  SatelliteMaxSingleNamePct = 50
  SatelliteFirstTrancheMaxPct = 25
  MaxTradesPerDayPerSleeve = 3
  PdtBufferedDayTradeBlockAt = 2
  BuyingPowerBuffer = 500
  r1 = r1
  r2 = r2
  r3 = r3
  r4 = r4
  Runs = {r1, r2}
  Decisions <- MarketDecisions
  Accounts <- Funded
  Symbols = {"SPY", "OTC"}
  AllowedSymbols = {"SPY"}
  Upper <- MCUpper
  Versions = {"sha"}
  KillSignals = {}
  RemoteReplies = {"not configured"}
  Faults = {}
  CoreNav = 90000
  SatelliteNav = 10000
  PhaseCoreDeployCap = 5000
  PdtThreshold = 2500000
  ConfidenceThreshold = 70
  MaxAttempts = 3
  MaxDay = 2
  MaxOverlap = 1
  DryRunChoices = {FALSE}
  MalformedPrice = MalformedPrice
INVARIANT
  SubmittedRowExists
CHECK_DEADLOCK FALSE
