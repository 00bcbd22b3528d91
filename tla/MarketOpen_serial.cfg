SPECIFICATION FairSpec
CONSTANTS
  SPY = "SPY"
  None = None
  CoreMaxSingleNamePct = 12
  SatelliteMaxSingleNamePct = 50
  SatelliteFirstTrancheMaxPct = 25
  MaxTradesPerDayPerSleeve = 3
  PdtBufferedDayTradeBlockAt = 2
  BuyingPowerBuffer = 500
  r1 = r1
  r2 = r2
  r3 = r3
  r4 = r4
  Runs = {r1, r2}
  Decisions <- SerialDecisions
  Accounts <- EdgeAccounts
  Symbols = {"SPY", "OTC"}
  AllowedSymbols = {"SPY"}
  Upper <- MCUpper
  Versions = {"sha"}
  KillSignals = {}
  RemoteReplies = {"allow", "unreachable"}
  Faults = {"fetch", "harness", "cost", "timeout", "refusal", "disk", "discord", "crash"}
  CoreNav = 90000
  SatelliteNav = 10000
  PhaseCoreDeployCap = 5000
  PdtThreshold = 2500000
  ConfidenceThreshold = 70
  MaxAttempts = 3
  MaxDay = 2
  MaxOverlap = 1
  DryRunChoices = {TRUE, FALSE}
  MalformedPrice = MalformedPrice
INVARIANTS
  TypeOK
  OneOrderPerIntent
  BlockedFiringNeverTrades
  OrdersWithinLimits
  ReturnedFiringIsOnRecord
  OrderFollowsItsAudit
  OneRowPerFingerprint
  OutcomeIsAnnounced
PROPERTIES
  DecisionsAreFinal
  ImplementsContract
CHECK_DEADLOCK FALSE
