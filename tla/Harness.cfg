SPECIFICATION FairSpec
CONSTANTS
  MaxToolIterations = 3
  MaxAttempts = 3
  Cap = 4
  CallCosts = {1, 2}
  ToolRequests <- MCToolRequests
  ApiFaults = {"busy", "fatal"}
  NoText = NoText
  AllowedSymbols <- MCAllowed
  Queries <- MCQueries
  QuoteReplies <- MCQuotes
  BarReplies <- MCBars
  NewsReplies <- MCNews
INVARIANTS
  TypeOK
  SpendStaysInBudget
  ConversationIsWellFormed
  ToolLogIsComplete
  ResearchIsLastSaid
  MarketDataIsHonest
  NewsStaysInUniverse
PROPERTY
  EverySessionEnds
CHECK_DEADLOCK FALSE
