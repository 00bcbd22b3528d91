SPECIFICATION Spec
CONSTANTS
  MaxToolIterations = 3
  MaxAttempts = 3
  Cap = 4
  CallCosts = {1, 2}
  ToolRequests <- MCRealRequests
  ApiFaults = {"busy", "fatal"}
  NoText = NoText
  AllowedSymbols <- MCAllowed
  Queries <- MCQueries
  QuoteReplies <- MCQuotes
  BarReplies <- MCBars
  NewsReplies <- MCNews
INVARIANT
  ResearchIsLatest
CHECK_DEADLOCK FALSE
