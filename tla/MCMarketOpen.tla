---------------------------- MODULE MCMarketOpen ----------------------------
(* Finite decisions, accounts and tickers for MarketOpen. *)
EXTENDS MarketOpen

CONSTANTS r1, r2, r3, r4

(* 90000 cents of Core, capped at 12% = 10800 per name and 5000 deployed. *)
Buy(qty, price, conf, thesis) ==
  [action |-> "BUY", ticker |-> "SPY", qty |-> qty, order_type |-> "limit",
   limit_price |-> price, confidence |-> conf, market_order_exception |-> FALSE,
   thesis |-> thesis]

AtCap      == Buy(2, 2500, 70, "at the cap")
OverCap    == Buy(2, 2501, 90, "over the cap")
Hesitant   == Buy(1, 2500, 69, "not sure")
Malformed  == [Buy(1, 2500, 90, "bad price") EXCEPT !.limit_price = MalformedPrice]
Incomplete == [Buy(1, 2500, 90, "no size") EXCEPT !.qty = 0]
LowerCase  == [AtCap EXCEPT !.ticker = "spy"]
Unlisted   == [AtCap EXCEPT !.ticker = "OTC"]
Market     == [Buy(3, None, 90, "now") EXCEPT !.order_type = "market"]
MarketX    == [Market EXCEPT !.market_order_exception = TRUE]
SellAll    == [Buy(3, 9000, 90, "out") EXCEPT !.action = "SELL"]
NoTrade    == [action |-> "NO_TRADE", ticker |-> None, qty |-> 0, order_type |-> "none",
               limit_price |-> None, confidence |-> 0, market_order_exception |-> FALSE,
               thesis |-> "wait"]

MCUpper     == [t \in {"SPY", "spy", "OTC"} |-> IF t = "spy" THEN "SPY" ELSE t]
AccountWith(blocked, cash) ==
  [trading_blocked |-> blocked, buying_power |-> cash, equity |-> 100000, daytrade_count |-> None]
Funded        == {AccountWith(FALSE, 100000)}
EdgeAccounts  == {AccountWith(FALSE, 5500), AccountWith(FALSE, 5499), AccountWith(TRUE, 100000)}

SerialDecisions  == {AtCap, OverCap, Hesitant, Malformed, Market, MarketX, NoTrade}
OverlapDecisions == {AtCap, LowerCase, OverCap, Incomplete, SellAll, Unlisted}
MarketDecisions  == {Market, MarketX}
FourBuys == {[AtCap EXCEPT !.thesis = t] : t \in {"one", "two", "three", "four"}}
=============================================================================
