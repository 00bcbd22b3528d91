------------------------------- MODULE MCDesk -------------------------------
(* Finite equities, accounts, performances, lists and orders for Desk: one *)
(* adversity at a time on top of whatever the equities have come to.       *)
EXTENDS Desk

CONSTANTS AAPL

MCSymbols == {SPY, AAPL}

Market(active, tradable) ==
  [s \in MCSymbols |-> [active   |-> s = SPY \/ active,
                        tradable |-> s = SPY \/ tradable]]
MCMarkets == {Market(TRUE, TRUE), Market(TRUE, FALSE), Market(FALSE, TRUE)}

(* 85 and 75 are the Core thresholds of a peak of 100, 20 the Satellite's. *)
MCCoreEquities      == {75, 85, 100}
MCSatelliteEquities == {20, 100}

MCAccounts ==
  {[trading_blocked |-> b, buying_power |-> 100000, equity |-> 100000, daytrade_count |-> None] :
     b \in BOOLEAN}

Even == [sharpe |-> 1, return |-> 0, core_pnl |-> 0, satellite_pnl |-> 0,
         trades |-> [s \in Sleeves |-> 0]]
MCPerformances ==
  {Even, [Even EXCEPT !.core_pnl = -1800], [Even EXCEPT !.satellite_pnl = -1000],
   [Even EXCEPT !.sharpe = -1, !.return = -9], [Even EXCEPT !.sharpe = -1, !.return = -10],
   [Even EXCEPT !.trades["core"] = 3],
   [Even EXCEPT !.sharpe = None, !.core_pnl = None, !.satellite_pnl = None]}

MCOrders ==
  {[sleeve |-> sleeve, symbol |-> symbol, side |-> side, order_type |-> "limit", qty |-> 1,
    priced |-> TRUE, notional |-> 2000, market_order_exception |-> FALSE,
    satellite_first_tranche |-> FALSE, wind_down_liquidation |-> l] :
     sleeve \in Sleeves, symbol \in MCSymbols, side \in {"buy", "sell"}, l \in BOOLEAN}
=============================================================================
