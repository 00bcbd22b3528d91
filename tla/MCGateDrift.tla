----------------------------- MODULE MCGateDrift -----------------------------
(* Finite orders and contexts for GateDrift: a clear context and every     *)
(* context with at most two adverse conditions.                            *)
EXTENDS GateDrift

CONSTANTS AAPL

MCSymbols == {SPY, AAPL}

MCOrders ==
  {o \in [sleeve: {"core", "satellite"}, symbol: MCSymbols, side: {"buy", "sell"},
          order_type: {"limit", "market"}, qty: {2}, priced: {TRUE},
          notional: {3000, 6000}, market_order_exception: BOOLEAN,
          satellite_first_tranche: BOOLEAN, wind_down_liquidation: BOOLEAN] :
     /\ o.satellite_first_tranche => o.sleeve = "satellite"
     /\ o.order_type = "limit" => o.symbol = AAPL /\ ~o.market_order_exception
     /\ o.wind_down_liquidation => o.notional = 6000}

Clear ==
  [core_nav |-> 90000, satellite_nav |-> 10000,
   core_allowed_symbols |-> MCSymbols, satellite_allowed_symbols |-> MCSymbols,
   core_liquid |-> TRUE, satellite_liquid |-> TRUE,
   core_earnings_window |-> FALSE, otc_or_penny |-> FALSE,
   pdt_restricted |-> TRUE, day_trades |-> 0, would_be_day_trade |-> TRUE,
   core_daily_loss_halt |-> FALSE, satellite_daily_loss_halt |-> FALSE,
   core_drawdown_halt |-> FALSE, core_uncle |-> FALSE, satellite_uncle |-> FALSE,
   paused |-> FALSE, soft_wind_down |-> FALSE, hard_wind_down |-> FALSE,
   trades_today |-> 0, buying_power |-> None, position_qty |-> None,
   max_core_deploy |-> None]

Adversities ==
  {"paused", "core_uncle", "satellite_uncle", "hard_wind_down", "soft_wind_down",
   "drawdown", "core_loss", "satellite_loss", "day_trades", "count_lost", "otc", "delisted",
   "illiquid", "earnings", "cadence", "low_cash", "low_nav", "phase_cap", "short"}

Adverse(a) ==
  [Clear EXCEPT
     !.paused = "paused" \in a, !.core_uncle = "core_uncle" \in a,
     !.satellite_uncle = "satellite_uncle" \in a, !.hard_wind_down = "hard_wind_down" \in a,
     !.soft_wind_down = "soft_wind_down" \in a, !.core_drawdown_halt = "drawdown" \in a,
     !.core_daily_loss_halt = "core_loss" \in a,
     !.satellite_daily_loss_halt = "satellite_loss" \in a,
     !.day_trades = IF "count_lost" \in a THEN None ELSE IF "day_trades" \in a THEN 2 ELSE 0,
     !.otc_or_penny = "otc" \in a,
     !.core_allowed_symbols = IF "delisted" \in a THEN {SPY} ELSE MCSymbols,
     !.satellite_allowed_symbols = IF "delisted" \in a THEN {SPY} ELSE MCSymbols,
     !.core_liquid = "illiquid" \notin a, !.satellite_liquid = "illiquid" \notin a,
     !.core_earnings_window = "earnings" \in a,
     !.trades_today = IF "cadence" \in a THEN 3 ELSE 0,
     !.buying_power = IF "low_cash" \in a THEN 5500 ELSE None,
     !.core_nav = IF "low_nav" \in a THEN 40000 ELSE 90000,
     !.satellite_nav = IF "low_nav" \in a THEN 5000 ELSE 10000,
     !.max_core_deploy = IF "phase_cap" \in a THEN 5000 ELSE None,
     !.position_qty = IF "short" \in a THEN 1 ELSE None]

MCContexts == {Clear} \cup {Adverse({a, b}) : a, b \in Adversities}
=============================================================================
