------------------------------ MODULE GateDrift ------------------------------
(***************************************************************************)
(* The gate over time.  A context is derived afresh for every decision, so *)
(* the same order meets contexts that drift: halts fire and clear, buying  *)
(* power and sleeve value move, lists are refreshed.  A position is opened *)
(* by an order that passed in one context and must be closed in another.   *)
(***************************************************************************)
EXTENDS ValidateOrder

CONSTANTS Symbols, Orders, Contexts

ASSUME DriftAssumption ==
  /\ SPY \in Symbols
  /\ Orders \subseteq OrderRequest(Symbols)
  /\ Contexts \subseteq ValidationContext(Symbols)

VARIABLES
  order,     \* the order under discussion
  ctx,       \* the context of the latest derivation
  held       \* TRUE once the order, a buy, has passed and filled

vars == <<order, ctx, held>>

Init == order \in Orders /\ ctx \in Contexts /\ held = FALSE

(* validate_order passes the buy and the broker fills it. *)
Enter == /\ ~held /\ order.side = "buy" /\ Passes(order, ctx)
         /\ held' = TRUE
         /\ UNCHANGED <<order, ctx>>

(* The next routine derives another context. *)
Drift == /\ ctx' \in Contexts
         /\ UNCHANGED <<order, held>>

Next == Enter \/ Drift

Spec == Init /\ [][Next]_vars

-----------------------------------------------------------------------------
(* No optional amount of d leaves more room than that of c. *)
NoRoomier(c, d) == c = None \/ (d # None /\ d <= c)

(* d is at least as restrictive as c in every field the gate reads.  An    *)
(* unknown day-trade count is the strictest, an unknown amount the laxest. *)
AtLeastAsStrict(c, d) ==
  /\ d.core_nav <= c.core_nav /\ d.satellite_nav <= c.satellite_nav
  /\ d.core_allowed_symbols \subseteq c.core_allowed_symbols
  /\ d.satellite_allowed_symbols \subseteq c.satellite_allowed_symbols
  /\ d.core_liquid => c.core_liquid
  /\ d.satellite_liquid => c.satellite_liquid
  /\ c.core_earnings_window => d.core_earnings_window
  /\ c.otc_or_penny => d.otc_or_penny
  /\ c.pdt_restricted => d.pdt_restricted
  /\ c.would_be_day_trade => d.would_be_day_trade
  /\ d.day_trades = None \/ (c.day_trades # None /\ c.day_trades <= d.day_trades)
  /\ c.core_daily_loss_halt => d.core_daily_loss_halt
  /\ c.satellite_daily_loss_halt => d.satellite_daily_loss_halt
  /\ c.core_drawdown_halt => d.core_drawdown_halt
  /\ c.core_uncle => d.core_uncle
  /\ c.satellite_uncle => d.satellite_uncle
  /\ c.paused => d.paused
  /\ c.soft_wind_down => d.soft_wind_down
  /\ c.hard_wind_down => d.hard_wind_down
  /\ c.trades_today <= d.trades_today
  /\ NoRoomier(c.buying_power, d.buying_power)
  /\ NoRoomier(c.position_qty, d.position_qty)
  /\ NoRoomier(c.max_core_deploy, d.max_core_deploy)

(* The sell that closes the position the order opened. *)
Exit == [order EXCEPT !.side = "sell"]

(* The context once the position is on the books. *)
Holding == [ctx EXCEPT !.position_qty = order.qty]

(* The postures in which the source refuses sells as well as buys. *)
SellsFrozen ==
  \/ ctx.paused \/ ctx.core_uncle \/ ctx.satellite_uncle \/ ctx.hard_wind_down
  \/ ctx.soft_wind_down /\ order.symbol = SPY
  \/ PdtObjections(Exit, ctx) # {}
  \/ UniverseObjections(Exit, ctx) # {}
  \/ ctx.trades_today >= MaxTradesPerDayPerSleeve

-----------------------------------------------------------------------------
TypeOK == order \in Orders /\ ctx \in Contexts /\ held \in BOOLEAN

(* A context that is at least as restrictive in every field never lets     *)
(* through an order that the laxer one refused: no rule of validate_order  *)
(* shadows or excuses another.                                             *)
StricterNeverOpens ==
  [][(order' = order /\ AtLeastAsStrict(ctx, ctx'))
       => (Passes(order, ctx') => Passes(order, ctx))]_vars

(* Losses never trap a position: whatever the sleeve value, the drawdown   *)
(* and daily-loss halts, the buying power and the deployment cap become,   *)
(* the sell that closes a position the gate opened is refused only in one  *)
(* of the postures that freeze sells.                                      *)
ExitStaysOpen == (held /\ ~SellsFrozen) => Passes(Exit, Holding)

(* An exception flag waives its own rules and nothing else: liquidation    *)
(* only the uncle and hard wind-down blocks, the market exception only the *)
(* market-order block, a first tranche nothing at all.                     *)
ExceptionsWaiveOnlyTheirRules ==
  LET WithFlags(l, m, t) == Objections([order EXCEPT !.wind_down_liquidation = l,
                                                     !.market_order_exception = m,
                                                     !.satellite_first_tranche = t], ctx)
  IN  \A l, m, t \in BOOLEAN :
        /\ WithFlags(FALSE, m, t) \subseteq WithFlags(TRUE, m, t) \cup {"R-V05-UNCLE", "WD-HARD"}
        /\ WithFlags(l, FALSE, t) \subseteq WithFlags(l, TRUE, t) \cup {"R-V06-MARKET"}
        /\ WithFlags(l, m, FALSE) \subseteq WithFlags(l, m, TRUE)

(* A halt is a firm no: whenever a pause, uncle, wind-down, drawdown or     *)
(* daily-loss objection stands, the verdict is REJECT with one of those    *)
(* rules, never the DEFER of an ambiguous day-trade count.                 *)
HaltIsNeverDeferred ==
  HaltObjections(order, ctx) # {} =>
    LET result == ValidationResult(order, ctx)
    IN  result.verdict = "REJECT" /\ result.rule_id \in HaltObjections(order, ctx)
=============================================================================
