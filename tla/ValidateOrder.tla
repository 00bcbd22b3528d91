---------------------------- MODULE ValidateOrder ----------------------------
(***************************************************************************)
(* The deterministic gate in front of the broker                           *)
(* (risk/validate_order.py).  validate_order is a pure function of an      *)
(* order and a context derived by the caller: every rule contributes its   *)
(* objections, and the first objection in a fixed order is the verdict.    *)
(*                                                                         *)
(* Money is counted in cents and percentages are whole percents.           *)
(***************************************************************************)
EXTENDS Integers

CONSTANTS
  SPY,                          \* the index fund of the soft wind-down posture
  None,                         \* Python's None in an optional context field
  CoreMaxSingleNamePct,         \* RiskLimits, one constant per threshold
  SatelliteMaxSingleNamePct,
  SatelliteFirstTrancheMaxPct,
  MaxTradesPerDayPerSleeve,
  PdtBufferedDayTradeBlockAt,
  BuyingPowerBuffer

ASSUME LimitsAssumption ==
  /\ CoreMaxSingleNamePct \in 0..100
  /\ SatelliteMaxSingleNamePct \in 0..100
  /\ SatelliteFirstTrancheMaxPct \in 0..SatelliteMaxSingleNamePct
  /\ MaxTradesPerDayPerSleeve \in Nat
  /\ PdtBufferedDayTradeBlockAt \in Nat
  /\ BuyingPowerBuffer \in Nat

ASSUME NoneAssumption == None \notin Int

OrderRequest(Symbols) ==
  [sleeve: {"core", "satellite"}, symbol: Symbols, side: {"buy", "sell"},
   order_type: {"limit", "market"}, qty: Nat \ {0},
   priced: BOOLEAN,                      \* limit_price is not None
   notional: Nat \ {0},                  \* estimated_notional_usd
   market_order_exception: BOOLEAN, satellite_first_tranche: BOOLEAN,
   wind_down_liquidation: BOOLEAN]

ValidationContext(Symbols) ==
  [core_nav: Nat \ {0}, satellite_nav: Nat \ {0},
   core_allowed_symbols: SUBSET Symbols, satellite_allowed_symbols: SUBSET Symbols,
   core_liquid: BOOLEAN, satellite_liquid: BOOLEAN,
   core_earnings_window: BOOLEAN, otc_or_penny: BOOLEAN,
   pdt_restricted: BOOLEAN, day_trades: Nat \cup {None}, would_be_day_trade: BOOLEAN,
   core_daily_loss_halt: BOOLEAN, satellite_daily_loss_halt: BOOLEAN,
   core_drawdown_halt: BOOLEAN, core_uncle: BOOLEAN, satellite_uncle: BOOLEAN,
   paused: BOOLEAN, soft_wind_down: BOOLEAN, hard_wind_down: BOOLEAN,
   trades_today: Nat, buying_power: Int \cup {None},
   position_qty: Int \cup {None}, max_core_deploy: Nat \cup {None}]

When(condition, rule) == IF condition THEN {rule} ELSE {}

-----------------------------------------------------------------------------
(* Faulty variants of the rules below; no specification uses them. *)

HaltsEverySide(o, c) ==
  LET daily == IF o.sleeve = "core" THEN c.core_daily_loss_halt
                                    ELSE c.satellite_daily_loss_halt
  IN  When(c.paused, "KS-GLOBAL")
      \cup When(o.sleeve = "core" /\ c.core_drawdown_halt, "R-V05-DD-HALT")
      \cup When(daily, "R-V04-DAILY-LOSS")

SoftWindDownEndsTheHaltChecks(o, c) ==
  LET toSPY == c.soft_wind_down /\ o.sleeve = "core" /\ o.side = "buy" /\ o.symbol = SPY
      halted == o.sleeve = "core" /\ c.core_drawdown_halt /\ o.side = "buy"
  IN  When(c.paused, "KS-GLOBAL")
      \cup When((c.core_uncle \/ c.satellite_uncle) /\ ~o.wind_down_liquidation, "R-V05-UNCLE")
      \cup When(c.hard_wind_down /\ ~o.wind_down_liquidation, "WD-HARD")
      \cup When(halted /\ ~toSPY, "R-V05-DD-HALT")

SizingSkippedForLiquidation(o, c) ==
  When(/\ o.side = "buy" /\ o.sleeve = "core" /\ ~o.wind_down_liquidation
       /\ 100 * o.notional > c.core_nav * CoreMaxSingleNamePct, "R-V01-NOTIONAL")

NameCapAlone(o, c) ==
  When(/\ o.side = "buy" /\ o.sleeve = "core"
       /\ 100 * o.notional > c.core_nav * CoreMaxSingleNamePct, "R-V01-NOTIONAL")

PdtBeforeHalts ==
  << "R-V03-PDT-UNKNOWN", "R-V03-PDT",
     "KS-GLOBAL", "R-V05-UNCLE", "WD-HARD", "WD-SOFT", "R-V05-DD-HALT", "R-V04-DAILY-LOSS",
     "R-V02-OTC", "R-V02-CORE-UNIVERSE", "R-V02-CORE-FILTER", "R-V02-EARNINGS",
     "R-V02-SAT-UNIVERSE", "R-V02-SAT-FILTER",
     "R-V01-NOTIONAL", "R-V01-PHASE-CAP",
     "R-V06-MARKET", "R-V06-LIMIT", "R-V06-CADENCE", "SZ-04-BP", "R-V01-SHORT" >>

-----------------------------------------------------------------------------
(* KS-GLOBAL, uncle, wind-down, drawdown and daily-loss halts.  The early  *)
(* returns of the source only cut objections that a preceding one outranks. *)
HaltObjections(o, c) ==
  LET discretionary == ~o.wind_down_liquidation
      core          == o.sleeve = "core"
      dailyHalt     == IF core THEN c.core_daily_loss_halt ELSE c.satellite_daily_loss_halt
      leavesSPY     == \/ o.side = "buy" /\ o.symbol # SPY
                       \/ o.side = "sell" /\ o.symbol = SPY
  IN  When(c.paused, "KS-GLOBAL")
      \cup When(discretionary /\ (c.core_uncle \/ c.satellite_uncle), "R-V05-UNCLE")
      \cup When(discretionary /\ c.hard_wind_down, "WD-HARD")
      \cup When(core /\ c.soft_wind_down /\ leavesSPY, "WD-SOFT")
      \cup When(core /\ c.core_drawdown_halt /\ o.side = "buy", "R-V05-DD-HALT")
      \cup When(dailyHalt /\ o.side = "buy", "R-V04-DAILY-LOSS")

(* A day trade under the PDT threshold: an unknown broker count defers. *)
PdtObjections(o, c) ==
  LET watched == c.pdt_restricted /\ c.would_be_day_trade
  IN  When(watched /\ c.day_trades = None, "R-V03-PDT-UNKNOWN")
      \cup When(/\ watched /\ c.day_trades # None
                /\ c.day_trades >= PdtBufferedDayTradeBlockAt, "R-V03-PDT")

(* Universe membership and price / liquidity filters; sells are not exempt. *)
UniverseObjections(o, c) ==
  LET core == o.sleeve = "core"
  IN  When(c.otc_or_penny, "R-V02-OTC")
      \cup When(core /\ o.symbol \notin c.core_allowed_symbols, "R-V02-CORE-UNIVERSE")
      \cup When(core /\ ~c.core_liquid, "R-V02-CORE-FILTER")
      \cup When(core /\ c.core_earnings_window, "R-V02-EARNINGS")
      \cup When(~core /\ o.symbol \notin c.satellite_allowed_symbols, "R-V02-SAT-UNIVERSE")
      \cup When(~core /\ ~c.satellite_liquid, "R-V02-SAT-FILTER")

CapPct(o) ==
  CASE o.sleeve = "core"          -> CoreMaxSingleNamePct
    [] o.sleeve # "core" /\ o.satellite_first_tranche  -> SatelliteFirstTrancheMaxPct
    [] o.sleeve # "core" /\ ~o.satellite_first_tranche -> SatelliteMaxSingleNamePct

SleeveNav(o, c) == IF o.sleeve = "core" THEN c.core_nav ELSE c.satellite_nav

(* Decimal.quantize to the cent: n hundredths of a cent, half to even. *)
Quantize(n) ==
  LET q == n \div 100   r == n % 100
  IN  IF 2 * r > 100 \/ (2 * r = 100 /\ q % 2 = 1) THEN q + 1 ELSE q

(* Single-name cap of the sleeve, then the Core deployment cap: buys only, *)
(* and each compares this one order's notional. *)
SizingObjections(o, c) ==
  LET buy == o.side = "buy"
  IN  When(buy /\ o.notional > Quantize(SleeveNav(o, c) * CapPct(o)), "R-V01-NOTIONAL")
      \cup When(/\ buy /\ o.sleeve = "core" /\ c.max_core_deploy # None
                /\ o.notional > c.max_core_deploy, "R-V01-PHASE-CAP")

OrderTypeObjections(o, c) ==
  When(o.order_type = "market" /\ ~o.market_order_exception, "R-V06-MARKET")
  \cup When(o.order_type = "limit" /\ ~o.priced, "R-V06-LIMIT")
  \cup When(c.trades_today >= MaxTradesPerDayPerSleeve, "R-V06-CADENCE")

(* An unknown buying power or position skips its check. *)
BuyingPowerObjections(o, c) ==
  When(/\ o.side = "buy" /\ c.buying_power # None
       /\ o.notional > c.buying_power - BuyingPowerBuffer, "SZ-04-BP")

PositionObjections(o, c) ==
  When(/\ o.side = "sell" /\ c.position_qty # None
       /\ o.qty > c.position_qty, "R-V01-SHORT")

-----------------------------------------------------------------------------
Objections(o, c) ==
  HaltObjections(o, c) \cup PdtObjections(o, c) \cup UniverseObjections(o, c)
  \cup SizingObjections(o, c) \cup OrderTypeObjections(o, c)
  \cup BuyingPowerObjections(o, c) \cup PositionObjections(o, c)

(* The order in which the source collects its checks. *)
Precedence ==
  << "KS-GLOBAL", "R-V05-UNCLE", "WD-HARD", "WD-SOFT", "R-V05-DD-HALT", "R-V04-DAILY-LOSS",
     "R-V03-PDT-UNKNOWN", "R-V03-PDT",
     "R-V02-OTC", "R-V02-CORE-UNIVERSE", "R-V02-CORE-FILTER", "R-V02-EARNINGS",
     "R-V02-SAT-UNIVERSE", "R-V02-SAT-FILTER",
     "R-V01-NOTIONAL", "R-V01-PHASE-CAP",
     "R-V06-MARKET", "R-V06-LIMIT", "R-V06-CADENCE", "SZ-04-BP", "R-V01-SHORT" >>

FirstRule(hits) ==
  Precedence[CHOOSE i \in DOMAIN Precedence :
               /\ Precedence[i] \in hits
               /\ \A j \in 1..(i - 1) : Precedence[j] \notin hits]

Passes(o, c) == Objections(o, c) = {}

ValidationResult(o, c) ==
  LET rule == IF Passes(o, c) THEN "R-VOK" ELSE FirstRule(Objections(o, c))
  IN  [rule_id |-> rule,
       verdict |-> CASE rule = "R-VOK"             -> "PASS"
                     [] rule = "R-V03-PDT-UNKNOWN" -> "DEFER"
                     [] OTHER                      -> "REJECT"]
=============================================================================
