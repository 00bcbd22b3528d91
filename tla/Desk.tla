-------------------------------- MODULE Desk --------------------------------
(***************************************************************************)
(* What a firing composes before anyone decides anything                   *)
(* (routines/composition.py): the posture flags and the universe of the    *)
(* validation context, from sleeve equities that move, from peaks that are *)
(* tracked, and from asset lists that are refreshed next to it.            *)
(*                                                                         *)
(* drawdown_state is an optional argument.  market_open passes none;       *)
(* "fed" compositions stand for a caller that keeps the peaks with         *)
(* next_high_water_mark, as doctrine/risk_policy.md and the tests have it. *)
(***************************************************************************)
EXTENDS Posture, AssetList

CONSTANTS
  CoreEquities, SatelliteEquities,  \* the equities a sleeve may be marked at
  Accounts,                         \* what the broker may answer
  Performances,                     \* the rest of a drawdown state
  Orders,                           \* orders the gate may be asked about
  CoreNav, SatelliteNav, CoreDailyLossPct, SatelliteDailyLossPct,
  PdtThreshold, PhaseCoreDeployCap

Account ==
  [trading_blocked: BOOLEAN, buying_power: Int, equity: Nat \ {0},
   daytrade_count: Nat \cup {None}]

(* Percents and cents; None where the caller has no number. *)
Performance ==
  [sharpe: Int \cup {None}, return: Int \cup {None},
   core_pnl: Int \cup {None}, satellite_pnl: Int \cup {None},
   trades: [{"core", "satellite"} -> Nat]]

ASSUME DeskAssumption ==
  /\ CoreEquities \subseteq Nat \ {0} /\ SatelliteEquities \subseteq Nat \ {0}
  /\ Accounts \subseteq Account /\ Performances \subseteq Performance
  /\ Orders \subseteq OrderRequest(Symbols)
  /\ CoreNav \in Nat \ {0} /\ SatelliteNav \in Nat \ {0}
  /\ CoreDailyLossPct \in 0..100 /\ SatelliteDailyLossPct \in 0..100
  /\ PdtThreshold \in Nat /\ PhaseCoreDeployCap \in Nat \cup {None}

VARIABLES
  equity,     \* the equity of each sleeve
  hwm,        \* the high-water mark the caller keeps for each sleeve
  peak,       \* history: the highest equity each sleeve was ever marked at
  snapshot,   \* the snapshot of the firing under way, None between firings
  haltedAt    \* history: the Core equity of the last fed snapshot if that
              \* one was halted, else None

deskVars == <<equity, hwm, peak, snapshot, haltedAt>>
vars     == <<assetVars, deskVars>>

Sleeves == {"core", "satellite"}
Equities(sleeve) == IF sleeve = "core" THEN CoreEquities ELSE SatelliteEquities

(* DrawdownState() as the routine leaves it: nothing is known. *)
NothingKnown ==
  [hwm |-> [s \in Sleeves |-> None], equity |-> [s \in Sleeves |-> None],
   performance |-> [sharpe |-> None, return |-> None, core_pnl |-> None,
                    satellite_pnl |-> None, trades |-> [s \in Sleeves |-> 0]]]

Init ==
  /\ AssetListInit
  /\ equity \in [Sleeves -> CoreEquities \cup SatelliteEquities]
  /\ \A s \in Sleeves : equity[s] \in Equities(s)
  /\ hwm = equity /\ peak = equity
  /\ snapshot = None /\ haltedAt = None

-----------------------------------------------------------------------------
(* The flags of a snapshot composed from drawdown state dd. *)
Flags(dd) ==
  LET core      == ComputeDrawdownFlags("core", dd.hwm["core"], dd.equity["core"])
      satellite == ComputeDrawdownFlags("satellite", dd.hwm["satellite"], dd.equity["satellite"])
  IN  [core_drawdown_halt |-> core.halt,
       core_uncle         |-> core.uncle,
       satellite_uncle    |-> satellite.uncle,
       soft_wind_down |-> SoftWindDownCoreToSpy(dd.performance.sharpe, dd.performance.return),
       core_daily_loss_halt |-> DailyLossHalt(dd.performance.core_pnl, CoreNav, CoreDailyLossPct),
       satellite_daily_loss_halt |->
         DailyLossHalt(dd.performance.satellite_pnl, SatelliteNav, SatelliteDailyLossPct)]

(* build_validation_context_from_account on snapshot p. *)
Context(p) ==
  [core_nav |-> CoreNav, satellite_nav |-> SatelliteNav,
   core_allowed_symbols |-> p.allowed, satellite_allowed_symbols |-> p.allowed,
   core_liquid |-> TRUE, satellite_liquid |-> TRUE,
   core_earnings_window |-> FALSE, otc_or_penny |-> FALSE,
   pdt_restricted |-> p.account.equity < PdtThreshold,
   day_trades |-> p.account.daytrade_count, would_be_day_trade |-> FALSE,
   core_daily_loss_halt |-> p.flags.core_daily_loss_halt,
   satellite_daily_loss_halt |-> p.flags.satellite_daily_loss_halt,
   core_drawdown_halt |-> p.flags.core_drawdown_halt,
   core_uncle |-> p.flags.core_uncle, satellite_uncle |-> p.flags.satellite_uncle,
   paused |-> p.killed \/ p.account.trading_blocked,
   soft_wind_down |-> p.flags.soft_wind_down, hard_wind_down |-> FALSE,
   trades_today |-> p.trades, buying_power |-> p.account.buying_power,
   position_qty |-> None, max_core_deploy |-> PhaseCoreDeployCap]

(* Faulty variant of TradingBlocked; no specification uses it. *)
SatelliteUncleStopsNobody(p) ==
  p.killed \/ p.account.trading_blocked \/ p.flags.core_drawdown_halt \/ p.flags.core_uncle

(* trading_blocked: the firing is journaled as NO_TRADE before it starts.  *)
TradingBlocked(p) ==
  \/ p.killed \/ p.account.trading_blocked
  \/ p.flags.core_drawdown_halt \/ p.flags.core_uncle \/ p.flags.satellite_uncle

(* A sleeve is marked to market and its caller updates the peak. *)
MarkToMarket(s) ==
  /\ \E e \in Equities(s) :
       /\ equity' = [equity EXCEPT ![s] = e]
       /\ hwm' = [hwm EXCEPT ![s] = NextHighWaterMark(@, e)]
       /\ peak' = IF e > peak[s] THEN [peak EXCEPT ![s] = e] ELSE peak
  /\ UNCHANGED <<snapshot, haltedAt, assetVars>>

(* compose_routine_snapshot, for either sleeve, fed or not.  It raises     *)
(* when the asset list cannot be loaded: there is no firing then.          *)
Compose ==
  /\ snapshot = None /\ CanLoad
  /\ \E sleeve \in Sleeves, killed, fed \in BOOLEAN, account \in Accounts,
        performance \in Performances :
       LET dd == IF fed THEN [hwm |-> hwm, equity |-> equity, performance |-> performance]
                 ELSE NothingKnown
           flags == Flags(dd)
       IN  /\ snapshot' = [sleeve |-> sleeve, killed |-> killed, account |-> account,
                           allowed |-> LatestTradableSymbols, flags |-> flags,
                           trades |-> dd.performance.trades[sleeve],
                           fed |-> fed, core_pnl |-> dd.performance.core_pnl]
           /\ haltedAt' = IF ~fed THEN haltedAt
                          ELSE IF flags.core_drawdown_halt THEN equity["core"] ELSE None
  /\ UNCHANGED <<equity, hwm, peak, assetVars>>

FiringEnds ==
  /\ snapshot # None /\ snapshot' = None
  /\ UNCHANGED <<equity, hwm, peak, haltedAt, assetVars>>

Next ==
  \/ \E s \in Sleeves : MarkToMarket(s)
  \/ Compose \/ FiringEnds
  \/ AssetListNext /\ UNCHANGED deskVars

Spec == Init /\ [][Next]_vars

-----------------------------------------------------------------------------
Firing   == snapshot # None
Composed == ~Firing /\ Firing'

TypeOK ==
  /\ AssetListTypeOK
  /\ \A s \in Sleeves : {equity[s], hwm[s], peak[s]} \subseteq Equities(s)
  /\ haltedAt \in CoreEquities \cup {None}
  /\ Firing => Context(snapshot) \in ValidationContext(Symbols)

(* Losses reach the gate: once Core has lost 15% of the highest equity it  *)
(* was ever marked at, or its daily limit, no composition fed with its     *)
(* numbers leads to a context in which the gate lets a Core buy through,   *)
(* liquidation and market-order exceptions included.                       *)
Lost(pnl) ==
  \/ 100 * (peak["core"] - equity["core"]) >= 15 * peak["core"]
  \/ pnl # None /\ 100 * pnl <= -(CoreDailyLossPct * CoreNav)

LossesStopBuys ==
  [][(Composed /\ snapshot'.fed /\ Lost(snapshot'.core_pnl))
      => \A o \in Orders : (o.sleeve = "core" /\ o.side = "buy")
                            => ~Passes(o, Context(snapshot'))]_vars

(* The halt cannot oscillate (DD-05): from one fed snapshot to the next it *)
(* is lifted only if Core stands higher than when it was last in force.    *)
HaltLiftsOnlyOnRecovery ==
  [][(haltedAt # None /\ haltedAt' = None) => equity'["core"] > haltedAt]_vars

(* The composition's NO_TRADE and the gate's verdict are computed in two   *)
(* places from the same flags: a firing is blocked exactly when the gate   *)
(* would refuse every discretionary Core buy for a pause, an uncle or the  *)
(* drawdown halt.                                                          *)
BlocksAgree ==
  LET halting == {"KS-GLOBAL", "R-V05-UNCLE", "R-V05-DD-HALT"}
  IN  Firing => \A o \in Orders :
        (o.sleeve = "core" /\ o.side = "buy" /\ ~o.wind_down_liquidation) =>
          (TradingBlocked(snapshot) <=> HaltObjections(o, Context(snapshot)) \cap halting # {})

(* A composition that finds a torn list, or none, does not fall back: what *)
(* its firing may trade is what the broker listed as tradable at the       *)
(* latest refresh that got as far as the disk, and no symbol halted or     *)
(* delisted since an older list passes the gate.                           *)
NoStaleUniverse ==
  [][Composed => \A o \in Orders :
       Passes(o, Context(snapshot')) => [symbol |-> o.symbol, tradable |-> TRUE] \in fetched]_vars
=============================================================================
