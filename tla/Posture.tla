------------------------------- MODULE Posture -------------------------------
(***************************************************************************)
(* The rules that turn equity, profit and loss and rolling performance     *)
(* into the posture flags of a validation context (risk/drawdown.py,       *)
(* risk/wind_down.py and the helpers of routines/composition.py).  A ratio *)
(* is compared by cross-multiplication, in whole percents.                 *)
(***************************************************************************)
EXTENDS ValidateOrder

(* Peak to trough: halt at -15%, uncle at -25% for Core, -80% for Satellite. *)
CoreHaltPct       == 15
CoreUnclePct      == 25
SatelliteUnclePct == 80

-----------------------------------------------------------------------------
(* Faulty variants of the rules below; no specification uses them. *)

HaltGivesWayToUncle(hwm, equity) ==
  LET fell(pct) == 100 * (equity - hwm) <= -(pct * hwm)
  IN  [halt |-> fell(15) /\ ~fell(25), uncle |-> fell(25)]

BeyondThresholdOnly(hwm, equity) ==
  LET fell(pct) == 100 * (equity - hwm) < -(pct * hwm)
  IN  [halt |-> fell(15), uncle |-> fell(25)]

-----------------------------------------------------------------------------
(* The peak never drops, and a recovery does not reset it. *)
NextHighWaterMark(previous, observed) == IF observed > previous THEN observed ELSE previous

(* (E - P) / P <= -pct, the threshold included. *)
FellBy(pct, hwm, equity) == 100 * (equity - hwm) <= -(pct * hwm)

CoreDrawdownFlags(hwm, equity) ==
  [halt |-> FellBy(CoreHaltPct, hwm, equity), uncle |-> FellBy(CoreUnclePct, hwm, equity)]

SatelliteDrawdownFlags(hwm, equity) ==
  [halt |-> FALSE, uncle |-> FellBy(SatelliteUnclePct, hwm, equity)]

(* Without a peak or an equity there is no flag. *)
ComputeDrawdownFlags(sleeve, hwm, equity) ==
  IF hwm = None \/ equity = None THEN [halt |-> FALSE, uncle |-> FALSE]
  ELSE IF sleeve = "satellite" THEN SatelliteDrawdownFlags(hwm, equity)
  ELSE CoreDrawdownFlags(hwm, equity)

(* Rolling Sharpe below SPY's while Core has returned more than -10% since *)
(* the start; without both numbers there is no signal.                     *)
SoftWindDownCoreToSpy(sharpe, return) ==
  /\ sharpe # None /\ sharpe < 0
  /\ return # None /\ return > -10

DailyLossHalt(pnl, nav, pct) == pnl # None /\ 100 * pnl <= -(nav * pct)
=============================================================================
