----------------------------- MODULE Desk_proofs -----------------------------
(***************************************************************************)
(* Proofs about the composition, for any equities, accounts, performances, *)
(* markets and orders: losses reach the gate, the drawdown halt does not   *)
(* oscillate, composition and gate agree on who is blocked, and a firing   *)
(* trades what the latest refresh has fetched.                             *)
(***************************************************************************)
EXTENDS Desk, TLAPS

(* The peak the caller keeps is the highest equity ever marked. *)
PeaksTracked ==
  /\ equity \in [Sleeves -> CoreEquities \cup SatelliteEquities]
  /\ peak \in [Sleeves -> CoreEquities \cup SatelliteEquities]
  /\ \A s \in Sleeves : equity[s] \in Equities(s) /\ peak[s] \in Equities(s)
  /\ hwm = peak

(* The equity at which the halt was last in force is still beyond it: the  *)
(* peak has only grown since.                                              *)
HaltRemembered ==
  haltedAt # None =>
    haltedAt \in CoreEquities /\ FellBy(CoreHaltPct, hwm["core"], haltedAt)

(* d is the latest day with a list. *)
IsLatest(d) == d \in Listed /\ \A e \in Listed : e <= d

(* Only the latest list is ever written, none is dated ahead, and one that *)
(* is whole holds what the last refresh fetched.                           *)
LatestIsFetched ==
  /\ \A d \in Listed : d <= day
  /\ Listed # {} => \E d \in Listed : IsLatest(d)
  /\ target # 0 => IsLatest(target) /\ files[target].state = "torn"
  /\ \A d \in Listed : (IsLatest(d) /\ files[d].state = "whole") => files[d].assets = fetched

DrawdownFlags ==
  [core_drawdown_halt: BOOLEAN, core_uncle: BOOLEAN, satellite_uncle: BOOLEAN,
   soft_wind_down: BOOLEAN, core_daily_loss_halt: BOOLEAN, satellite_daily_loss_halt: BOOLEAN]

Snapshot(p) ==
  /\ p.account \in Accounts /\ p.killed \in BOOLEAN
  /\ p.allowed \in SUBSET Symbols /\ p.flags \in DrawdownFlags /\ p.trades \in Nat

Inv ==
  /\ AssetListTypeOK /\ LatestIsFetched
  /\ PeaksTracked /\ HaltRemembered
  /\ Firing => Snapshot(snapshot)

-----------------------------------------------------------------------------
(* An equity is a number, and no number is None. *)
LEMMA EquitiesAreNumbers ==
  /\ CoreEquities \subseteq Nat \ {0} /\ SatelliteEquities \subseteq Nat \ {0}
  /\ \A s \in Sleeves : Equities(s) \subseteq CoreEquities \cup SatelliteEquities
  /\ \A n \in Int : n # None
BY DeskAssumption, NoneAssumption DEF Equities

LEMMA CoreNumbers ==
  ASSUME PeaksTracked
  PROVE  /\ hwm = peak /\ peak["core"] \in Nat /\ equity["core"] \in CoreEquities
         /\ equity["core"] \in Nat /\ equity["core"] # None /\ hwm["core"] # None
<1>1. "core" \in Sleeves /\ Equities("core") = CoreEquities BY DEF Sleeves, Equities
<1>2. hwm = peak /\ peak["core"] \in CoreEquities /\ equity["core"] \in CoreEquities
  BY <1>1 DEF PeaksTracked
<1>3. peak["core"] \in Nat /\ equity["core"] \in Nat BY <1>2, EquitiesAreNumbers
<1>4. peak["core"] # None /\ equity["core"] # None BY <1>3, NoneAssumption
<1> QED BY <1>2, <1>3, <1>4

(* Drawdown is monotone: a fall from a peak is one from every higher peak. *)
LEMMA FellFromHigher ==
  ASSUME NEW low \in Nat, NEW high \in Nat, NEW e \in Nat, low <= high,
         FellBy(CoreHaltPct, low, e)
  PROVE  FellBy(CoreHaltPct, high, e)
BY DEF FellBy, CoreHaltPct

(* Of two equities measured from one peak, the one that is not beyond the  *)
(* threshold is the higher.                                                *)
LEMMA RecoveredAbove ==
  ASSUME NEW h \in Nat, NEW low \in Nat, NEW e \in Nat,
         FellBy(CoreHaltPct, h, low), ~FellBy(CoreHaltPct, h, e)
  PROVE  e > low
BY DEF FellBy, CoreHaltPct

(* The flags of a composition, fed or not, are truth values. *)
DrawdownStateOf(fed, performance) ==
  IF fed THEN [hwm |-> hwm, equity |-> equity, performance |-> performance] ELSE NothingKnown

LEMMA FlagsType ==
  ASSUME PeaksTracked, NEW fed \in BOOLEAN, NEW performance \in Performance
  PROVE  Flags(DrawdownStateOf(fed, performance)) \in DrawdownFlags
<1> DEFINE dd == DrawdownStateOf(fed, performance)
<1>1. ASSUME NEW sleeve, NEW h, NEW e
      PROVE  /\ ComputeDrawdownFlags(sleeve, h, e).halt \in BOOLEAN
             /\ ComputeDrawdownFlags(sleeve, h, e).uncle \in BOOLEAN
  <2>1. \A pct : FellBy(pct, h, e) \in BOOLEAN BY DEF FellBy
  <2> QED BY <2>1 DEF ComputeDrawdownFlags, CoreDrawdownFlags, SatelliteDrawdownFlags
<1>2. ASSUME NEW sharpe, NEW return PROVE SoftWindDownCoreToSpy(sharpe, return) \in BOOLEAN
  BY DEF SoftWindDownCoreToSpy
<1>3. ASSUME NEW pnl, NEW nav, NEW pct PROVE DailyLossHalt(pnl, nav, pct) \in BOOLEAN
  BY DEF DailyLossHalt
<1> HIDE DEF dd
<1>4. Flags(dd) \in DrawdownFlags
  BY <1>1, <1>2, <1>3 DEF Flags, DrawdownFlags
<1> QED BY <1>4 DEF dd

LEMMA InitInv == Init => Inv
<1> SUFFICES ASSUME Init PROVE Inv OBVIOUS
<1>1. 1 \in 1..MaxDay BY AssetListAssumption
<1>2. AssetListTypeOK
  BY <1>1, AssetListAssumption DEF Init, AssetListInit, AssetListTypeOK, Missing
<1>3. Listed = {} BY DEF Init, AssetListInit, Listed, Missing
<1>4. LatestIsFetched BY <1>3 DEF LatestIsFetched, Init, AssetListInit
<1>5. PeaksTracked /\ HaltRemembered /\ ~Firing
  BY DEF Init, PeaksTracked, HaltRemembered, Firing
<1> QED BY <1>2, <1>4, <1>5 DEF Inv

-----------------------------------------------------------------------------
(* Only the day, the files, the target and what was fetched matter to the  *)
(* asset list, and only the rest to the posture.                           *)
LEMMA MarkInv ==
  ASSUME Inv, NEW s \in Sleeves, MarkToMarket(s) PROVE Inv'
<1>1. PICK e \in Equities(s) :
        /\ equity' = [equity EXCEPT ![s] = e]
        /\ hwm' = [hwm EXCEPT ![s] = NextHighWaterMark(@, e)]
        /\ peak' = IF e > peak[s] THEN [peak EXCEPT ![s] = e] ELSE peak
  BY DEF MarkToMarket
<1>2. PeaksTracked /\ UNCHANGED <<snapshot, haltedAt, assetVars>>
  BY DEF Inv, MarkToMarket
<1>3. hwm' = peak'
  BY <1>1, <1>2 DEF PeaksTracked, NextHighWaterMark
<1>4. PeaksTracked'
  <2>1. e \in CoreEquities \cup SatelliteEquities BY EquitiesAreNumbers
  <2> QED BY <1>1, <1>2, <1>3, <2>1 DEF PeaksTracked
<1>5. peak["core"] \in Nat /\ peak'["core"] \in Nat /\ peak["core"] <= peak'["core"]
  <2>1. /\ "core" \in Sleeves /\ Equities("core") \subseteq Nat
        /\ Equities(s) \subseteq Nat
    BY EquitiesAreNumbers DEF Sleeves, Equities
  <2>2. peak["core"] \in Nat /\ peak[s] \in Nat /\ e \in Nat
    BY <1>2, <2>1 DEF PeaksTracked
  <2> QED BY <1>1, <1>2, <2>1, <2>2 DEF PeaksTracked
<1>6. HaltRemembered'
  <2> SUFFICES ASSUME haltedAt # None
               PROVE  haltedAt \in CoreEquities /\ FellBy(CoreHaltPct, hwm'["core"], haltedAt)
    BY <1>2 DEF HaltRemembered
  <2>1. haltedAt \in CoreEquities /\ FellBy(CoreHaltPct, peak["core"], haltedAt)
    BY <1>2 DEF Inv, HaltRemembered, PeaksTracked
  <2>2. haltedAt \in Nat BY <2>1, EquitiesAreNumbers
  <2> QED BY <1>3, <1>5, <2>1, <2>2, FellFromHigher
<1>7. AssetListTypeOK' /\ LatestIsFetched'
  BY <1>2 DEF Inv, AssetListTypeOK, LatestIsFetched, IsLatest, Listed, assetVars
<1> QED BY <1>2, <1>4, <1>6, <1>7 DEF Inv, Firing

(* The list a composition reads is the latest one, and whole. *)
LEMMA LoadedList ==
  ASSUME Inv, CanLoad
  PROVE  IsLatest(LatestDay) /\ files[LatestDay].assets = fetched
<1>1. IsLatest(LatestDay)
  <2>1. \E d \in Listed : \A e \in Listed : e <= d
    BY DEF Inv, LatestIsFetched, CanLoad, IsLatest
  <2> QED BY <2>1 DEF LatestDay, IsLatest
<1> QED BY <1>1 DEF Inv, LatestIsFetched, CanLoad, IsLatest

(* What Compose hands over, for the caller's choices. *)
SnapshotOf(sleeve, killed, fed, account, performance) ==
  LET dd == DrawdownStateOf(fed, performance)
  IN  [sleeve |-> sleeve, killed |-> killed, account |-> account,
       allowed |-> LatestTradableSymbols, flags |-> Flags(dd),
       trades |-> dd.performance.trades[sleeve],
       fed |-> fed, core_pnl |-> dd.performance.core_pnl]

LEMMA ComposeStep ==
  ASSUME Inv, Compose
  PROVE  /\ CanLoad /\ UNCHANGED <<equity, hwm, peak, assetVars>>
         /\ \E sleeve \in Sleeves, killed, fed \in BOOLEAN, account \in Accounts,
               performance \in Performances :
              /\ snapshot' = SnapshotOf(sleeve, killed, fed, account, performance)
              /\ haltedAt' = IF ~fed THEN haltedAt
                             ELSE IF Flags(DrawdownStateOf(fed, performance)).core_drawdown_halt
                             THEN equity["core"] ELSE None
BY DEF Compose, SnapshotOf, DrawdownStateOf

(* Fed with its numbers, a composition halts Core beyond the threshold.    *)
LEMMA FedHalt ==
  ASSUME PeaksTracked, NEW performance
  PROVE  Flags(DrawdownStateOf(TRUE, performance)).core_drawdown_halt
           = FellBy(CoreHaltPct, hwm["core"], equity["core"])
<1>1. hwm["core"] # None /\ equity["core"] # None BY CoreNumbers
<1> QED BY <1>1 DEF Flags, DrawdownStateOf, ComputeDrawdownFlags, CoreDrawdownFlags

LEMMA ComposeInv ==
  ASSUME Inv, Compose PROVE Inv'
<1>1. PICK sleeve \in Sleeves, killed \in BOOLEAN, fed \in BOOLEAN, account \in Accounts,
           performance \in Performances :
        /\ snapshot' = SnapshotOf(sleeve, killed, fed, account, performance)
        /\ haltedAt' = IF ~fed THEN haltedAt
                       ELSE IF Flags(DrawdownStateOf(fed, performance)).core_drawdown_halt
                       THEN equity["core"] ELSE None
  BY ComposeStep
<1>2. CanLoad /\ UNCHANGED <<equity, hwm, peak, assetVars>> BY ComposeStep
<1>3. performance \in Performance BY DeskAssumption
<1>4. PeaksTracked BY DEF Inv
<1>5. Snapshot(SnapshotOf(sleeve, killed, fed, account, performance))
  <2>1. LatestTradableSymbols \in SUBSET Symbols
    <3>1. fetched \subseteq Asset BY DEF Inv, AssetListTypeOK
    <3>2. files[LatestDay].assets = fetched BY <1>2, LoadedList
    <3> QED BY <3>1, <3>2 DEF LatestTradableSymbols, TradableIn, Asset
  <2>2. Flags(DrawdownStateOf(fed, performance)) \in DrawdownFlags
    BY <1>3, <1>4, FlagsType
  <2>3. DrawdownStateOf(fed, performance).performance.trades[sleeve] \in Nat
    BY <1>3 DEF DrawdownStateOf, NothingKnown, Performance, Sleeves
  <2> QED BY <2>1, <2>2, <2>3 DEF Snapshot, SnapshotOf
<1>6. HaltRemembered'
  <2> SUFFICES ASSUME haltedAt' # None
               PROVE  haltedAt' \in CoreEquities /\ FellBy(CoreHaltPct, hwm["core"], haltedAt')
    BY <1>2 DEF HaltRemembered
  <2>1. CASE haltedAt' = haltedAt BY <2>1 DEF Inv, HaltRemembered
  <2>2. CASE haltedAt' # haltedAt
    <3>1. /\ fed = TRUE /\ haltedAt' = equity["core"]
          /\ Flags(DrawdownStateOf(fed, performance)).core_drawdown_halt
      BY <1>1, <2>2
    <3>2. FellBy(CoreHaltPct, hwm["core"], equity["core"]) BY <1>4, <3>1, FedHalt
    <3>3. equity["core"] \in CoreEquities BY <1>4, CoreNumbers
    <3> QED BY <3>1, <3>2, <3>3
  <2> QED BY <2>1, <2>2
<1>7. AssetListTypeOK' /\ LatestIsFetched' /\ PeaksTracked'
  BY <1>2 DEF Inv, AssetListTypeOK, LatestIsFetched, IsLatest, Listed, assetVars, PeaksTracked
<1> QED BY <1>1, <1>5, <1>6, <1>7 DEF Inv

LEMMA AssetsType ==
  ASSUME NEW market \in Markets, NEW activeOnly \in BOOLEAN
  PROVE  AssetsOf(market, activeOnly) \subseteq Asset
BY AssetListAssumption DEF AssetsOf, Asset

(* The lists with the file of day d in another state. *)
LEMMA ListedWith ==
  ASSUME AssetListTypeOK, NEW d \in 1..MaxDay, NEW file, file.state # "missing",
         files' = [files EXCEPT ![d] = file]
  PROVE  /\ Listed' = Listed \cup {d} /\ files'[d] = file
         /\ \A e \in 1..MaxDay : e # d => files'[e] = files[e]
BY DEF AssetListTypeOK, Listed

LEMMA AssetListStep ==
  ASSUME AssetListTypeOK, LatestIsFetched, AssetListNext
  PROVE  AssetListTypeOK' /\ LatestIsFetched'
<1>0. /\ day \in 1..MaxDay /\ MaxDay \in Nat /\ target \in 0..MaxDay /\ Listed \subseteq 1..MaxDay
      /\ files \in [1..MaxDay -> [state: {"missing", "torn", "whole"}, assets: SUBSET Asset]]
  BY AssetListAssumption DEF AssetListTypeOK, Listed
<1>1. CASE RefreshStarts
  <2>1. fetched' \subseteq Asset BY <1>1, AssetsType DEF RefreshStarts
  <2>2. /\ target' = day /\ day' = day /\ files' = [files EXCEPT ![day] = Torn]
    BY <1>1 DEF RefreshStarts
  <2>3. Torn.state = "torn" /\ Torn \in [state: {"missing", "torn", "whole"}, assets: SUBSET Asset]
    BY DEF Torn
  <2>4. Listed' = Listed \cup {day} /\ files'[day] = Torn
    BY <1>0, <2>2, <2>3, ListedWith
  <2>5. AssetListTypeOK' BY <1>0, <2>1, <2>2, <2>3 DEF AssetListTypeOK
  <2>6. \A d \in Listed' : d <= day' BY <1>0, <2>2, <2>4 DEF LatestIsFetched
  <2>7. IsLatest(day)' BY <2>2, <2>4, <2>6 DEF IsLatest
  <2>8. ASSUME NEW d \in Listed', IsLatest(d)' PROVE d = day
    <3>1. d \in 1..MaxDay BY <1>0, <2>4
    <3>2. d <= day /\ day <= d BY <2>2, <2>4, <2>6, <2>8 DEF IsLatest
    <3> QED BY <1>0, <3>1, <3>2
  <2> QED BY <2>2, <2>3, <2>4, <2>5, <2>6, <2>7, <2>8 DEF LatestIsFetched, IsLatest
<1>2. CASE RefreshEnds
  <2> DEFINE file == [state |-> "whole", assets |-> fetched]
  <2>1. /\ target # 0 /\ target' = 0 /\ UNCHANGED <<day, fetched>>
        /\ files' = [files EXCEPT ![target] = file]
    BY <1>2 DEF RefreshEnds
  <2>2. /\ file.state = "whole" /\ file.assets = fetched
        /\ file \in [state: {"missing", "torn", "whole"}, assets: SUBSET Asset]
    BY DEF AssetListTypeOK
  <2> HIDE DEF file
  <2>3. target \in 1..MaxDay /\ IsLatest(target) BY <1>0, <2>1 DEF LatestIsFetched
  <2>4. Listed' = Listed /\ files'[target] = file
    <3>1. file.state # "missing" BY <2>2
    <3>2. Listed' = Listed \cup {target} /\ files'[target] = file
      BY <2>1, <2>3, <3>1, ListedWith
    <3> QED BY <2>3, <3>2 DEF IsLatest
  <2>5. AssetListTypeOK' BY <1>0, <2>1, <2>2 DEF AssetListTypeOK
  <2>6. ASSUME NEW d \in Listed', IsLatest(d)' PROVE d = target
    <3>1. d \in 1..MaxDay BY <1>0, <2>4
    <3>2. d <= target /\ target <= d BY <2>3, <2>4, <2>6 DEF IsLatest
    <3> QED BY <2>3, <3>1, <3>2
  <2> QED BY <2>1, <2>2, <2>3, <2>4, <2>5, <2>6 DEF LatestIsFetched, IsLatest
<1>3. CASE RefreshDies
  BY <1>0, <1>3 DEF RefreshDies, AssetListTypeOK, LatestIsFetched, IsLatest, Listed
<1>4. CASE NextDay
  <2>1. day' \in 1..MaxDay /\ day <= day' BY <1>0, <1>4 DEF NextDay
  <2>2. UNCHANGED <<files, target, fetched>> /\ Listed' = Listed BY <1>4 DEF NextDay, Listed
  <2>3. \A d \in Listed' : d <= day' BY <1>0, <2>1, <2>2 DEF LatestIsFetched
  <2> QED BY <2>1, <2>2, <2>3 DEF AssetListTypeOK, LatestIsFetched, IsLatest
<1> QED BY <1>1, <1>2, <1>3, <1>4 DEF AssetListNext

-----------------------------------------------------------------------------
LEMMA NextInv == Inv /\ [Next]_vars => Inv'
<1> SUFFICES ASSUME Inv, [Next]_vars PROVE Inv' OBVIOUS
<1>1. ASSUME NEW s \in Sleeves, MarkToMarket(s) PROVE Inv' BY <1>1, MarkInv
<1>2. CASE Compose BY <1>2, ComposeInv
<1>3. CASE FiringEnds
  BY <1>3 DEF FiringEnds, Inv, Firing, AssetListTypeOK, LatestIsFetched, IsLatest, Listed,
              assetVars, PeaksTracked, HaltRemembered
<1>4. CASE AssetListNext /\ UNCHANGED deskVars
  <2>1. AssetListTypeOK' /\ LatestIsFetched' BY <1>4, AssetListStep DEF Inv
  <2> QED BY <1>4, <2>1 DEF Inv, deskVars, PeaksTracked, HaltRemembered, Firing
<1>5. CASE UNCHANGED vars
  BY <1>5 DEF vars, deskVars, assetVars, Inv, Firing, AssetListTypeOK, LatestIsFetched,
              IsLatest, Listed, PeaksTracked, HaltRemembered
<1> QED BY <1>1, <1>2, <1>3, <1>4, <1>5 DEF Next

(* The inductive invariant. *)
THEOREM Invariance == Spec => []Inv
BY InitInv, NextInv, PTL DEF Spec

(* Every variable keeps its type, and every snapshot makes a context the   *)
(* gate is defined on.                                                     *)
THEOREM TypeCorrect == Spec => []TypeOK
<1>1. ASSUME Inv PROVE TypeOK
  <2>1. \A s \in Sleeves : {equity[s], hwm[s], peak[s]} \subseteq Equities(s)
    BY <1>1 DEF Inv, PeaksTracked
  <2>2. ASSUME Firing PROVE Context(snapshot) \in ValidationContext(Symbols)
    <3>1. Snapshot(snapshot) BY <1>1, <2>2 DEF Inv
    <3>2. snapshot.account \in Account BY <3>1, DeskAssumption DEF Snapshot
    <3>3. (snapshot.account.equity < PdtThreshold) \in BOOLEAN
          /\ (snapshot.killed \/ snapshot.account.trading_blocked) \in BOOLEAN
      OBVIOUS
    <3> QED BY <3>1, <3>2, <3>3, DeskAssumption
            DEF Snapshot, DrawdownFlags, Account, Context, ValidationContext
  <2> QED BY <1>1, <2>1, <2>2 DEF Inv, TypeOK, HaltRemembered
<1> QED BY <1>1, Invariance, PTL

-----------------------------------------------------------------------------
(* Composition and gate block the same firings, whatever the snapshot.     *)
THEOREM BlocksCoincide == Spec => []BlocksAgree
<1>1. BlocksAgree
  <2> SUFFICES ASSUME NEW o \in Orders, o.sleeve = "core", o.side = "buy",
                      ~o.wind_down_liquidation
               PROVE  TradingBlocked(snapshot) <=>
                        HaltObjections(o, Context(snapshot))
                          \cap {"KS-GLOBAL", "R-V05-UNCLE", "R-V05-DD-HALT"} # {}
    BY DEF BlocksAgree
  <2> DEFINE c == Context(snapshot)
  <2>1. /\ c.paused = (snapshot.killed \/ snapshot.account.trading_blocked)
        /\ c.core_uncle = snapshot.flags.core_uncle
        /\ c.satellite_uncle = snapshot.flags.satellite_uncle
        /\ c.core_drawdown_halt = snapshot.flags.core_drawdown_halt
    BY DEF Context
  <2> HIDE DEF c
  <2>2. /\ "KS-GLOBAL" \in HaltObjections(o, c) <=> c.paused
        /\ "R-V05-UNCLE" \in HaltObjections(o, c) <=> (c.core_uncle \/ c.satellite_uncle)
        /\ "R-V05-DD-HALT" \in HaltObjections(o, c) <=> c.core_drawdown_halt
    BY DEF HaltObjections, When
  <2> QED BY <2>1, <2>2 DEF TradingBlocked, c
<1> QED BY <1>1, PTL

(* Only a composition makes a snapshot. *)
LEMMA ComposedByCompose ==
  ASSUME [Next]_vars, Composed PROVE Compose
BY DEF Composed, Firing, Next, MarkToMarket, FiringEnds, deskVars, vars

(* A Core loss beyond the drawdown threshold or the daily limit, measured  *)
(* from the highest equity Core ever had, leaves no Core buy that passes.  *)
THEOREM LossesReachTheGate == Spec => LossesStopBuys
<1>1. ASSUME Inv, [Next]_vars, Composed, snapshot'.fed, Lost(snapshot'.core_pnl),
             NEW o \in Orders, o.sleeve = "core", o.side = "buy"
      PROVE  ~Passes(o, Context(snapshot'))
  <2>1. PICK sleeve \in Sleeves, killed \in BOOLEAN, fed \in BOOLEAN, account \in Accounts,
             performance \in Performances :
          snapshot' = SnapshotOf(sleeve, killed, fed, account, performance)
    BY <1>1, ComposedByCompose, ComposeStep
  <2> DEFINE flags == Flags(DrawdownStateOf(TRUE, performance))
  <2>2. fed = TRUE BY <1>1, <2>1 DEF SnapshotOf
  <2>3. snapshot'.flags = flags /\ snapshot'.core_pnl = performance.core_pnl
    BY <2>1, <2>2 DEF SnapshotOf, DrawdownStateOf
  <2>4. flags.core_drawdown_halt = FellBy(CoreHaltPct, hwm["core"], equity["core"])
    BY <1>1, FedHalt DEF Inv
  <2>5. flags.core_daily_loss_halt
          = DailyLossHalt(performance.core_pnl, CoreNav, CoreDailyLossPct)
    BY DEF Flags, DrawdownStateOf
  <2> HIDE DEF flags
  <2>6. flags.core_drawdown_halt \/ flags.core_daily_loss_halt
    <3>1. CASE 100 * (peak["core"] - equity["core"]) >= 15 * peak["core"]
      <4>1. hwm = peak /\ peak["core"] \in Int /\ equity["core"] \in Int
        BY <1>1, CoreNumbers DEF Inv
      <4>2. FellBy(CoreHaltPct, peak["core"], equity["core"])
        BY <3>1, <4>1 DEF FellBy, CoreHaltPct
      <4> QED BY <2>4, <4>1, <4>2
    <3>2. CASE /\ performance.core_pnl # None
               /\ 100 * performance.core_pnl <= -(CoreDailyLossPct * CoreNav)
      <4>1. CoreDailyLossPct * CoreNav = CoreNav * CoreDailyLossPct
        BY DeskAssumption
      <4>2. 100 * performance.core_pnl <= -(CoreNav * CoreDailyLossPct)
        BY <3>2, <4>1
      <4> QED BY <2>5, <3>2, <4>2 DEF DailyLossHalt
    <3> QED BY <1>1, <2>3, <3>1, <3>2 DEF Lost
  <2>7. \/ "R-V05-DD-HALT" \in HaltObjections(o, Context(snapshot'))
        \/ "R-V04-DAILY-LOSS" \in HaltObjections(o, Context(snapshot'))
    <3> DEFINE c == Context(snapshot')
    <3>1. /\ c.core_drawdown_halt = flags.core_drawdown_halt
          /\ c.core_daily_loss_halt = flags.core_daily_loss_halt
      BY <2>3 DEF Context
    <3> HIDE DEF c
    <3>2. /\ c.core_drawdown_halt => "R-V05-DD-HALT" \in HaltObjections(o, c)
          /\ c.core_daily_loss_halt => "R-V04-DAILY-LOSS" \in HaltObjections(o, c)
      BY <1>1 DEF HaltObjections, When
    <3> QED BY <2>6, <3>1, <3>2 DEF c
  <2> QED BY <2>7 DEF Passes, Objections
<1>2. Inv /\ [Next]_vars =>
        [(Composed /\ snapshot'.fed /\ Lost(snapshot'.core_pnl))
           => \A o \in Orders : (o.sleeve = "core" /\ o.side = "buy")
                                 => ~Passes(o, Context(snapshot'))]_vars
  BY <1>1
<1> QED BY <1>2, Invariance, PTL DEF Spec, LossesStopBuys

(* DD-05, for whatever equities the sleeve is marked at in between: a halt *)
(* that is lifted finds Core above the equity it was last in force at.     *)
THEOREM HaltIsSteady == Spec => HaltLiftsOnlyOnRecovery
<1>1. ASSUME Inv, [Next]_vars, haltedAt # None, haltedAt' = None
      PROVE  equity'["core"] > haltedAt
  <2>1. Compose
    BY <1>1 DEF Next, MarkToMarket, FiringEnds, deskVars, vars
  <2>2. PICK sleeve \in Sleeves, killed \in BOOLEAN, fed \in BOOLEAN, account \in Accounts,
             performance \in Performances :
          haltedAt' = IF ~fed THEN haltedAt
                      ELSE IF Flags(DrawdownStateOf(fed, performance)).core_drawdown_halt
                      THEN equity["core"] ELSE None
    BY <1>1, <2>1, ComposeStep
  <2>3. equity' = equity BY <1>1, <2>1, ComposeStep
  <2>4. /\ hwm = peak /\ peak["core"] \in Nat /\ equity["core"] \in Nat
        /\ equity["core"] # None
    BY <1>1, CoreNumbers DEF Inv
  <2>5. haltedAt \in Nat /\ FellBy(CoreHaltPct, hwm["core"], haltedAt)
    BY <1>1, EquitiesAreNumbers DEF Inv, HaltRemembered
  <2>6. ~FellBy(CoreHaltPct, hwm["core"], equity["core"])
    <3>1. fed = TRUE /\ ~Flags(DrawdownStateOf(fed, performance)).core_drawdown_halt
      BY <1>1, <2>2, <2>4
    <3> QED BY <1>1, <3>1, FedHalt DEF Inv
  <2> QED BY <2>3, <2>4, <2>5, <2>6, RecoveredAbove
<1>2. Inv /\ [Next]_vars =>
        [(haltedAt # None /\ haltedAt' = None) => equity'["core"] > haltedAt]_vars
  BY <1>1
<1> QED BY <1>2, Invariance, PTL DEF Spec, HaltLiftsOnlyOnRecovery

(* Wherever refreshes tear, die or straddle midnight, an order that passes *)
(* names a symbol the latest refresh has fetched as tradable.              *)
THEOREM UniverseIsFresh == Spec => NoStaleUniverse
<1>1. ASSUME Inv, [Next]_vars, Composed, NEW o \in Orders, Passes(o, Context(snapshot'))
      PROVE  [symbol |-> o.symbol, tradable |-> TRUE] \in fetched
  <2>1. Compose BY <1>1, ComposedByCompose
  <2>2. CanLoad /\ snapshot'.allowed = LatestTradableSymbols
    BY <1>1, <2>1, ComposeStep DEF SnapshotOf
  <2>3. o.symbol \in LatestTradableSymbols
    <3> DEFINE c == Context(snapshot')
    <3>1. /\ c.core_allowed_symbols = LatestTradableSymbols
          /\ c.satellite_allowed_symbols = LatestTradableSymbols
      BY <2>2 DEF Context
    <3> HIDE DEF c
    <3>2. UniverseObjections(o, c) = {} BY <1>1 DEF Passes, Objections, c
    <3> QED BY <3>1, <3>2 DEF UniverseObjections, When
  <2>4. fetched \subseteq Asset /\ files[LatestDay].assets = fetched
    BY <1>1, <2>2, LoadedList DEF Inv, AssetListTypeOK
  <2>5. PICK a \in fetched : a.tradable /\ o.symbol = a.symbol
    BY <2>3, <2>4 DEF LatestTradableSymbols, TradableIn
  <2>6. a = [symbol |-> o.symbol, tradable |-> TRUE]
    BY <2>4, <2>5 DEF Asset
  <2> QED BY <2>5, <2>6
<1>2. Inv /\ [Next]_vars =>
        [Composed => \A o \in Orders :
           Passes(o, Context(snapshot'))
             => [symbol |-> o.symbol, tradable |-> TRUE] \in fetched]_vars
  BY <1>1
<1> QED BY <1>2, Invariance, PTL DEF Spec, NoStaleUniverse
=============================================================================
