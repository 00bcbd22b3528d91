------------------------------ MODULE AssetList ------------------------------
(***************************************************************************)
(* The asset lists on disk, one JSON file per UTC day (tools/assets.py).   *)
(* A refresh asks the broker for its assets and writes the file of the     *)
(* day in place: from the moment it is opened to the moment it is closed   *)
(* it is no JSON, and a process that dies in between leaves it so.         *)
(***************************************************************************)
EXTENDS Naturals

CONSTANTS
  Symbols,
  Markets,    \* what the broker may list: of each symbol, active and tradable
  MaxDay      \* bound: the last UTC date of the model

ASSUME AssetListAssumption ==
  /\ Markets \subseteq [Symbols -> [active: BOOLEAN, tradable: BOOLEAN]]
  /\ MaxDay \in Nat \ {0}

VARIABLES
  day,        \* the UTC date
  files,      \* the file of each day: missing, torn, or whole with its assets
  target,     \* the day whose file a refresh is writing, 0 when there is none
  fetched     \* history: the assets the latest refresh set out to write

assetVars == <<day, files, target, fetched>>

Asset   == [symbol: Symbols, tradable: BOOLEAN]
Missing == [state |-> "missing", assets |-> {}]
Torn    == [state |-> "torn", assets |-> {}]

AssetListInit ==
  /\ day = 1
  /\ files = [d \in 1..MaxDay |-> Missing]
  /\ target = 0 /\ fetched = {}

-----------------------------------------------------------------------------
(* _include_asset and _asset_from_row. *)
AssetsOf(market, activeOnly) ==
  {[symbol |-> s, tradable |-> market[s].tradable] :
     s \in {t \in Symbols : activeOnly => market[t].active}}

(* The broker has answered; the file of the day is opened for writing.     *)
(* A request that fails raises before anything is touched.                 *)
RefreshStarts ==
  /\ target = 0
  /\ \E market \in Markets, activeOnly \in BOOLEAN : fetched' = AssetsOf(market, activeOnly)
  /\ target' = day
  /\ files' = [files EXCEPT ![day] = Torn]
  /\ UNCHANGED day

RefreshEnds ==
  /\ target # 0
  /\ files' = [files EXCEPT ![target] = [state |-> "whole", assets |-> fetched]]
  /\ target' = 0
  /\ UNCHANGED <<day, fetched>>

RefreshDies ==
  /\ target # 0
  /\ target' = 0
  /\ UNCHANGED <<day, files, fetched>>

NextDay ==
  /\ day < MaxDay
  /\ day' = day + 1
  /\ UNCHANGED <<files, target, fetched>>

AssetListNext == RefreshStarts \/ RefreshEnds \/ RefreshDies \/ NextDay

-----------------------------------------------------------------------------
Listed == {d \in 1..MaxDay : files[d].state # "missing"}

(* Faulty variant of LatestDay: it falls back on an older list. *)
LatestReadableDay ==
  LET readable == {d \in Listed : files[d].state = "whole"}
  IN  IF readable = {} THEN day ELSE CHOOSE d \in readable : \A e \in readable : e <= d

(* sorted(glob)[-1]: the file names sort by date. *)
LatestDay == CHOOSE d \in Listed : \A e \in Listed : e <= d

(* load_latest_asset_list raises without a file, and on one that is torn. *)
CanLoad == Listed # {} /\ files[LatestDay].state = "whole"

TradableIn(assets) == {a.symbol : a \in {b \in assets : b.tradable}}

LatestTradableSymbols == TradableIn(files[LatestDay].assets)

AssetListTypeOK ==
  /\ day \in 1..MaxDay
  /\ files \in [1..MaxDay -> [state: {"missing", "torn", "whole"}, assets: SUBSET Asset]]
  /\ target \in 0..MaxDay
  /\ fetched \subseteq Asset
=============================================================================
