--------------------------- MODULE GateDrift_proofs ---------------------------
(***************************************************************************)
(* Proofs about the gate, for every order, context and limit: a verdict    *)
(* can only tighten as the context does, the exit of an accepted buy is    *)
(* refused only where sells are frozen, and a flag waives only its rules.  *)
(***************************************************************************)
EXTENDS GateDrift, TLAPS

(* A union objects to nothing when none of its parts does. *)
LEMMA UnionEmpty ==
  ASSUME NEW S, NEW T PROVE S \cup T = {} <=> S = {} /\ T = {}
OBVIOUS

(* Seven parts, each within its counterpart but for the waived rules. *)
LEMMA UnionOfParts ==
  ASSUME NEW W, NEW H, NEW P, NEW U, NEW S, NEW T, NEW B, NEW Q, NEW H2, NEW S2, NEW T2,
         H \subseteq H2 \cup W, S \subseteq S2, T \subseteq T2 \cup W
  PROVE  H \cup P \cup U \cup S \cup T \cup B \cup Q
           \subseteq (H2 \cup P \cup U \cup S2 \cup T2 \cup B \cup Q) \cup W
OBVIOUS

(* Rounding to the cent preserves order. *)
LEMMA QuantizeMonotone ==
  ASSUME NEW m \in Nat, NEW n \in Nat, m <= n PROVE Quantize(m) <= Quantize(n)
BY SMTT(30) DEF Quantize

LEMMA QuantizeType == ASSUME NEW m \in Nat PROVE Quantize(m) \in Nat
BY SMTT(30) DEF Quantize

LEMMA ProductMonotone ==
  ASSUME NEW m \in Nat, NEW n \in Nat, NEW p \in Nat, m <= n PROVE m * p <= n * p
BY SMTT(30)

LEMMA ProductCommutes ==
  ASSUME NEW m \in Nat, NEW n \in Nat PROVE m * n = n * m
BY SMT

LEMMA ProductType == ASSUME NEW m \in Nat, NEW n \in Nat PROVE m * n \in Nat
BY SMTT(30)

(* With typed order and contexts, c the laxer and d the stricter, each     *)
(* group of rules that is silent in d is silent in c.                      *)
Pair(o, c, d) ==
  /\ o \in OrderRequest(Symbols)
  /\ c \in ValidationContext(Symbols) /\ d \in ValidationContext(Symbols)
  /\ AtLeastAsStrict(c, d)

LEMMA HaltMonotone ==
  ASSUME NEW o, NEW c, NEW d, Pair(o, c, d), HaltObjections(o, d) = {}
  PROVE  HaltObjections(o, c) = {}
BY DEF Pair, HaltObjections, When, AtLeastAsStrict, OrderRequest, ValidationContext

LEMMA PdtMonotone ==
  ASSUME NEW o, NEW c, NEW d, Pair(o, c, d), PdtObjections(o, d) = {}
  PROVE  PdtObjections(o, c) = {}
BY LimitsAssumption, NoneAssumption
   DEF Pair, PdtObjections, When, AtLeastAsStrict, OrderRequest, ValidationContext

LEMMA UniverseMonotone ==
  ASSUME NEW o, NEW c, NEW d, Pair(o, c, d), UniverseObjections(o, d) = {}
  PROVE  UniverseObjections(o, c) = {}
BY DEF Pair, UniverseObjections, When, AtLeastAsStrict, OrderRequest, ValidationContext

LEMMA OrderTypeMonotone ==
  ASSUME NEW o, NEW c, NEW d, Pair(o, c, d), OrderTypeObjections(o, d) = {}
  PROVE  OrderTypeObjections(o, c) = {}
BY LimitsAssumption
   DEF Pair, OrderTypeObjections, When, AtLeastAsStrict, OrderRequest, ValidationContext

LEMMA BuyingPowerMonotone ==
  ASSUME NEW o, NEW c, NEW d, Pair(o, c, d), BuyingPowerObjections(o, d) = {}
  PROVE  BuyingPowerObjections(o, c) = {}
BY LimitsAssumption, NoneAssumption
   DEF Pair, BuyingPowerObjections, When, NoRoomier, AtLeastAsStrict, OrderRequest,
       ValidationContext

LEMMA PositionMonotone ==
  ASSUME NEW o, NEW c, NEW d, Pair(o, c, d), PositionObjections(o, d) = {}
  PROVE  PositionObjections(o, c) = {}
BY NoneAssumption
   DEF Pair, PositionObjections, When, NoRoomier, AtLeastAsStrict, OrderRequest,
       ValidationContext

(* The cap of an order is a percentage. *)
LEMMA CapPctType ==
  ASSUME NEW o \in OrderRequest(Symbols) PROVE CapPct(o) \in Nat
BY LimitsAssumption DEF CapPct, OrderRequest

LEMMA SizingMonotone ==
  ASSUME NEW o, NEW c, NEW d, Pair(o, c, d), SizingObjections(o, d) = {}
  PROVE  SizingObjections(o, c) = {}
<1> USE DEF Pair
<1> DEFINE roomC == SleeveNav(o, c) * CapPct(o)
           roomD == SleeveNav(o, d) * CapPct(o)
<1>1. SleeveNav(o, d) \in Nat /\ SleeveNav(o, c) \in Nat /\ SleeveNav(o, d) <= SleeveNav(o, c)
  BY DEF SleeveNav, AtLeastAsStrict, OrderRequest, ValidationContext
<1>2. roomD \in Nat /\ roomC \in Nat /\ roomD <= roomC
  BY <1>1, CapPctType, ProductType, ProductMonotone
<1>3. Quantize(roomD) \in Nat /\ Quantize(roomC) \in Nat /\ Quantize(roomD) <= Quantize(roomC)
  <2> HIDE DEF roomC, roomD
  <2> QED BY <1>2, QuantizeType, QuantizeMonotone
<1>4. ASSUME o.side = "buy" PROVE o.notional <= Quantize(roomD)
  BY <1>3, <1>4 DEF SizingObjections, When, OrderRequest
<1>5. ASSUME o.side = "buy" PROVE ~(o.notional > Quantize(roomC))
  <2> HIDE DEF roomC, roomD
  <2> QED BY <1>3, <1>4, <1>5 DEF OrderRequest
<1>6. ASSUME o.side = "buy", o.sleeve = "core", c.max_core_deploy # None
      PROVE ~(o.notional > c.max_core_deploy)
  BY <1>6, NoneAssumption
     DEF SizingObjections, When, NoRoomier, AtLeastAsStrict, OrderRequest, ValidationContext
<1> QED BY <1>5, <1>6 DEF SizingObjections, When

(* What the stricter context passes, the laxer one passes. *)
LEMMA PassesMonotone ==
  ASSUME NEW o, NEW c, NEW d, Pair(o, c, d), Passes(o, d)
  PROVE  Passes(o, c)
<1>1. /\ HaltObjections(o, d) = {} /\ PdtObjections(o, d) = {}
      /\ UniverseObjections(o, d) = {} /\ SizingObjections(o, d) = {}
      /\ OrderTypeObjections(o, d) = {} /\ BuyingPowerObjections(o, d) = {}
      /\ PositionObjections(o, d) = {}
  BY UnionEmpty DEF Passes, Objections
<1>2. HaltObjections(o, c) = {} BY <1>1, HaltMonotone
<1>3. PdtObjections(o, c) = {} BY <1>1, PdtMonotone
<1>4. UniverseObjections(o, c) = {} BY <1>1, UniverseMonotone
<1>5. SizingObjections(o, c) = {} BY <1>1, SizingMonotone
<1>6. OrderTypeObjections(o, c) = {} BY <1>1, OrderTypeMonotone
<1>7. BuyingPowerObjections(o, c) = {} BY <1>1, BuyingPowerMonotone
<1>8. PositionObjections(o, c) = {} BY <1>1, PositionMonotone
<1> QED BY <1>2, <1>3, <1>4, <1>5, <1>6, <1>7, <1>8 DEF Passes, Objections

-----------------------------------------------------------------------------
(* The order and every context it meets are legal ones. *)
THEOREM TypeCorrect == Spec => []TypeOK
<1>1. Init => TypeOK BY DEF Init, TypeOK
<1>2. TypeOK /\ [Next]_vars => TypeOK'
  BY DEF TypeOK, Next, Enter, Drift, vars
<1> QED BY <1>1, <1>2, PTL DEF Spec

(* For all limits, orders and contexts, no rule of the gate shadows or     *)
(* excuses another: a context stricter in every field opens nothing.       *)
THEOREM TighteningNeverOpens == Spec => StricterNeverOpens
<1>1. TypeOK /\ TypeOK' /\ [Next]_vars =>
        ((order' = order /\ AtLeastAsStrict(ctx, ctx'))
          => (Passes(order, ctx') => Passes(order, ctx)))
  BY DriftAssumption, PassesMonotone DEF TypeOK, Pair
<1>2. TypeOK /\ TypeOK' /\ [Next]_vars =>
        [(order' = order /\ AtLeastAsStrict(ctx, ctx'))
          => (Passes(order, ctx') => Passes(order, ctx))]_vars
  BY <1>1
<1> QED BY <1>2, TypeCorrect, PTL DEF Spec, StricterNeverOpens

-----------------------------------------------------------------------------
(* What the gate checked of an accepted buy that its exit relies on. *)
Entered ==
  held => /\ order.side = "buy"
          /\ order.order_type = "market" => order.market_order_exception
          /\ order.order_type = "limit" => order.priced

LEMMA EnteredInvariant == Spec => []Entered
<1>1. Init => Entered BY DEF Init, Entered
<1>2. TypeOK /\ Entered /\ [Next]_vars => Entered'
  <2> SUFFICES ASSUME TypeOK, Entered, [Next]_vars PROVE Entered' OBVIOUS
  <2>1. CASE Enter
    <3>1. OrderTypeObjections(order, ctx) = {}
      BY <2>1, UnionEmpty DEF Enter, Passes, Objections
    <3> QED BY <2>1, <3>1, DriftAssumption
            DEF Enter, Entered, TypeOK, OrderTypeObjections, When, OrderRequest
  <2>2. CASE Drift BY <2>2 DEF Drift, Entered
  <2>3. CASE UNCHANGED vars BY <2>3 DEF vars, Entered
  <2> QED BY <2>1, <2>2, <2>3 DEF Next
<1> QED BY <1>1, <1>2, TypeCorrect, PTL DEF Spec

(* For all limits, orders and contexts, the sell that closes an accepted   *)
(* buy passes unless the posture freezes sells: no fall in value, buying   *)
(* power or cap, and no drawdown or daily-loss halt, traps the position.   *)
THEOREM ExitNeverTrapped == Spec => []ExitStaysOpen
<1>1. ASSUME TypeOK, Entered PROVE ExitStaysOpen
  <2> SUFFICES ASSUME held, ~SellsFrozen PROVE Passes(Exit, Holding)
    BY DEF ExitStaysOpen
  <2> USE <1>1
  <2>0. order \in OrderRequest(Symbols) /\ ctx \in ValidationContext(Symbols)
    BY DriftAssumption DEF TypeOK
  <2>1. HaltObjections(Exit, Holding) = {}
    BY <2>0 DEF HaltObjections, When, Exit, Holding, SellsFrozen, OrderRequest, ValidationContext
  <2>2. PdtObjections(Exit, Holding) = {}
    BY <2>0 DEF PdtObjections, Exit, Holding, SellsFrozen, OrderRequest, ValidationContext
  <2>3. UniverseObjections(Exit, Holding) = {}
    BY <2>0 DEF UniverseObjections, Exit, Holding, SellsFrozen, OrderRequest, ValidationContext
  <2>4. SizingObjections(Exit, Holding) = {}
    BY <2>0 DEF SizingObjections, When, Exit, OrderRequest
  <2>5. OrderTypeObjections(Exit, Holding) = {}
    BY <2>0 DEF Entered, OrderTypeObjections, When, Exit, Holding, SellsFrozen, OrderRequest,
                ValidationContext
  <2>6. BuyingPowerObjections(Exit, Holding) = {}
    BY <2>0 DEF BuyingPowerObjections, When, Exit, OrderRequest
  <2>7. PositionObjections(Exit, Holding) = {}
    BY <2>0 DEF PositionObjections, When, Exit, Holding, OrderRequest, ValidationContext
  <2> QED BY <2>1, <2>2, <2>3, <2>4, <2>5, <2>6, <2>7 DEF Passes, Objections
<1> QED BY <1>1, TypeCorrect, EnteredInvariant, PTL

-----------------------------------------------------------------------------
(* For all limits, orders and contexts, each exception flag of an order    *)
(* waives its own rules and no other.                                      *)
THEOREM FlagsWaiveOnlyTheirs == Spec => []ExceptionsWaiveOnlyTheirRules
<1>1. ASSUME TypeOK PROVE ExceptionsWaiveOnlyTheirRules
  <2> DEFINE F(l, m, t) == [order EXCEPT !.wind_down_liquidation = l,
                                         !.market_order_exception = m,
                                         !.satellite_first_tranche = t]
  <2>0. order \in OrderRequest(Symbols) /\ ctx \in ValidationContext(Symbols)
    BY <1>1, DriftAssumption DEF TypeOK
  <2>1. ASSUME NEW l \in BOOLEAN, NEW m \in BOOLEAN, NEW t \in BOOLEAN,
               NEW l2 \in BOOLEAN, NEW m2 \in BOOLEAN, NEW t2 \in BOOLEAN
        PROVE  /\ PdtObjections(F(l, m, t), ctx) = PdtObjections(F(l2, m2, t2), ctx)
               /\ UniverseObjections(F(l, m, t), ctx) = UniverseObjections(F(l2, m2, t2), ctx)
               /\ BuyingPowerObjections(F(l, m, t), ctx)
                    = BuyingPowerObjections(F(l2, m2, t2), ctx)
               /\ PositionObjections(F(l, m, t), ctx) = PositionObjections(F(l2, m2, t2), ctx)
    BY <2>0 DEF PdtObjections, UniverseObjections, BuyingPowerObjections, PositionObjections,
                OrderRequest
  <2>2. ASSUME NEW l \in BOOLEAN, NEW m \in BOOLEAN, NEW t \in BOOLEAN,
               NEW l2 \in BOOLEAN, NEW m2 \in BOOLEAN
        PROVE  SizingObjections(F(l, m, t), ctx) = SizingObjections(F(l2, m2, t), ctx)
    BY <2>0 DEF SizingObjections, SleeveNav, CapPct, OrderRequest
  <2>3. ASSUME NEW l \in BOOLEAN, NEW m \in BOOLEAN
        PROVE  SizingObjections(F(l, m, FALSE), ctx) \subseteq SizingObjections(F(l, m, TRUE), ctx)
    <3> DEFINE wide   == SleeveNav(order, ctx) * CapPct(F(l, m, FALSE))
               narrow == SleeveNav(order, ctx) * CapPct(F(l, m, TRUE))
    <3>1. /\ F(l, m, FALSE) \in OrderRequest(Symbols) /\ F(l, m, TRUE) \in OrderRequest(Symbols)
          /\ SleeveNav(order, ctx) \in Nat
          /\ \A t \in BOOLEAN : /\ SleeveNav(F(l, m, t), ctx) = SleeveNav(order, ctx)
                                /\ F(l, m, t).notional = order.notional
                                /\ F(l, m, t).side = order.side
                                /\ F(l, m, t).sleeve = order.sleeve
      BY <2>0 DEF OrderRequest, SleeveNav, ValidationContext
    <3>2. CapPct(F(l, m, TRUE)) <= CapPct(F(l, m, FALSE))
      BY <2>0, LimitsAssumption DEF CapPct, OrderRequest
    <3>3. narrow \in Nat /\ wide \in Nat /\ narrow <= wide
      <4>1. CapPct(F(l, m, TRUE)) \in Nat /\ CapPct(F(l, m, FALSE)) \in Nat
        BY <3>1, CapPctType
      <4>2. /\ CapPct(F(l, m, TRUE)) * SleeveNav(order, ctx)
                 <= CapPct(F(l, m, FALSE)) * SleeveNav(order, ctx)
            /\ CapPct(F(l, m, TRUE)) * SleeveNav(order, ctx) \in Nat
            /\ CapPct(F(l, m, FALSE)) * SleeveNav(order, ctx) \in Nat
        BY <3>1, <3>2, <4>1, ProductMonotone, ProductType
      <4> QED BY <3>1, <4>1, <4>2, ProductCommutes
    <3>4. Quantize(narrow) <= Quantize(wide) /\ Quantize(narrow) \in Nat /\ Quantize(wide) \in Nat
      <4> HIDE DEF narrow, wide
      <4> QED BY <3>3, QuantizeMonotone, QuantizeType
    <3>5. order.notional > Quantize(wide) => order.notional > Quantize(narrow)
      <4> HIDE DEF narrow, wide
      <4> QED BY <2>0, <3>4 DEF OrderRequest
    <3> QED BY <3>1, <3>5 DEF SizingObjections, When
  <2>4. ASSUME NEW l \in BOOLEAN, NEW m \in BOOLEAN, NEW t \in BOOLEAN
        PROVE  /\ HaltObjections(F(FALSE, m, t), ctx)
                    \subseteq HaltObjections(F(TRUE, m, t), ctx) \cup {"R-V05-UNCLE", "WD-HARD"}
               /\ OrderTypeObjections(F(FALSE, m, t), ctx) = OrderTypeObjections(F(TRUE, m, t), ctx)
    BY <2>0 DEF HaltObjections, OrderTypeObjections, When, OrderRequest
  <2>5. ASSUME NEW l \in BOOLEAN, NEW m \in BOOLEAN, NEW t \in BOOLEAN
        PROVE  /\ HaltObjections(F(l, FALSE, t), ctx) = HaltObjections(F(l, TRUE, t), ctx)
               /\ OrderTypeObjections(F(l, FALSE, t), ctx)
                    \subseteq OrderTypeObjections(F(l, TRUE, t), ctx) \cup {"R-V06-MARKET"}
    BY <2>0 DEF HaltObjections, OrderTypeObjections, When, OrderRequest
  <2>6. ASSUME NEW l \in BOOLEAN, NEW m \in BOOLEAN
        PROVE  /\ HaltObjections(F(l, m, FALSE), ctx) = HaltObjections(F(l, m, TRUE), ctx)
               /\ OrderTypeObjections(F(l, m, FALSE), ctx) = OrderTypeObjections(F(l, m, TRUE), ctx)
    BY <2>0 DEF HaltObjections, OrderTypeObjections, OrderRequest
  <2>7. ASSUME NEW l \in BOOLEAN, NEW m \in BOOLEAN, NEW t \in BOOLEAN
        PROVE  /\ Objections(F(FALSE, m, t), ctx)
                    \subseteq Objections(F(TRUE, m, t), ctx) \cup {"R-V05-UNCLE", "WD-HARD"}
               /\ Objections(F(l, FALSE, t), ctx)
                    \subseteq Objections(F(l, TRUE, t), ctx) \cup {"R-V06-MARKET"}
               /\ Objections(F(l, m, FALSE), ctx) \subseteq Objections(F(l, m, TRUE), ctx)
    <3> HIDE DEF F
    <3>1. Objections(F(FALSE, m, t), ctx)
          \subseteq Objections(F(TRUE, m, t), ctx) \cup {"R-V05-UNCLE", "WD-HARD"}
      <4>1. /\ PdtObjections(F(FALSE, m, t), ctx) = PdtObjections(F(TRUE, m, t), ctx)
            /\ UniverseObjections(F(FALSE, m, t), ctx) = UniverseObjections(F(TRUE, m, t), ctx)
            /\ BuyingPowerObjections(F(FALSE, m, t), ctx)
                 = BuyingPowerObjections(F(TRUE, m, t), ctx)
            /\ PositionObjections(F(FALSE, m, t), ctx) = PositionObjections(F(TRUE, m, t), ctx)
        BY <2>1
      <4>2. /\ SizingObjections(F(FALSE, m, t), ctx) \subseteq SizingObjections(F(TRUE, m, t), ctx)
            /\ HaltObjections(F(FALSE, m, t), ctx)
                 \subseteq HaltObjections(F(TRUE, m, t), ctx) \cup {"R-V05-UNCLE", "WD-HARD"}
            /\ OrderTypeObjections(F(FALSE, m, t), ctx)
                 \subseteq OrderTypeObjections(F(TRUE, m, t), ctx) \cup {"R-V05-UNCLE", "WD-HARD"}
        BY <2>2, <2>4
      <4> QED BY <4>1, <4>2, UnionOfParts DEF Objections
    <3>2. Objections(F(l, FALSE, t), ctx)
          \subseteq Objections(F(l, TRUE, t), ctx) \cup {"R-V06-MARKET"}
      <4>1. /\ PdtObjections(F(l, FALSE, t), ctx) = PdtObjections(F(l, TRUE, t), ctx)
            /\ UniverseObjections(F(l, FALSE, t), ctx) = UniverseObjections(F(l, TRUE, t), ctx)
            /\ BuyingPowerObjections(F(l, FALSE, t), ctx)
                 = BuyingPowerObjections(F(l, TRUE, t), ctx)
            /\ PositionObjections(F(l, FALSE, t), ctx) = PositionObjections(F(l, TRUE, t), ctx)
        BY <2>1
      <4>2. /\ SizingObjections(F(l, FALSE, t), ctx) \subseteq SizingObjections(F(l, TRUE, t), ctx)
            /\ HaltObjections(F(l, FALSE, t), ctx)
                 \subseteq HaltObjections(F(l, TRUE, t), ctx) \cup {"R-V06-MARKET"}
            /\ OrderTypeObjections(F(l, FALSE, t), ctx)
                 \subseteq OrderTypeObjections(F(l, TRUE, t), ctx) \cup {"R-V06-MARKET"}
        BY <2>2, <2>5
      <4> QED BY <4>1, <4>2, UnionOfParts DEF Objections
    <3>3. Objections(F(l, m, FALSE), ctx) \subseteq Objections(F(l, m, TRUE), ctx) \cup {}
      <4>1. /\ PdtObjections(F(l, m, FALSE), ctx) = PdtObjections(F(l, m, TRUE), ctx)
            /\ UniverseObjections(F(l, m, FALSE), ctx) = UniverseObjections(F(l, m, TRUE), ctx)
            /\ BuyingPowerObjections(F(l, m, FALSE), ctx)
                 = BuyingPowerObjections(F(l, m, TRUE), ctx)
            /\ PositionObjections(F(l, m, FALSE), ctx) = PositionObjections(F(l, m, TRUE), ctx)
        BY <2>1
      <4>2. /\ SizingObjections(F(l, m, FALSE), ctx) \subseteq SizingObjections(F(l, m, TRUE), ctx)
            /\ HaltObjections(F(l, m, FALSE), ctx)
                 \subseteq HaltObjections(F(l, m, TRUE), ctx) \cup {}
            /\ OrderTypeObjections(F(l, m, FALSE), ctx)
                 \subseteq OrderTypeObjections(F(l, m, TRUE), ctx) \cup {}
        BY <2>3, <2>6
      <4> QED BY <4>1, <4>2, UnionOfParts DEF Objections
    <3> QED BY <3>1, <3>2, <3>3
  <2> QED BY <2>7 DEF ExceptionsWaiveOnlyTheirRules
<1> QED BY <1>1, TypeCorrect, PTL

-----------------------------------------------------------------------------
(* The rules of _global_halt_checks come first among all checks. *)
HaltRules ==
  {"KS-GLOBAL", "R-V05-UNCLE", "WD-HARD", "WD-SOFT", "R-V05-DD-HALT", "R-V04-DAILY-LOSS"}

LEMMA HaltsComeFirst ==
  /\ DOMAIN Precedence = 1..21
  /\ \A i \in 1..6 : Precedence[i] \in HaltRules
  /\ \A rule \in HaltRules : \E i \in 1..6 : Precedence[i] = rule
<1>1. DOMAIN Precedence = 1..21 BY DEF Precedence
<1>2. /\ Precedence[1] = "KS-GLOBAL" /\ Precedence[2] = "R-V05-UNCLE"
      /\ Precedence[3] = "WD-HARD" /\ Precedence[4] = "WD-SOFT"
      /\ Precedence[5] = "R-V05-DD-HALT" /\ Precedence[6] = "R-V04-DAILY-LOSS"
  BY DEF Precedence
<1>3. ASSUME NEW i \in 1..6 PROVE Precedence[i] \in HaltRules
  <2>1. i = 1 \/ i = 2 \/ i = 3 \/ i = 4 \/ i = 5 \/ i = 6 OBVIOUS
  <2> QED BY <1>2, <2>1 DEF HaltRules
<1>4. ASSUME NEW rule \in HaltRules PROVE \E i \in 1..6 : Precedence[i] = rule
  <2>1. /\ 1 \in 1..6 /\ 2 \in 1..6 /\ 3 \in 1..6 /\ 4 \in 1..6 /\ 5 \in 1..6
        /\ 6 \in 1..6
    OBVIOUS
  <2> QED BY <1>2, <2>1 DEF HaltRules
<1> QED BY <1>1, <1>3, <1>4

(* Only the halt checks object under a halt rule, and none other is        *)
(* named like the two verdicts that do not reject. *)
LEMMA HaltRulesAreTheirs ==
  ASSUME NEW o, NEW c
  PROVE  /\ HaltObjections(o, c) \subseteq HaltRules
         /\ Objections(o, c) \cap HaltRules \subseteq HaltObjections(o, c)
<1>1. HaltObjections(o, c) \subseteq HaltRules BY DEF HaltObjections, When, HaltRules
<1>2. PdtObjections(o, c) \cap HaltRules = {} BY DEF PdtObjections, When, HaltRules
<1>3. UniverseObjections(o, c) \cap HaltRules = {} BY DEF UniverseObjections, When, HaltRules
<1>4. SizingObjections(o, c) \cap HaltRules = {}
  <2> DEFINE cap == Quantize(SleeveNav(o, c) * CapPct(o))
  <2> HIDE DEF cap
  <2>1. SizingObjections(o, c) \subseteq {"R-V01-NOTIONAL", "R-V01-PHASE-CAP"}
    BY DEF SizingObjections, When
  <2> QED BY <2>1 DEF HaltRules
<1>5. OrderTypeObjections(o, c) \cap HaltRules = {} BY DEF OrderTypeObjections, When, HaltRules
<1>6. BuyingPowerObjections(o, c) \cap HaltRules = {}
  BY DEF BuyingPowerObjections, When, HaltRules
<1>7. PositionObjections(o, c) \cap HaltRules = {} BY DEF PositionObjections, When, HaltRules
<1> QED BY <1>1, <1>2, <1>3, <1>4, <1>5, <1>6, <1>7 DEF Objections

(* The first rule of hits that hold a halt is a halt. *)
LEMMA FirstIsHalt ==
  ASSUME NEW hits, hits \cap HaltRules # {}
  PROVE  FirstRule(hits) \in hits \cap HaltRules
<1> DEFINE Hit(i) == Precedence[i] \in hits
           First(i) == Hit(i) /\ \A j \in 1..(i - 1) : ~Hit(j)
           first == CHOOSE i \in DOMAIN Precedence : First(i)
<1>1. FirstRule(hits) = Precedence[first] BY DEF FirstRule
<1>2. PICK i \in 1..6 : Hit(i) BY HaltsComeFirst
<1>3. \E k \in 1..6 : First(k)
  <2> HIDE DEF Hit
  <2>1. First(1) \/ First(2) \/ First(3) \/ First(4) \/ First(5) \/ First(6) BY <1>2
  <2> QED BY <2>1
<1>4. PICK k \in 1..6 : First(k) BY <1>3
<1>5. first \in 1..21 /\ First(first)
  <2>1. k \in 1..21 OBVIOUS
  <2> HIDE DEF First
  <2> QED BY <1>4, <2>1, HaltsComeFirst
<1>6. first \in 1..6
  <2> HIDE DEF first, Hit
  <2>1. ASSUME first > k PROVE FALSE
    <3>1. k \in 1..(first - 1) BY <1>5, <2>1
    <3> QED BY <1>4, <1>5, <3>1
  <2> QED BY <1>5, <2>1
<1> HIDE DEF first
<1> QED BY <1>1, <1>5, <1>6, HaltsComeFirst

(* For all limits, orders and contexts, a standing halt is the verdict:    *)
(* validate_order rejects under one of the halt rules that object, and no  *)
(* unknown day-trade count turns the refusal into a deferral.              *)
THEOREM HaltsAreFirm == Spec => []HaltIsNeverDeferred
<1>1. HaltIsNeverDeferred
  <2> DEFINE halts == HaltObjections(order, ctx)
             hits == Objections(order, ctx)
  <2> SUFFICES ASSUME halts # {}
               PROVE  /\ ValidationResult(order, ctx).verdict = "REJECT"
                      /\ ValidationResult(order, ctx).rule_id \in halts
    BY DEF HaltIsNeverDeferred
  <2>1. halts \subseteq hits BY DEF Objections
  <2>2. halts \subseteq HaltRules /\ hits \cap HaltRules \subseteq halts BY HaltRulesAreTheirs
  <2>3. hits # {} /\ hits \cap HaltRules # {} BY <2>1, <2>2
  <2>4. ~Passes(order, ctx) BY <2>3 DEF Passes
  <2>5. FirstRule(hits) \in hits \cap HaltRules BY <2>3, FirstIsHalt
  <2>6. FirstRule(hits) # "R-VOK" /\ FirstRule(hits) # "R-V03-PDT-UNKNOWN"
    BY <2>5 DEF HaltRules
  <2>7. ValidationResult(order, ctx).rule_id = FirstRule(hits)
    BY <2>4 DEF ValidationResult
  <2>8. ValidationResult(order, ctx).verdict = "REJECT"
    BY <2>4, <2>6 DEF ValidationResult
  <2> QED BY <2>2, <2>5, <2>7, <2>8
<1> QED BY <1>1, PTL
=============================================================================
