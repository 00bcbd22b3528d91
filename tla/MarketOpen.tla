----------------------------- MODULE MarketOpen -----------------------------
(***************************************************************************)
(* Firings of the market-open routine (routines/market_open.py over        *)
(* routines/composition.py) against the broker, the journal and audit      *)
(* files and Discord.  A firing is one process: launchd starts it once a   *)
(* day, a human may start another, and it may die anywhere.                *)
(*                                                                         *)
(* One action per stretch of code between two effects another process, the *)
(* broker or the operator can see; what is local to the process in between *)
(* belongs to the action.  The routine never passes a drawdown_state, so   *)
(* the drawdown, uncle and wind-down flags of its context are all FALSE.   *)
(***************************************************************************)
EXTENDS ValidateOrder, FiniteSets

CONSTANTS
  Runs,            \* firings of the routine, one process each
  Decisions,       \* what the risk manager may answer
  Accounts,        \* account snapshots the broker may return
  Symbols,         \* tickers in upper case
  AllowedSymbols,  \* the tradable ones of the latest asset list
  Upper,           \* str.upper() on the tickers the model may emit
  Versions,        \* what `git rev-parse --short HEAD` may return
  KillSignals,     \* the local ones: the kill file, DARKHORSE_KILL=1
  RemoteReplies,   \* what the remote kill endpoint may answer
  Faults,          \* the faults of the environment that may occur
  CoreNav, SatelliteNav, PhaseCoreDeployCap, PdtThreshold, ConfidenceThreshold,
  MaxAttempts,     \* len(retry_delays_s) + 1
  MaxDay,          \* bound: the last UTC date of the model
  MaxOverlap,      \* bound: how many firings may be under way at once
  DryRunChoices,   \* the values of dry_run a firing may be started with
  MalformedPrice   \* a limit_price that Decimal() rejects

Decision ==
  [action: {"BUY", "SELL", "NO_TRADE"}, ticker: DOMAIN Upper \cup {None}, qty: Nat,
   order_type: {"limit", "market", "none"}, limit_price: Int \cup {None, MalformedPrice},
   confidence: 0..100, market_order_exception: BOOLEAN, thesis: STRING]

Account ==
  [trading_blocked: BOOLEAN, buying_power: Int, equity: Nat \ {0},
   daytrade_count: Nat \cup {None}]

OrderId ==
  [date: 1..MaxDay, symbol: Symbols,
   intent: [version: Versions, decision: Decision]]

Replies     == {"not configured", "allow", "kill", "not 200", "unreachable"}
FaultKinds  == {"fetch", "harness", "cost", "timeout", "refusal", "disk", "discord",
                "dead_letters", "crash"}

ASSUME RoutineAssumption ==
  /\ Upper \in [DOMAIN Upper -> Symbols] /\ None \notin DOMAIN Upper
  /\ MalformedPrice \notin Int \cup {None}
  /\ Decisions \subseteq Decision /\ None \notin Decision
  /\ Accounts \subseteq Account /\ None \notin Account
  /\ None \notin Versions /\ None \notin OrderId
  /\ AllowedSymbols \subseteq Symbols
  /\ RemoteReplies \subseteq Replies /\ Faults \subseteq FaultKinds
  /\ CoreNav \in Nat \ {0} /\ SatelliteNav \in Nat \ {0}
  /\ PhaseCoreDeployCap \in Nat \cup {None}
  /\ PdtThreshold \in Nat /\ ConfidenceThreshold \in 0..100
  /\ MaxAttempts \in Nat \ {0} /\ MaxDay \in Nat \ {0} /\ MaxOverlap \in Nat
  /\ DryRunChoices \subseteq BOOLEAN

VARIABLES
  day,        \* the UTC date
  signals,    \* kill signals the operator has raised
  orders,     \* orders live at the broker
  journal,    \* decision rows, each in the file of its day
  audit,      \* audit events
  notices,    \* messages posted to Discord or written to the dead letters
  run         \* the local state of each firing

vars == <<day, signals, orders, journal, audit, notices, run>>

Ended  == {"done", "raised", "crashed"}
Phases == {"idle", "load", "start_audit", "harness", "submit",
           "journal_check", "journal_append", "audit", "notify"} \cup Ended
Outcomes == {"none", "blocked", "cost_cap", "harness_error", "no_trade", "low_confidence",
             "invalid", "rejected", "dry_run", "submitted"}

Active(r) == run[r].phase \notin {"idle"} \cup Ended

-----------------------------------------------------------------------------
(* Faulty variants of operators below; no specification uses them. *)

OrderIdPerFiring(r, v, d) ==
  [date |-> day, symbol |-> Upper[d.ticker], firing |-> r, intent |-> v]

RemoteFailuresAllow(s, reply) == IF reply = "kill" THEN s \cup {reply} ELSE s

NoRemoteMeansAllowed(s, reply) ==
  CASE reply = "not configured" -> {}
    [] reply = "allow"          -> s
    [] OTHER                    -> s \cup {reply}

-----------------------------------------------------------------------------
(* Reasons evaluate_kill_switch reports; a failed remote check blocks. *)
KillReasons(s, reply) ==
  s \cup (IF reply \in {"not configured", "allow"} THEN {} ELSE {reply})

(* trading_blocked, as composition and routine both compute it. *)
TradingBlocked(p) == KillReasons(p.signals, p.reply) # {} \/ p.account.trading_blocked

(* build_validation_context_from_account on the process's own snapshot. *)
Context(p) ==
  [core_nav |-> CoreNav, satellite_nav |-> SatelliteNav,
   core_allowed_symbols |-> AllowedSymbols, satellite_allowed_symbols |-> AllowedSymbols,
   core_liquid |-> TRUE, satellite_liquid |-> TRUE,
   core_earnings_window |-> FALSE, otc_or_penny |-> FALSE,
   pdt_restricted |-> p.account.equity < PdtThreshold,
   day_trades |-> p.account.daytrade_count, would_be_day_trade |-> FALSE,
   core_daily_loss_halt |-> FALSE, satellite_daily_loss_halt |-> FALSE,
   core_drawdown_halt |-> FALSE, core_uncle |-> FALSE, satellite_uncle |-> FALSE,
   paused |-> TradingBlocked(p), soft_wind_down |-> FALSE, hard_wind_down |-> FALSE,
   trades_today |-> 0, buying_power |-> p.account.buying_power, position_qty |-> None,
   max_core_deploy |-> PhaseCoreDeployCap]

(* intent_hash of the decision payload, as the tuple it digests: the git   *)
(* version is in it, the market-order exception is not.  A row written by  *)
(* a blocked composition has no decision.                                  *)
Intent(v, d) ==
  [version |-> v,
   decision |-> IF d = None THEN None ELSE [d EXCEPT !.market_order_exception = FALSE]]

(* client_order_id_for_alpaca: the digest of these components. *)
OrderIdOf(r, v, d) == [date |-> day, symbol |-> Upper[d.ticker], intent |-> Intent(v, d)]

-----------------------------------------------------------------------------
(* A price of "" or "0" counts as no price; the floor is one cent. *)
Notional(d) ==
  IF d.limit_price \in Int /\ d.qty * d.limit_price > 1 THEN d.qty * d.limit_price ELSE 1

Complete(d) == d.ticker # None /\ d.qty > 0 /\ d.order_type # "none"

OrderFrom(d) ==
  [sleeve |-> "core", symbol |-> Upper[d.ticker],
   side |-> IF d.action = "BUY" THEN "buy" ELSE "sell",
   order_type |-> d.order_type, qty |-> d.qty, priced |-> d.limit_price # None,
   notional |-> Notional(d), market_order_exception |-> d.market_order_exception,
   satellite_first_tranche |-> FALSE, wind_down_liquidation |-> FALSE]

(* Faulty variant of Route. *)
ConfidenceIgnored(d, c) ==
  IF d.action = "NO_TRADE"               THEN "no_trade"
  ELSE IF ~Complete(d)                   THEN "invalid"
  ELSE IF d.limit_price = MalformedPrice THEN "raises"
  ELSE IF ~Passes(OrderFrom(d), c)       THEN "rejected"
  ELSE "authorised"

(* What run_market_open does with decision d, in the order of its tests. *)
Route(d, c) ==
  IF d.action = "NO_TRADE"                   THEN "no_trade"
  ELSE IF d.confidence < ConfidenceThreshold THEN "low_confidence"
  ELSE IF ~Complete(d)                       THEN "invalid"
  ELSE IF d.limit_price = MalformedPrice     THEN "raises"
  ELSE IF ~Passes(OrderFrom(d), c)           THEN "rejected"
  ELSE "authorised"

-----------------------------------------------------------------------------
Process ==                                   \* the local state of a firing
  [phase: Phases, dry_run: BOOLEAN, signals: SUBSET KillSignals, reply: Replies,
   account: Account \cup {None}, version: Versions \cup {None},
   decision: Decisions \cup {None}, order_id: OrderId \cup {None},
   tries: 0..(MaxAttempts - 1), today: 0..MaxDay, dup: BOOLEAN, outcome: Outcomes]

Fresh ==
  [phase |-> "idle", dry_run |-> FALSE, signals |-> {}, reply |-> "not configured", account |-> None,
   version |-> None, decision |-> None, order_id |-> None, tries |-> 0, today |-> 0,
   dup |-> FALSE, outcome |-> "none"]

Init ==
  /\ day = 1 /\ signals = {}
  /\ orders = {} /\ journal = {} /\ audit = {} /\ notices = {}
  /\ run = [r \in Runs |-> Fresh]

Become(r, p) == run' = [run EXCEPT ![r] = p]

(* A fault of the environment that ends the process with an exception. *)
Raise(r) == Become(r, [run[r] EXCEPT !.phase = "raised"])

(* The broker, external: it books an order id once.  A second POST with a  *)
(* booked id finds the original order.                                     *)
Book(r) ==
  IF \E o \in orders : o.id = run[r].order_id THEN orders
  ELSE orders \cup {[id |-> run[r].order_id, run |-> r]}

Fingerprint(r) == Intent(run[r].version, run[r].decision)

-----------------------------------------------------------------------------
(* Faulty variants of actions below; no specification uses them. *)

AuditOnlyBlockedStarts(r) ==
  /\ run[r].phase = "start_audit"
  /\ IF TradingBlocked(run[r])
     THEN /\ audit' = audit \cup {[run |-> r, day |-> day, action |-> "routine_started",
                                   to_state |-> "kill_switch_blocked"]}
          /\ Become(r, [run[r] EXCEPT !.phase = "notify", !.outcome = "blocked"])
     ELSE Become(r, [run[r] EXCEPT !.phase = "harness"]) /\ UNCHANGED audit
  /\ UNCHANGED <<day, signals, orders, journal, notices>>

CostCapReturnsSilently(r) ==
  /\ run[r].phase = "harness" /\ "cost" \in Faults
  /\ Become(r, [run[r] EXCEPT !.phase = "done", !.outcome = "cost_cap"])
  /\ UNCHANGED <<day, signals, orders, journal, audit, notices>>

NoAnswer(r) ==
  /\ "timeout" \in Faults /\ run[r].phase = "submit"
  /\ orders' \in {orders, Book(r)}
  /\ UNCHANGED <<day, signals, journal, audit, notices>>

RetryOnceTooOften(r) ==
  NoAnswer(r) /\ IF run[r].tries < MaxAttempts
                 THEN Become(r, [run[r] EXCEPT !.tries = @ + 1]) ELSE Raise(r)

RetriesStartOver(r) ==
  NoAnswer(r) /\ Become(r, [run[r] EXCEPT !.tries = (@ + 1) % MaxAttempts])

RetryWithTodaysId(r) ==
  NoAnswer(r) /\ Become(r, [run[r] EXCEPT
    !.order_id = OrderIdOf(r, run[r].version, run[r].decision)])

GivingUpCountsAsSubmitted(r) ==
  NoAnswer(r) /\ Become(r, [run[r] EXCEPT !.phase = "journal_check", !.outcome = "submitted"])

DedupeWhere(r, Same(_)) ==
  /\ run[r].phase = "journal_check"
  /\ Become(r, [run[r] EXCEPT !.phase = "journal_append", !.today = day,
       !.dup = \E row \in journal : row.intent = Fingerprint(r) /\ Same(row)])
  /\ UNCHANGED <<day, signals, orders, journal, audit, notices>>

DedupeAcrossDays(r) == DedupeWhere(r, LAMBDA row : TRUE)

DedupeByOutcome(r) == DedupeWhere(r, LAMBDA row : row.outcome = run[r].outcome)

-----------------------------------------------------------------------------
(* compose_routine_snapshot: the kill switch first, read once. *)
Begin(r) ==
  /\ run[r].phase = "idle"
  /\ Cardinality({q \in Runs : Active(q)}) < MaxOverlap
  /\ \E reply \in RemoteReplies, dry \in DryRunChoices :
       Become(r, [run[r] EXCEPT !.phase = "load", !.dry_run = dry,
                                !.signals = signals, !.reply = reply])
  /\ UNCHANGED <<day, signals, orders, journal, audit, notices>>

(* Then the asset list, the account and the positions (only counted). *)
Load(r) ==
  /\ run[r].phase = "load"
  /\ \E a \in Accounts :
       Become(r, [run[r] EXCEPT !.phase = "start_audit", !.account = a])
  /\ UNCHANGED <<day, signals, orders, journal, audit, notices>>

(* No asset list, or the broker gave up: nothing catches it. *)
LoadFails(r) ==
  /\ "fetch" \in Faults /\ run[r].phase = "load"
  /\ Raise(r)
  /\ UNCHANGED <<day, signals, orders, journal, audit, notices>>

(* _write_envelope_records: the start event, whose flags leave out a       *)
(* blocked account, then a NO_TRADE row when trading is blocked.           *)
WriteStartAudit(r) ==
  LET blocked == TradingBlocked(run[r])
      flag    == IF KillReasons(run[r].signals, run[r].reply) = {}
                 THEN "trading_allowed" ELSE "kill_switch_blocked"
  IN  /\ run[r].phase = "start_audit"
      /\ audit' = audit \cup
           {[run |-> r, day |-> day, action |-> "routine_started", to_state |-> flag]}
      /\ \/ /\ blocked
            /\ \E v \in Versions :
                 Become(r, [run[r] EXCEPT !.phase = "journal_check", !.outcome = "blocked",
                                      !.today = day, !.version = v])
         \/ ~blocked /\ Become(r, [run[r] EXCEPT !.phase = "harness"])
      /\ UNCHANGED <<day, signals, orders, journal, notices>>

(* The session hit the cost cap, or raised anything else. *)
HarnessStops(r) ==
  /\ run[r].phase = "harness"
  /\ \/ /\ "cost" \in Faults
        /\ Become(r, [run[r] EXCEPT !.phase = "notify", !.outcome = "cost_cap"])
     \/ /\ "harness" \in Faults
        /\ Become(r, [run[r] EXCEPT !.phase = "notify", !.outcome = "harness_error"])
  /\ UNCHANGED <<day, signals, orders, journal, audit, notices>>

(* The risk manager decides and the routine declines to trade. *)
Decline(r) ==
  /\ run[r].phase = "harness"
  /\ \E d \in Decisions, v \in Versions :
       LET route == Route(d, Context(run[r]))
       IN  /\ route \in {"no_trade", "low_confidence", "invalid", "rejected"}
           /\ Become(r, [run[r] EXCEPT !.phase = "journal_check", !.outcome = route,
                                  !.decision = d, !.version = v])
  /\ UNCHANGED <<day, signals, orders, journal, audit, notices>>

(* Decimal(limit_price) raises and nothing catches it. *)
DecideRaises(r) ==
  /\ run[r].phase = "harness"
  /\ \E d \in Decisions : Route(d, Context(run[r])) = "raises"
  /\ Raise(r)
  /\ UNCHANGED <<day, signals, orders, journal, audit, notices>>

(* Every gate passed: the order id is fixed, and a dry run stops here. *)
Authorise(r) ==
  /\ run[r].phase = "harness"
  /\ \E d \in Decisions, v \in Versions :
       /\ Route(d, Context(run[r])) = "authorised"
       /\ Become(r, [run[r] EXCEPT
            !.phase   = IF run[r].dry_run THEN "journal_check" ELSE "submit",
            !.outcome = IF run[r].dry_run THEN "dry_run" ELSE "none",
            !.decision = d, !.version = v, !.order_id = OrderIdOf(r, v, d)])
  /\ UNCHANGED <<day, signals, orders, journal, audit, notices>>

-----------------------------------------------------------------------------
(* submit_order: the POST is answered with the order. *)
SubmitAnswered(r) ==
  /\ run[r].phase = "submit"
  /\ orders' = Book(r)
  /\ Become(r, [run[r] EXCEPT !.phase = "journal_check", !.outcome = "submitted"])
  /\ UNCHANGED <<day, signals, journal, audit, notices>>

(* A timeout, a transport error or a 5xx, whether or not the broker booked *)
(* the order: _request_with_retries posts again or gives up.               *)
SubmitSilent(r) ==
  /\ "timeout" \in Faults /\ run[r].phase = "submit"
  /\ orders' \in {orders, Book(r)}
  /\ IF run[r].tries + 1 < MaxAttempts
     THEN Become(r, [run[r] EXCEPT !.tries = @ + 1])
     ELSE Raise(r)
  /\ UNCHANGED <<day, signals, journal, audit, notices>>

(* A 4xx, or an answer that is no order object: never retried. *)
SubmitFails(r) ==
  /\ "refusal" \in Faults /\ run[r].phase = "submit"
  /\ orders' \in {orders, Book(r)}
  /\ Raise(r)
  /\ UNCHANGED <<day, signals, journal, audit, notices>>

-----------------------------------------------------------------------------
(* append_jsonl_record reads the day's file for the fingerprint ...        *)
JournalCheck(r) ==
  LET today == IF run[r].outcome = "blocked" THEN run[r].today ELSE day
  IN  /\ run[r].phase = "journal_check"
      /\ Become(r, [run[r] EXCEPT !.phase = "journal_append", !.today = today,
            !.dup = \E row \in journal : row.day = today /\ row.intent = Fingerprint(r)])
      /\ UNCHANGED <<day, signals, orders, journal, audit, notices>>

(* ... and appends the row only if it was not there. *)
JournalAppend(r) ==
  /\ run[r].phase = "journal_append"
  /\ journal' = IF run[r].dup THEN journal
                ELSE journal \cup {[run |-> r, day |-> run[r].today,
                                    intent |-> Fingerprint(r), outcome |-> run[r].outcome]}
  /\ Become(r, [run[r] EXCEPT !.phase = IF run[r].outcome = "blocked" THEN "notify" ELSE "audit"])
  /\ UNCHANGED <<day, signals, orders, audit, notices>>

(* The decision event: "submitted" whenever the record has an order id, a  *)
(* dry run's included.                                                     *)
AuditDecision(r) ==
  /\ run[r].phase = "audit"
  /\ audit' = audit \cup
       {[run |-> r, day |-> run[r].today, action |-> "decision",
         to_state |-> IF run[r].order_id # None THEN "submitted" ELSE "journaled"]}
  /\ Become(r, [run[r] EXCEPT !.phase = "notify"])
  /\ UNCHANGED <<day, signals, orders, journal, notices>>

(* A write to the journal or audit file fails: nothing catches it. *)
WriteFails(r) ==
  /\ "disk" \in Faults
  /\ run[r].phase \in {"start_audit", "journal_check", "journal_append", "audit"}
  /\ Raise(r)
  /\ UNCHANGED <<day, signals, orders, journal, audit, notices>>

(* _notify_safe: Discord, else the dead letters, else nothing at all (see  *)
(* Delivery); a post without an answer may be in both.  Then the routine   *)
(* returns, or re-raises the harness's exception.                          *)
Notify(r) ==
  /\ run[r].phase = "notify"
  /\ \E to \in SUBSET {"discord", "dead letter"} :
       /\ to # {"discord"} => "discord" \in Faults
       /\ to = {} => "dead_letters" \in Faults
       /\ notices' = notices \cup {[run |-> r, via |-> v] : v \in to}
  /\ Become(r, [run[r] EXCEPT
       !.phase = IF run[r].outcome = "harness_error" THEN "raised" ELSE "done"])
  /\ UNCHANGED <<day, signals, orders, journal, audit>>

-----------------------------------------------------------------------------
(* The process dies between two steps. *)
Crash(r) ==
  /\ "crash" \in Faults /\ Active(r)
  /\ Become(r, [run[r] EXCEPT !.phase = "crashed"])
  /\ UNCHANGED <<day, signals, orders, journal, audit, notices>>

(* The operator raises or clears a kill signal. *)
Toggle(s) ==
  /\ signals' = IF s \in signals THEN signals \ {s} ELSE signals \cup {s}
  /\ UNCHANGED <<day, orders, journal, audit, notices, run>>

NextDay ==
  /\ day < MaxDay /\ day' = day + 1
  /\ UNCHANGED <<signals, orders, journal, audit, notices, run>>

Compose(r) == Begin(r) \/ Load(r) \/ LoadFails(r) \/ WriteStartAudit(r)
DecideStep(r) == HarnessStops(r) \/ Decline(r) \/ DecideRaises(r) \/ Authorise(r)
Submit(r) == SubmitAnswered(r) \/ SubmitSilent(r) \/ SubmitFails(r)
Record(r) ==
  JournalCheck(r) \/ JournalAppend(r) \/ AuditDecision(r) \/ WriteFails(r) \/ Notify(r)

Step(r) == Compose(r) \/ DecideStep(r) \/ Submit(r) \/ Record(r)

Next ==
  \/ \E r \in Runs : Step(r) \/ Crash(r)
  \/ \E s \in KillSignals : Toggle(s)
  \/ NextDay

Spec == Init /\ [][Next]_vars

(* A process that is under way keeps running until it ends: every call it  *)
(* makes has a timeout.  Nothing makes a firing begin.                     *)
FairSpec == Spec /\ \A r \in Runs : WF_vars(Active(r) /\ Step(r))

-----------------------------------------------------------------------------
JournalRow ==
  [run: Runs, day: 1..MaxDay, outcome: Outcomes,
   intent: [version: Versions, decision: Decision \cup {None}]]

AuditEvent ==
  [run: Runs, day: 1..MaxDay, action: {"routine_started", "decision"},
   to_state: {"trading_allowed", "kill_switch_blocked", "submitted", "journaled"}]

TypeOK ==
  /\ day \in 1..MaxDay /\ signals \subseteq KillSignals
  /\ run \in [Runs -> Process]
  /\ orders \subseteq [id: OrderId, run: Runs]
  /\ journal \subseteq JournalRow /\ audit \subseteq AuditEvent
  /\ notices \subseteq [run: Runs, via: {"discord", "dead letter"}]

(* However often the order is posted, by the retries of one firing or by   *)
(* two firings on the same day, one decision has one order at the broker   *)
(* (ID-01, ID-02).                                                         *)
OneOrderPerIntent ==
  \A o, p \in orders :
    (o.id.date = p.id.date /\ Fingerprint(o.run) = Fingerprint(p.run)) => o = p

(* KS-01, KS-02: a firing that began while a kill signal was up, or whose  *)
(* remote check failed, or whose account the broker had blocked, neither   *)
(* consults the model nor has an order at the broker, whatever the         *)
(* operator does to the signals afterwards.                                *)
BlockedFiringNeverTrades ==
  \A r \in Runs :
    LET p == run[r]
        blocked == \/ p.signals # {} \/ p.reply \in {"kill", "not 200", "unreachable"}
                   \/ p.account # None /\ p.account.trading_blocked
    IN  blocked => p.decision = None /\ \A o \in orders : o.run # r

(* Every order at the broker is the one its firing was authorised to send: *)
(* confident enough, tradable, no market order without the exception, and  *)
(* for a buy within the single-name cap, the deployment cap and the buying *)
(* power of the firing's own snapshot, whichever retry delivered it.       *)
OrdersWithinLimits ==
  \A o \in orders :
    LET p == run[o.run]  d == p.decision  n == Notional(d)
    IN  /\ d # None /\ d.action # "NO_TRADE" /\ d.confidence >= ConfidenceThreshold
        /\ o.id.symbol = Upper[d.ticker] /\ o.id.symbol \in AllowedSymbols
        /\ d.order_type = "market" => d.market_order_exception
        /\ d.action = "BUY" =>
             /\ n <= Quantize(CoreNav * CoreMaxSingleNamePct)
             /\ PhaseCoreDeployCap # None => n <= PhaseCoreDeployCap
             /\ n + BuyingPowerBuffer <= p.account.buying_power

(* A firing that returns with a decision has left its fingerprint in the   *)
(* journal of the day it journalled on, and its start and its decision in  *)
(* the audit log; a submitted one is audited as submitted and its order is *)
(* live.  Deduplication may withhold the row, never the fingerprint.       *)
ReturnedFiringIsOnRecord ==
  \A r \in Runs :
    (run[r].phase = "done" /\ run[r].decision # None) =>
      /\ \E row \in journal : row.day = run[r].today /\ row.intent = Fingerprint(r)
      /\ \E e \in audit : e.run = r /\ e.action = "routine_started"
      /\ \E e \in audit :
           /\ e.run = r /\ e.action = "decision" /\ e.day = run[r].today
           /\ (run[r].outcome = "submitted" => e.to_state = "submitted")
      /\ run[r].outcome = "submitted" => \E o \in orders : o.id = run[r].order_id

(* The audit log is ahead of the broker: an order is live only if the      *)
(* start of the firing that sent it was already audited as allowed.        *)
OrderFollowsItsAudit ==
  \A o \in orders : \E e \in audit :
    e.run = o.run /\ e.action = "routine_started" /\ e.to_state = "trading_allowed"

(* ID-03: one journal row per fingerprint and day. *)
OneRowPerFingerprint ==
  \A x, y \in journal : (x.day = y.day /\ x.intent = y.intent) => x = y

(* A firing that returns, or re-raises the harness's exception, has posted *)
(* its outcome or left it in the dead letters, unless both were down.      *)
OutcomeIsAnnounced ==
  \A r \in Runs :
    \/ \E n \in notices : n.run = r
    \/ {"discord", "dead_letters"} \subseteq Faults
    \/ ~(run[r].phase = "done" \/ (run[r].phase = "raised" /\ run[r].outcome = "harness_error"))

(* A decision, once made, is not remade: no step of any firing changes the *)
(* decision or order id a firing has fixed, nor withdraws a row or order.  *)
DecisionsAreFinal ==
  [][/\ \A r \in Runs : run[r].decision # None =>
          run'[r].decision = run[r].decision /\ run'[r].order_id = run[r].order_id
     /\ orders \subseteq orders' /\ journal \subseteq journal']_vars

(* A firing that began ends: with the retries bounded and every call timed *)
(* out, no fault keeps it under way for ever.                              *)
EveryFiringEnds == \A r \in Runs : Active(r) ~> run[r].phase \in Ended

-----------------------------------------------------------------------------
(* The routine implements its contract: what a firing has done so far.     *)
Stage(p) ==
  CASE p.phase = "idle" -> "idle"
    [] p.phase \in Ended -> "closed"
    [] p.phase \in {"load", "start_audit", "harness"} -> "open"
    [] p.phase = "submit" -> "committed"
    [] OTHER -> IF p.outcome = "submitted" THEN "settled"
                ELSE IF p.outcome \in {"cost_cap", "harness_error"} THEN "open"
                ELSE "declined"

Contract == INSTANCE RoutineContract WITH
  Firings <- Runs, Keys <- OrderId, booked <- orders,
  stage <- [r \in Runs |-> Stage(run[r])],
  key   <- [r \in Runs |-> IF run[r].dry_run THEN None ELSE run[r].order_id]

(* Every behaviour of the routine is one its contract allows.              *)
ImplementsContract == Contract!Spec

-----------------------------------------------------------------------------
(* What the documents say and the code does not do. *)

(* A firing books a new order only when every live order of a firing that  *)
(* ended before is in the journal as submitted (riskMitigation.md R6, ID-04). *)
NewOrdersAreReconciled ==
  [][\A o \in orders' \ orders, p \in orders :
       run[p.run].phase \in Ended =>
         \E row \in journal : row.run = p.run /\ row.outcome = "submitted"]_vars

(* A submitted decision has a journal row that says so (dataSchema.md §1). *)
SubmittedRowExists ==
  \A r \in Runs : (run[r].phase = "done" /\ run[r].outcome = "submitted") =>
    \E row \in journal : row.day = run[r].today /\ row.intent = Fingerprint(r)
                         /\ row.outcome = "submitted"

(* Three trades per day per sleeve is a hard maximum (risk_policy.md §6). *)
CadenceHolds ==
  \A d \in 1..MaxDay :
    Cardinality({o \in orders : o.id.date = d}) <= MaxTradesPerDayPerSleeve
=============================================================================
