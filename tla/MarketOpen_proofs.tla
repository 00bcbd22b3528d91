-------------------------- MODULE MarketOpen_proofs --------------------------
(***************************************************************************)
(* Proofs about the market-open routine, for any number of firings under   *)
(* way at once and whatever faults occur: types, one order per intent, no  *)
(* trade in a blocked firing, no order before its audit event, decisions   *)
(* that are never remade, orders within the limits of the gate, and steps  *)
(* that run out.                                                           *)
(***************************************************************************)
EXTENDS MarketOpen, TLAPS

(* A firing that got past the kill switch and the account's own block. *)
PastTheBlocks(p) == p.phase = "harness" \/ p.decision # None \/ p.order_id # None

(* What the local state of one firing says about itself. *)
Firing(p) ==
  /\ p.phase \in {"idle", "load", "start_audit", "harness"} =>
       p.decision = None /\ p.order_id = None
  /\ p.phase \in {"start_audit", "harness"} => p.account # None
  /\ p.phase = "submit" => p.order_id # None
  /\ p.phase \in {"journal_check", "journal_append"} => p.version # None
  /\ p.phase \in {"journal_append", "audit"} => p.today # 0
  /\ p.phase = "journal_check" /\ p.outcome = "blocked" => p.today # 0
  /\ PastTheBlocks(p) => p.account # None /\ ~TradingBlocked(p)
  /\ p.order_id # None =>
       /\ p.decision # None /\ p.version # None
       /\ p.order_id.symbol = Upper[p.decision.ticker]
       /\ p.order_id.intent = Intent(p.version, p.decision)

Firings == \A r \in Runs : Firing(run[r])

(* An order carries the id its firing has fixed, and ids are unique. *)
Booked ==
  /\ \A o \in orders : run[o.run].order_id # None /\ o.id = run[o.run].order_id
  /\ \A o, p \in orders : o.id = p.id => o = p

(* The start of a firing is audited as allowed before it can decide. *)
StartOf(r) ==
  \E e \in audit : e.run = r /\ e.action = "routine_started" /\ e.to_state = "trading_allowed"
Audited == \A r \in Runs : PastTheBlocks(run[r]) => StartOf(r)

Inv == TypeOK /\ Firings /\ Booked /\ Audited

-----------------------------------------------------------------------------
(* What Route has established of a decision it authorises. *)
LEMMA AuthorisedRoute ==
  ASSUME NEW d, NEW c, Route(d, c) = "authorised"
  PROVE  /\ d.action # "NO_TRADE" /\ ~(d.confidence < ConfidenceThreshold)
         /\ Complete(d) /\ d.limit_price # MalformedPrice /\ Passes(OrderFrom(d), c)
BY DEF Route

(* The digests of an authorised decision are order ids and fingerprints. *)
LEMMA IntentType ==
  ASSUME NEW v \in Versions, NEW d \in Decision
  PROVE  Intent(v, d) \in [version: Versions, decision: Decision]
<1>1. d # None BY RoutineAssumption
<1> QED BY <1>1 DEF Intent, Decision

LEMMA OrderIdType ==
  ASSUME NEW r, NEW v \in Versions, NEW d \in Decision, Complete(d), day \in 1..MaxDay
  PROVE  OrderIdOf(r, v, d) \in OrderId
<1>1. Upper[d.ticker] \in Symbols
  BY RoutineAssumption DEF Complete, Decision
<1> QED BY <1>1, IntentType DEF OrderIdOf, OrderId

(* A step of one firing leaves the others as they were. *)
LEMMA OneFiringMoves ==
  ASSUME run \in [Runs -> Process], NEW r \in Runs, NEW p \in Process, Become(r, p)
  PROVE  /\ run' \in [Runs -> Process] /\ run'[r] = p
         /\ \A q \in Runs : q # r => run'[q] = run[q]
BY DEF Become

(* A step of one firing that keeps or first fixes its order id and books   *)
(* nothing keeps the invariant, if its new state is in order and its start *)
(* audited.                                                                *)
LEMMA QuietStep ==
  ASSUME Inv, NEW r \in Runs, NEW p \in Process, Become(r, p),
         Firing(p), run[r].order_id \in {None, p.order_id}, orders' = orders,
         audit \subseteq audit', PastTheBlocks(p) => StartOf(r)'
  PROVE  run' \in [Runs -> Process] /\ Firings' /\ Booked' /\ Audited'
<1>1. /\ run' \in [Runs -> Process] /\ run'[r] = p
      /\ \A q \in Runs : q # r => run'[q] = run[q]
  BY OneFiringMoves DEF Inv, TypeOK
<1>2. Firings' BY <1>1 DEF Inv, Firings
<1>3. Booked'
  <2>1. \A o \in orders : run'[o.run].order_id = run[o.run].order_id
    BY <1>1 DEF Inv, TypeOK, Booked
  <2> QED BY <2>1 DEF Inv, Booked
<1>4. Audited' BY <1>1 DEF Inv, Audited, StartOf
<1> QED BY <1>1, <1>2, <1>3, <1>4
(* The invariant holds at first ...                                        *)
LEMMA InitInv == Init => Inv
<1> SUFFICES ASSUME Init PROVE Inv OBVIOUS
<1>0. 0 \in 0..(MaxAttempts - 1) /\ 0 \in 0..MaxDay /\ 1 \in 1..MaxDay
  BY RoutineAssumption
<1>1. Fresh \in Process
  BY <1>0 DEF Fresh, Process, Phases, Replies, Outcomes
<1>2. run \in [Runs -> Process] BY <1>1 DEF Init
<1>3. TypeOK BY <1>0, <1>2 DEF Init, TypeOK
<1>4. Firing(Fresh) BY DEF Fresh, Firing, PastTheBlocks
<1>5. Firings /\ Booked /\ Audited
  BY <1>4 DEF Init, Firings, Booked, Audited, Fresh, PastTheBlocks
<1> QED BY <1>3, <1>5 DEF Inv

(* ... and an exception or the death of a process keeps it.                *)
LEMMA AbandonInv ==
  ASSUME Inv, NEW r \in Runs, NEW phase \in {"raised", "crashed"},
         Become(r, [run[r] EXCEPT !.phase = phase]),
         UNCHANGED <<day, signals, orders, journal, audit, notices>>
  PROVE  Inv'
<1> DEFINE p == [run[r] EXCEPT !.phase = phase]
<1>1. run[r] \in Process BY DEF Inv, TypeOK
<1>2. p \in Process /\ p.order_id = run[r].order_id
  BY <1>1 DEF Process, Phases, Ended
<1>3. Firing(run[r]) /\ (PastTheBlocks(run[r]) => StartOf(r))
  BY DEF Inv, Firings, Audited
<1>4. Firing(p) /\ (PastTheBlocks(p) => StartOf(r)')
  BY <1>1, <1>3 DEF Firing, PastTheBlocks, TradingBlocked, StartOf, Process
<1>5. run' \in [Runs -> Process] /\ Firings' /\ Booked' /\ Audited'
  <2> HIDE DEF p
  <2> QED BY <1>2, <1>4, QuietStep DEF p
<1> QED BY <1>5 DEF Inv, TypeOK

(* What is known of the firing that moves. *)
LEMMA MoverFacts ==
  ASSUME Inv, NEW r \in Runs
  PROVE  /\ run[r] \in Process /\ Firing(run[r])
         /\ PastTheBlocks(run[r]) => StartOf(r)
BY DEF Inv, TypeOK, Firings, Audited

LEMMA ComposeInv ==
  ASSUME Inv, NEW r \in Runs, Compose(r) PROVE Inv'
<1>0. /\ run[r] \in Process /\ Firing(run[r]) /\ (PastTheBlocks(run[r]) => StartOf(r))
      /\ day \in 1..MaxDay
  BY MoverFacts DEF Inv, TypeOK
<1>1. CASE Begin(r)
  <2>1. PICK reply \in RemoteReplies, dry \in DryRunChoices :
          Become(r, [run[r] EXCEPT !.phase = "load", !.dry_run = dry,
                                   !.signals = signals, !.reply = reply])
    BY <1>1 DEF Begin
  <2> DEFINE p == [run[r] EXCEPT !.phase = "load", !.dry_run = dry,
                                 !.signals = signals, !.reply = reply]
  <2>2. reply \in Replies /\ dry \in BOOLEAN /\ signals \in SUBSET KillSignals
    BY RoutineAssumption DEF Inv, TypeOK
  <2>3. p \in Process /\ p.order_id = run[r].order_id
    BY <1>0, <2>2 DEF Process, Phases
  <2>4. Firing(p) /\ ~PastTheBlocks(p)
    BY <1>0, <1>1 DEF Begin, Firing, PastTheBlocks, Process
  <2>5. run' \in [Runs -> Process] /\ Firings' /\ Booked' /\ Audited'
    <3> HIDE DEF p
    <3> QED BY <1>1, <2>1, <2>3, <2>4, QuietStep DEF Begin, p
  <2> QED BY <1>1, <2>5 DEF Begin, Inv, TypeOK
<1>2. CASE Load(r)
  <2>1. PICK a \in Accounts :
          Become(r, [run[r] EXCEPT !.phase = "start_audit", !.account = a])
    BY <1>2 DEF Load
  <2> DEFINE p == [run[r] EXCEPT !.phase = "start_audit", !.account = a]
  <2>2. a \in Account /\ a # None
    BY RoutineAssumption
  <2>3. p \in Process /\ p.order_id = run[r].order_id
    BY <1>0, <2>2 DEF Process, Phases
  <2>4. Firing(p) /\ ~PastTheBlocks(p)
    BY <1>0, <1>2, <2>2 DEF Load, Firing, PastTheBlocks, Process
  <2>5. run' \in [Runs -> Process] /\ Firings' /\ Booked' /\ Audited'
    <3> HIDE DEF p
    <3> QED BY <1>2, <2>1, <2>3, <2>4, QuietStep DEF Load, p
  <2> QED BY <1>2, <2>5 DEF Load, Inv, TypeOK
<1>3. CASE LoadFails(r)
  BY <1>3, AbandonInv DEF LoadFails, Raise
<1>4. CASE WriteStartAudit(r)
  <2> DEFINE flag == IF KillReasons(run[r].signals, run[r].reply) = {}
                     THEN "trading_allowed" ELSE "kill_switch_blocked"
             start == [run |-> r, day |-> day, action |-> "routine_started", to_state |-> flag]
  <2>1. /\ run[r].phase = "start_audit" /\ audit' = audit \cup {start}
        /\ UNCHANGED <<day, signals, orders, journal, notices>>
    BY <1>4 DEF WriteStartAudit
  <2>2. /\ start \in AuditEvent
        /\ start.run = r /\ start.action = "routine_started" /\ start.to_state = flag
    BY <1>0 DEF AuditEvent
  <2>3. ASSUME TradingBlocked(run[r]), NEW v \in Versions,
               Become(r, [run[r] EXCEPT !.phase = "journal_check", !.outcome = "blocked",
                                        !.today = day, !.version = v])
        PROVE  run' \in [Runs -> Process] /\ Firings' /\ Booked' /\ Audited'
    <3> DEFINE p == [run[r] EXCEPT !.phase = "journal_check", !.outcome = "blocked",
                                   !.today = day, !.version = v]
    <3>1. day \in 0..MaxDay /\ day # 0 /\ v # None
      BY <1>0, RoutineAssumption
    <3>2. p \in Process /\ p.order_id = run[r].order_id
      BY <1>0, <3>1 DEF Process, Phases, Outcomes
    <3>3. Firing(p) /\ ~PastTheBlocks(p)
      BY <1>0, <2>1, <3>1 DEF Firing, PastTheBlocks, Process
    <3> HIDE DEF p, start
    <3> QED BY <2>1, <2>3, <3>2, <3>3, QuietStep DEF p
  <2>4. ASSUME ~TradingBlocked(run[r]), Become(r, [run[r] EXCEPT !.phase = "harness"])
        PROVE  run' \in [Runs -> Process] /\ Firings' /\ Booked' /\ Audited'
    <3> DEFINE p == [run[r] EXCEPT !.phase = "harness"]
    <3>1. p \in Process /\ p.order_id = run[r].order_id
      BY <1>0 DEF Process, Phases
    <3>2. Firing(p)
      BY <1>0, <2>1, <2>4 DEF Firing, PastTheBlocks, TradingBlocked, Process
    <3>3. StartOf(r)'
      <4>1. flag = "trading_allowed" BY <2>4 DEF TradingBlocked
      <4>2. /\ start \in audit' /\ start.run = r /\ start.action = "routine_started"
            /\ start.to_state = "trading_allowed"
        BY <2>1, <2>2, <4>1
      <4> HIDE DEF start
      <4> QED BY <4>2 DEF StartOf
    <3> HIDE DEF p, start
    <3> QED BY <2>1, <2>4, <3>1, <3>2, <3>3, QuietStep DEF p
  <2>5. run' \in [Runs -> Process] /\ Firings' /\ Booked' /\ Audited'
    BY <1>4, <2>3, <2>4 DEF WriteStartAudit
  <2> HIDE DEF start
  <2> QED BY <2>1, <2>2, <2>5 DEF Inv, TypeOK
<1> QED BY <1>1, <1>2, <1>3, <1>4 DEF Compose

LEMMA DecideInv ==
  ASSUME Inv, NEW r \in Runs, DecideStep(r) PROVE Inv'
<1>0. /\ run[r] \in Process /\ Firing(run[r]) /\ (PastTheBlocks(run[r]) => StartOf(r))
      /\ day \in 1..MaxDay
  BY MoverFacts DEF Inv, TypeOK
<1>1. CASE HarnessStops(r)
  <2>1. PICK outcome \in {"cost_cap", "harness_error"} :
          Become(r, [run[r] EXCEPT !.phase = "notify", !.outcome = outcome])
    BY <1>1 DEF HarnessStops
  <2> DEFINE p == [run[r] EXCEPT !.phase = "notify", !.outcome = outcome]
  <2>2. p \in Process /\ p.order_id = run[r].order_id
    BY <1>0 DEF Process, Phases, Outcomes
  <2>3. Firing(p) /\ ~PastTheBlocks(p)
    BY <1>0, <1>1 DEF HarnessStops, Firing, PastTheBlocks, Process
  <2>4. run' \in [Runs -> Process] /\ Firings' /\ Booked' /\ Audited'
    <3> HIDE DEF p
    <3> QED BY <1>1, <2>1, <2>2, <2>3, QuietStep DEF HarnessStops, p
  <2> QED BY <1>1, <2>4 DEF HarnessStops, Inv, TypeOK
<1>2. CASE Decline(r)
  <2>1. PICK d \in Decisions, v \in Versions :
          /\ Route(d, Context(run[r])) \in {"no_trade", "low_confidence", "invalid", "rejected"}
          /\ Become(r, [run[r] EXCEPT !.phase = "journal_check",
               !.outcome = Route(d, Context(run[r])), !.decision = d, !.version = v])
    BY <1>2 DEF Decline
  <2> DEFINE route == Route(d, Context(run[r]))
             p == [run[r] EXCEPT !.phase = "journal_check", !.outcome = route,
                                 !.decision = d, !.version = v]
  <2> HIDE DEF route
  <2>2. route \in {"no_trade", "low_confidence", "invalid", "rejected"} /\ v # None
    BY <2>1, RoutineAssumption DEF route
  <2>3. p \in Process /\ p.order_id = run[r].order_id
    BY <1>0, <2>2 DEF Process, Phases, Outcomes
  <2>4. Firing(p) /\ StartOf(r)'
    BY <1>0, <1>2, <2>2 DEF Decline, Firing, PastTheBlocks, TradingBlocked, StartOf, Process
  <2>5. run' \in [Runs -> Process] /\ Firings' /\ Booked' /\ Audited'
    <3> HIDE DEF p
    <3> QED BY <1>2, <2>1, <2>3, <2>4, QuietStep DEF Decline, p, route
  <2> QED BY <1>2, <2>5 DEF Decline, Inv, TypeOK
<1>3. CASE DecideRaises(r)
  BY <1>3, AbandonInv DEF DecideRaises, Raise
<1>4. CASE Authorise(r)
  <2>1. PICK d \in Decisions, v \in Versions :
          /\ Route(d, Context(run[r])) = "authorised"
          /\ Become(r, [run[r] EXCEPT
               !.phase   = IF run[r].dry_run THEN "journal_check" ELSE "submit",
               !.outcome = IF run[r].dry_run THEN "dry_run" ELSE "none",
               !.decision = d, !.version = v, !.order_id = OrderIdOf(r, v, d)])
    BY <1>4 DEF Authorise
  <2> DEFINE id == OrderIdOf(r, v, d)
             p == [run[r] EXCEPT
               !.phase   = IF run[r].dry_run THEN "journal_check" ELSE "submit",
               !.outcome = IF run[r].dry_run THEN "dry_run" ELSE "none",
               !.decision = d, !.version = v, !.order_id = id]
  <2>2. d \in Decision /\ d # None /\ v # None /\ id \in OrderId /\ id # None
    BY <1>0, <2>1, AuthorisedRoute, OrderIdType, RoutineAssumption
  <2>3. id.symbol = Upper[d.ticker] /\ id.intent = Intent(v, d)
    BY DEF OrderIdOf
  <2> HIDE DEF id
  <2>4. p \in Process /\ run[r].order_id = None
    BY <1>0, <1>4, <2>2 DEF Authorise, Firing, Process, Phases, Outcomes
  <2>5. Firing(p) /\ StartOf(r)'
    BY <1>0, <1>4, <2>2, <2>3
       DEF Authorise, Firing, PastTheBlocks, TradingBlocked, StartOf, Process
  <2>6. run' \in [Runs -> Process] /\ Firings' /\ Booked' /\ Audited'
    <3> HIDE DEF p
    <3> QED BY <1>4, <2>1, <2>4, <2>5, QuietStep DEF Authorise, p, id
  <2> QED BY <1>4, <2>6 DEF Authorise, Inv, TypeOK
<1> QED BY <1>1, <1>2, <1>3, <1>4 DEF DecideStep

(* A step of one firing at the broker: at most the id it has fixed is      *)
(* booked, and only if nobody has booked it.                               *)
LEMMA BookingStep ==
  ASSUME Inv, NEW r \in Runs, NEW p \in Process, Become(r, p), Firing(p),
         run[r].order_id # None, p.order_id = run[r].order_id,
         orders' \in {orders, Book(r)}, audit' = audit, StartOf(r)
  PROVE  /\ run' \in [Runs -> Process] /\ Firings' /\ Booked' /\ Audited'
         /\ orders' \subseteq [id: OrderId, run: Runs]
<1>1. /\ run' \in [Runs -> Process] /\ run'[r] = p
      /\ \A q \in Runs : q # r => run'[q] = run[q]
  BY OneFiringMoves DEF Inv, TypeOK
<1>2. Firings' BY <1>1 DEF Inv, Firings
<1>3. Audited' BY <1>1 DEF Inv, Audited, StartOf
<1>4. run[r].order_id \in OrderId BY DEF Inv, TypeOK, Process
<1> DEFINE new == [id |-> run[r].order_id, run |-> r]
<1>5. orders' = orders \/ (orders' = orders \cup {new} /\ \A o \in orders : o.id # new.id)
  BY DEF Book
<1>6. new \in [id: OrderId, run: Runs] /\ new.run = r /\ new.id = run[r].order_id
  BY <1>4
<1> HIDE DEF new
<1>7. orders' \subseteq [id: OrderId, run: Runs] BY <1>5, <1>6 DEF Inv, TypeOK
<1>8. Booked'
  <2>1. \A q \in Runs : run'[q].order_id = run[q].order_id BY <1>1
  <2>2. \A o \in orders' : run'[o.run].order_id # None /\ o.id = run'[o.run].order_id
    BY <1>5, <1>6, <1>7, <2>1 DEF Inv, Booked, TypeOK
  <2>3. \A o, q \in orders' : o.id = q.id => o = q
    BY <1>5 DEF Inv, Booked
  <2> QED BY <2>2, <2>3 DEF Booked
<1> QED BY <1>1, <1>2, <1>3, <1>7, <1>8

LEMMA SubmitInv ==
  ASSUME Inv, NEW r \in Runs, Submit(r) PROVE Inv'
<1>0. /\ run[r] \in Process /\ Firing(run[r]) /\ (PastTheBlocks(run[r]) => StartOf(r))
      /\ UNCHANGED <<day, signals, journal, audit, notices>>
      /\ run[r].phase = "submit" /\ orders' \in {orders, Book(r)}
  BY MoverFacts DEF Submit, SubmitAnswered, SubmitSilent, SubmitFails
<1>1. run[r].order_id # None /\ StartOf(r)
  BY <1>0 DEF Firing, PastTheBlocks
<1>2. PICK p \in Process : Become(r, p) /\ Firing(p) /\ p.order_id = run[r].order_id
  <2>1. CASE SubmitAnswered(r)
    <3> DEFINE p == [run[r] EXCEPT !.phase = "journal_check", !.outcome = "submitted"]
    <3>1. p \in Process /\ p.order_id = run[r].order_id
      BY <1>0 DEF Process, Phases, Outcomes
    <3>2. Firing(p)
      BY <1>0, <1>1 DEF Firing, PastTheBlocks, TradingBlocked, Process
    <3> QED BY <2>1, <3>1, <3>2 DEF SubmitAnswered
  <2>2. CASE SubmitSilent(r) /\ run[r].tries + 1 < MaxAttempts
    <3> DEFINE p == [run[r] EXCEPT !.tries = @ + 1]
    <3>1. run[r].tries + 1 \in 0..(MaxAttempts - 1)
      BY <1>0, <2>2, RoutineAssumption DEF Process
    <3>2. p \in Process /\ p.order_id = run[r].order_id
      BY <1>0, <3>1 DEF Process
    <3>3. Firing(p)
      BY <1>0, <1>1 DEF Firing, PastTheBlocks, TradingBlocked, Process
    <3> QED BY <2>2, <3>2, <3>3 DEF SubmitSilent
  <2>3. CASE Raise(r)
    <3> DEFINE p == [run[r] EXCEPT !.phase = "raised"]
    <3>1. p \in Process /\ p.order_id = run[r].order_id
      BY <1>0 DEF Process, Phases, Ended
    <3>2. Firing(p)
      BY <1>0, <1>1 DEF Firing, PastTheBlocks, TradingBlocked, Process
    <3> QED BY <2>3, <3>1, <3>2 DEF Raise
  <2> QED BY <2>1, <2>2, <2>3 DEF Submit, SubmitSilent, SubmitFails
<1>3. /\ run' \in [Runs -> Process] /\ Firings' /\ Booked' /\ Audited'
      /\ orders' \subseteq [id: OrderId, run: Runs]
  BY <1>0, <1>1, <1>2, BookingStep
<1> QED BY <1>0, <1>3 DEF Inv, TypeOK

LEMMA RecordInv ==
  ASSUME Inv, NEW r \in Runs, Record(r) PROVE Inv'
<1>0. /\ run[r] \in Process /\ Firing(run[r]) /\ (PastTheBlocks(run[r]) => StartOf(r))
      /\ day \in 1..MaxDay
  BY MoverFacts DEF Inv, TypeOK
<1>1. CASE JournalCheck(r)
  <2> DEFINE today == IF run[r].outcome = "blocked" THEN run[r].today ELSE day
             dup == \E row \in journal : row.day = today /\ row.intent = Fingerprint(r)
             p == [run[r] EXCEPT !.phase = "journal_append", !.today = today, !.dup = dup]
  <2>1. today \in 0..MaxDay /\ today # 0 /\ dup \in BOOLEAN
    BY <1>0, <1>1 DEF JournalCheck, Firing, Process
  <2>2. Become(r, p) /\ UNCHANGED <<day, signals, orders, journal, audit, notices>>
    BY <1>1 DEF JournalCheck
  <2> HIDE DEF today, dup
  <2>3. p \in Process /\ p.order_id = run[r].order_id
    BY <1>0, <2>1 DEF Process, Phases
  <2>4. Firing(p) /\ (PastTheBlocks(p) => StartOf(r)')
    BY <1>0, <1>1, <2>1, <2>2
       DEF JournalCheck, Firing, PastTheBlocks, TradingBlocked, StartOf, Process
  <2>5. run' \in [Runs -> Process] /\ Firings' /\ Booked' /\ Audited'
    <3> HIDE DEF p
    <3> QED BY <2>2, <2>3, <2>4, QuietStep
  <2> QED BY <2>2, <2>5 DEF Inv, TypeOK
<1>2. CASE JournalAppend(r)
  <2> DEFINE p == [run[r] EXCEPT
                     !.phase = IF run[r].outcome = "blocked" THEN "notify" ELSE "audit"]
             row == [run |-> r, day |-> run[r].today, intent |-> Fingerprint(r),
                     outcome |-> run[r].outcome]
  <2>1. /\ Become(r, p) /\ UNCHANGED <<day, signals, orders, audit, notices>>
        /\ journal' \subseteq journal \cup {row}
    BY <1>2 DEF JournalAppend
  <2>2. p \in Process /\ p.order_id = run[r].order_id
    BY <1>0 DEF Process, Phases
  <2>3. Firing(p) /\ (PastTheBlocks(p) => StartOf(r)')
    BY <1>0, <1>2, <2>1
       DEF JournalAppend, Firing, PastTheBlocks, TradingBlocked, StartOf, Process
  <2>4. run' \in [Runs -> Process] /\ Firings' /\ Booked' /\ Audited'
    <3> HIDE DEF p, row
    <3> QED BY <2>1, <2>2, <2>3, QuietStep
  <2>5. row \in JournalRow
    <3>1. /\ run[r].version \in Versions /\ run[r].today \in 1..MaxDay
          /\ run[r].decision \in Decisions \cup {None} /\ run[r].outcome \in Outcomes
      BY <1>0, <1>2, RoutineAssumption DEF JournalAppend, Firing, Process
    <3>2. Fingerprint(r) \in [version: Versions, decision: Decision \cup {None}]
      <4>1. CASE run[r].decision = None BY <3>1, <4>1 DEF Fingerprint, Intent
      <4>2. CASE run[r].decision \in Decision BY <3>1, <4>2, IntentType DEF Fingerprint
      <4> QED BY <3>1, <4>1, <4>2, RoutineAssumption
    <3> QED BY <3>1, <3>2 DEF JournalRow
  <2> HIDE DEF p, row
  <2> QED BY <2>1, <2>4, <2>5 DEF Inv, TypeOK
<1>3. CASE AuditDecision(r)
  <2> DEFINE p == [run[r] EXCEPT !.phase = "notify"]
             event == [run |-> r, day |-> run[r].today, action |-> "decision",
                       to_state |-> IF run[r].order_id # None THEN "submitted" ELSE "journaled"]
  <2>1. /\ Become(r, p) /\ UNCHANGED <<day, signals, orders, journal, notices>>
        /\ audit' = audit \cup {event}
    BY <1>3 DEF AuditDecision
  <2>2. p \in Process /\ p.order_id = run[r].order_id
    BY <1>0 DEF Process, Phases
  <2>3. Firing(p) /\ (PastTheBlocks(p) => StartOf(r)')
    BY <1>0, <1>3, <2>1
       DEF AuditDecision, Firing, PastTheBlocks, TradingBlocked, StartOf, Process
  <2>4. event \in AuditEvent
    BY <1>0, <1>3 DEF AuditDecision, AuditEvent, Firing, Process
  <2> HIDE DEF p, event
  <2>5. run' \in [Runs -> Process] /\ Firings' /\ Booked' /\ Audited'
    BY <2>1, <2>2, <2>3, QuietStep
  <2> QED BY <2>1, <2>4, <2>5 DEF Inv, TypeOK
<1>4. CASE WriteFails(r)
  BY <1>4, AbandonInv DEF WriteFails, Raise
<1>5. CASE Notify(r)
  <2> DEFINE p == [run[r] EXCEPT
                     !.phase = IF run[r].outcome = "harness_error" THEN "raised" ELSE "done"]
  <2>1. /\ Become(r, p) /\ UNCHANGED <<day, signals, orders, journal, audit>>
        /\ notices' \subseteq
             notices \cup {[run |-> r, via |-> "discord"], [run |-> r, via |-> "dead letter"]}
    BY <1>5 DEF Notify
  <2>2. p \in Process /\ p.order_id = run[r].order_id
    BY <1>0 DEF Process, Phases, Ended
  <2>3. Firing(p) /\ (PastTheBlocks(p) => StartOf(r)')
    BY <1>0, <1>5, <2>1
       DEF Notify, Firing, PastTheBlocks, TradingBlocked, StartOf, Process
  <2> HIDE DEF p
  <2>4. run' \in [Runs -> Process] /\ Firings' /\ Booked' /\ Audited'
    BY <2>1, <2>2, <2>3, QuietStep
  <2>5. {[run |-> r, via |-> "discord"], [run |-> r, via |-> "dead letter"]}
          \subseteq [run: Runs, via: {"discord", "dead letter"}]
    OBVIOUS
  <2> QED BY <2>1, <2>4, <2>5 DEF Inv, TypeOK
<1> QED BY <1>1, <1>2, <1>3, <1>4, <1>5 DEF Record

-----------------------------------------------------------------------------
(* The inductive invariant. *)
THEOREM Invariance == Spec => []Inv
<1>1. Inv /\ [Next]_vars => Inv'
  <2> SUFFICES ASSUME Inv, [Next]_vars PROVE Inv' OBVIOUS
  <2>1. ASSUME NEW r \in Runs, Step(r) PROVE Inv'
    BY <2>1, ComposeInv, DecideInv, SubmitInv, RecordInv DEF Step
  <2>2. ASSUME NEW r \in Runs, Crash(r) PROVE Inv'
    BY <2>2, AbandonInv DEF Crash
  <2>3. ASSUME NEW s \in KillSignals, Toggle(s) PROVE Inv'
    <3>1. signals' \subseteq KillSignals BY <2>3 DEF Toggle, Inv, TypeOK
    <3> QED BY <2>3, <3>1 DEF Toggle, Inv, TypeOK, Firings, Booked, Audited, StartOf
  <2>4. CASE NextDay
    <3>1. day' \in 1..MaxDay
      <4>1. MaxDay \in Nat BY RoutineAssumption
      <4>2. day \in 1..MaxDay BY DEF Inv, TypeOK
      <4> QED BY <2>4, <4>1, <4>2 DEF NextDay
    <3> QED BY <2>4, <3>1 DEF NextDay, Inv, TypeOK, Firings, Booked, Audited, StartOf
  <2>5. CASE UNCHANGED vars
    BY <2>5 DEF vars, Inv, TypeOK, Firings, Booked, Audited, StartOf
  <2> QED BY <2>1, <2>2, <2>3, <2>4, <2>5 DEF Next
<1> QED BY <1>1, InitInv, PTL DEF Spec

(* Every variable keeps its type. *)
THEOREM TypeCorrect == Spec => []TypeOK
<1>1. Inv => TypeOK BY DEF Inv
<1> QED BY <1>1, Invariance, PTL

(* ID-01, ID-02: however many firings overlap, retry, crash or straddle    *)
(* midnight, one decision of one day has one order at the broker.          *)
THEOREM OneOrder == Spec => []OneOrderPerIntent
<1>1. ASSUME Inv PROVE OneOrderPerIntent
  <2> SUFFICES ASSUME NEW o \in orders, NEW p \in orders, o.id.date = p.id.date,
                      Fingerprint(o.run) = Fingerprint(p.run)
               PROVE  o = p
    BY DEF OneOrderPerIntent
  <2>1. /\ o.run \in Runs /\ p.run \in Runs /\ o.id \in OrderId /\ p.id \in OrderId
        /\ o.id = run[o.run].order_id /\ p.id = run[p.run].order_id
        /\ run[o.run].order_id # None /\ run[p.run].order_id # None
    BY <1>1 DEF Inv, TypeOK, Booked
  <2>2. Firing(run[o.run]) /\ Firing(run[p.run])
    BY <1>1, <2>1 DEF Inv, Firings
  <2>3. /\ o.id.intent = Fingerprint(o.run) /\ p.id.intent = Fingerprint(p.run)
        /\ o.id.symbol = Upper[run[o.run].decision.ticker]
        /\ p.id.symbol = Upper[run[p.run].decision.ticker]
        /\ run[o.run].decision # None /\ run[p.run].decision # None
    BY <2>1, <2>2 DEF Firing, Fingerprint
  <2>4. run[o.run].decision.ticker = run[p.run].decision.ticker
    <3>1. run[o.run].decision \in Decision /\ run[p.run].decision \in Decision
      BY <1>1, <2>1, <2>3, RoutineAssumption DEF Inv, TypeOK, Process
    <3>2. Fingerprint(o.run).decision.ticker = run[o.run].decision.ticker
      BY <2>3, <3>1 DEF Fingerprint, Intent, Decision
    <3>3. Fingerprint(p.run).decision.ticker = run[p.run].decision.ticker
      BY <2>3, <3>1 DEF Fingerprint, Intent, Decision
    <3> QED BY <3>2, <3>3
  <2>5. o.id = p.id
    BY <2>1, <2>3, <2>4 DEF OrderId
  <2> QED BY <1>1, <2>5 DEF Inv, Booked
<1> QED BY <1>1, Invariance, PTL

(* KS-01, KS-02: whatever the operator does to the signals afterwards, a   *)
(* firing that began under one, or found its remote check or its account   *)
(* against it, never decides and never has an order.                       *)
THEOREM BlockedNeverTrades == Spec => []BlockedFiringNeverTrades
<1>1. ASSUME Inv PROVE BlockedFiringNeverTrades
  <2> SUFFICES ASSUME NEW r \in Runs,
                      \/ run[r].signals # {}
                      \/ run[r].reply \in {"kill", "not 200", "unreachable"}
                      \/ run[r].account # None /\ run[r].account.trading_blocked
               PROVE  run[r].decision = None /\ \A o \in orders : o.run # r
    BY DEF BlockedFiringNeverTrades
  <2>1. Firing(run[r]) BY <1>1 DEF Inv, Firings
  <2>2. ~PastTheBlocks(run[r]) BY <2>1 DEF Firing, TradingBlocked, KillReasons
  <2>3. run[r].decision = None /\ run[r].order_id = None BY <2>2 DEF PastTheBlocks
  <2> QED BY <1>1, <2>3 DEF Inv, Booked
<1> QED BY <1>1, Invariance, PTL

(* An order is at the broker only if its firing's start was audited as     *)
(* allowed before, wherever that firing crashed later.                     *)
THEOREM OrderIsAudited == Spec => []OrderFollowsItsAudit
<1>1. ASSUME Inv PROVE OrderFollowsItsAudit
  <2> SUFFICES ASSUME NEW o \in orders PROVE StartOf(o.run)
    BY DEF OrderFollowsItsAudit, StartOf
  <2>1. o.run \in Runs /\ run[o.run].order_id # None
    BY <1>1 DEF Inv, TypeOK, Booked
  <2> QED BY <1>1, <2>1 DEF Inv, Audited, PastTheBlocks
<1> QED BY <1>1, Invariance, PTL

-----------------------------------------------------------------------------
(* What a firing has decided stays decided, on the snapshot it was decided *)
(* on; hence every order at the broker is within the limits of the gate,   *)
(* whichever retry of whichever firing delivered it.                       *)

(* The decision of a firing and all that it was judged on. *)
SameGround(p, q) ==
  /\ q.decision = p.decision /\ q.order_id = p.order_id
  /\ q.account = p.account /\ q.signals = p.signals /\ q.reply = p.reply

Undecided(p) == p.decision = None /\ p.order_id = None

Judged(p) ==
  p.decision \in Decisions /\ Route(p.decision, Context(p)) = "authorised"

(* A step of firing r, seen from its local state: it touches nothing the   *)
(* decision rests on, or there is no decision yet, and an order id then    *)
(* appears only with an authorised decision.                               *)
Moves(r) ==
  /\ \A q \in Runs : q # r => run'[q] = run[q]
  /\ \/ SameGround(run[r], run'[r])
     \/ Undecided(run[r]) /\ (run'[r].order_id = None \/ Judged(run'[r]))

LEMMA StepMoves ==
  ASSUME Inv, NEW r \in Runs, Step(r) \/ Crash(r)
  PROVE  Moves(r)
<1>0. TypeOK /\ run[r] \in Process /\ Firing(run[r]) BY MoverFacts DEF Inv
<1>1. ASSUME NEW p, Become(r, p),
             \/ SameGround(run[r], p)
             \/ Undecided(run[r]) /\ (p.order_id = None \/ Judged(p))
      PROVE  Moves(r)
  <2>1. run'[r] = p /\ \A q \in Runs : q # r => run'[q] = run[q]
    BY <1>0, <1>1 DEF Become, TypeOK
  <2> QED BY <1>1, <2>1 DEF Moves
<1>2. ASSUME Raise(r) PROVE Moves(r)
  <2> DEFINE p == [run[r] EXCEPT !.phase = "raised"]
  <2>1. SameGround(run[r], p) BY <1>0 DEF Process, SameGround
  <2>2. Become(r, p) BY <1>2 DEF Raise
  <2> HIDE DEF p
  <2> QED BY <1>1, <2>1, <2>2
<1>3. CASE Begin(r)
  <2>1. Undecided(run[r]) BY <1>0, <1>3 DEF Begin, Firing, Undecided
  <2>2. PICK reply \in RemoteReplies, dry \in DryRunChoices :
          Become(r, [run[r] EXCEPT !.phase = "load", !.dry_run = dry,
                                   !.signals = signals, !.reply = reply])
    BY <1>3 DEF Begin
  <2> DEFINE p == [run[r] EXCEPT !.phase = "load", !.dry_run = dry,
                                 !.signals = signals, !.reply = reply]
  <2>3. p.order_id = None /\ Become(r, p) BY <1>0, <2>1, <2>2 DEF Process, Undecided
  <2> HIDE DEF p
  <2> QED BY <1>1, <2>1, <2>3
<1>4. CASE Load(r)
  <2>1. Undecided(run[r]) BY <1>0, <1>4 DEF Load, Firing, Undecided
  <2>2. PICK a \in Accounts :
          Become(r, [run[r] EXCEPT !.phase = "start_audit", !.account = a])
    BY <1>4 DEF Load
  <2> DEFINE p == [run[r] EXCEPT !.phase = "start_audit", !.account = a]
  <2>3. p.order_id = None /\ Become(r, p) BY <1>0, <2>1, <2>2 DEF Process, Undecided
  <2> HIDE DEF p
  <2> QED BY <1>1, <2>1, <2>3
<1>5. CASE LoadFails(r) BY <1>2, <1>5 DEF LoadFails
<1>6. CASE WriteStartAudit(r)
  <2>1. ASSUME NEW v \in Versions,
               Become(r, [run[r] EXCEPT !.phase = "journal_check", !.outcome = "blocked",
                                        !.today = day, !.version = v])
        PROVE  Moves(r)
    <3> DEFINE p == [run[r] EXCEPT !.phase = "journal_check", !.outcome = "blocked",
                                   !.today = day, !.version = v]
    <3>1. SameGround(run[r], p) /\ Become(r, p) BY <1>0, <2>1 DEF Process, SameGround
    <3> HIDE DEF p
    <3> QED BY <1>1, <3>1
  <2>2. ASSUME Become(r, [run[r] EXCEPT !.phase = "harness"]) PROVE Moves(r)
    <3> DEFINE p == [run[r] EXCEPT !.phase = "harness"]
    <3>1. SameGround(run[r], p) /\ Become(r, p) BY <1>0, <2>2 DEF Process, SameGround
    <3> HIDE DEF p
    <3> QED BY <1>1, <3>1
  <2> QED BY <1>6, <2>1, <2>2 DEF WriteStartAudit
<1>7. CASE HarnessStops(r)
  <2>1. ASSUME NEW outcome \in {"cost_cap", "harness_error"},
               Become(r, [run[r] EXCEPT !.phase = "notify", !.outcome = outcome])
        PROVE  Moves(r)
    <3> DEFINE p == [run[r] EXCEPT !.phase = "notify", !.outcome = outcome]
    <3>1. SameGround(run[r], p) /\ Become(r, p) BY <1>0, <2>1 DEF Process, SameGround
    <3> HIDE DEF p
    <3> QED BY <1>1, <3>1
  <2> QED BY <1>7, <2>1 DEF HarnessStops
<1>8. CASE Decline(r)
  <2>1. Undecided(run[r]) BY <1>0, <1>8 DEF Decline, Firing, Undecided
  <2>2. PICK d \in Decisions, v \in Versions :
          Become(r, [run[r] EXCEPT !.phase = "journal_check",
                                   !.outcome = Route(d, Context(run[r])),
                                   !.decision = d, !.version = v])
    BY <1>8 DEF Decline
  <2> DEFINE p == [run[r] EXCEPT !.phase = "journal_check",
                                 !.outcome = Route(d, Context(run[r])),
                                 !.decision = d, !.version = v]
  <2>3. p.order_id = None /\ Become(r, p) BY <1>0, <2>1, <2>2 DEF Process, Undecided
  <2> HIDE DEF p
  <2> QED BY <1>1, <2>1, <2>3
<1>9. CASE DecideRaises(r) BY <1>2, <1>9 DEF DecideRaises
<1>10. CASE Authorise(r)
  <2>1. Undecided(run[r]) BY <1>0, <1>10 DEF Authorise, Firing, Undecided
  <2>2. PICK d \in Decisions, v \in Versions :
          /\ Route(d, Context(run[r])) = "authorised"
          /\ Become(r, [run[r] EXCEPT
               !.phase   = IF run[r].dry_run THEN "journal_check" ELSE "submit",
               !.outcome = IF run[r].dry_run THEN "dry_run" ELSE "none",
               !.decision = d, !.version = v, !.order_id = OrderIdOf(r, v, d)])
    BY <1>10 DEF Authorise
  <2> DEFINE p == [run[r] EXCEPT
               !.phase   = IF run[r].dry_run THEN "journal_check" ELSE "submit",
               !.outcome = IF run[r].dry_run THEN "dry_run" ELSE "none",
               !.decision = d, !.version = v, !.order_id = OrderIdOf(r, v, d)]
  <2>3. /\ p.decision = d /\ p.account = run[r].account
        /\ p.signals = run[r].signals /\ p.reply = run[r].reply
    BY <1>0 DEF Process
  <2>4. Become(r, p) BY <2>2
  <2> HIDE DEF p
  <2>5. Context(p) = Context(run[r]) BY <2>3 DEF Context, TradingBlocked
  <2>6. Judged(p) BY <2>2, <2>3, <2>5 DEF Judged
  <2> QED BY <1>1, <2>1, <2>4, <2>6
<1>11. CASE SubmitAnswered(r)
  <2> DEFINE p == [run[r] EXCEPT !.phase = "journal_check", !.outcome = "submitted"]
  <2>1. SameGround(run[r], p) BY <1>0 DEF Process, SameGround
  <2>2. Become(r, p) BY <1>11 DEF SubmitAnswered
  <2> HIDE DEF p
  <2> QED BY <1>1, <2>1, <2>2
<1>12. CASE SubmitSilent(r)
  <2>1. ASSUME Become(r, [run[r] EXCEPT !.tries = @ + 1]) PROVE Moves(r)
    <3> DEFINE p == [run[r] EXCEPT !.tries = @ + 1]
    <3>1. SameGround(run[r], p) /\ Become(r, p) BY <1>0, <2>1 DEF Process, SameGround
    <3> HIDE DEF p
    <3> QED BY <1>1, <3>1
  <2> QED BY <1>2, <1>12, <2>1 DEF SubmitSilent
<1>13. CASE SubmitFails(r) BY <1>2, <1>13 DEF SubmitFails
<1>14. CASE JournalCheck(r)
  <2>1. PICK today, dup :
          Become(r, [run[r] EXCEPT !.phase = "journal_append", !.today = today, !.dup = dup])
    BY <1>14 DEF JournalCheck
  <2> DEFINE p == [run[r] EXCEPT !.phase = "journal_append", !.today = today, !.dup = dup]
  <2>2. SameGround(run[r], p) /\ Become(r, p) BY <1>0, <2>1 DEF Process, SameGround
  <2> HIDE DEF p
  <2> QED BY <1>1, <2>2
<1>15. CASE JournalAppend(r)
  <2> DEFINE p == [run[r] EXCEPT
                     !.phase = IF run[r].outcome = "blocked" THEN "notify" ELSE "audit"]
  <2>1. SameGround(run[r], p) BY <1>0 DEF Process, SameGround
  <2>2. Become(r, p) BY <1>15 DEF JournalAppend
  <2> HIDE DEF p
  <2> QED BY <1>1, <2>1, <2>2
<1>16. CASE AuditDecision(r)
  <2> DEFINE p == [run[r] EXCEPT !.phase = "notify"]
  <2>1. SameGround(run[r], p) BY <1>0 DEF Process, SameGround
  <2>2. Become(r, p) BY <1>16 DEF AuditDecision
  <2> HIDE DEF p
  <2> QED BY <1>1, <2>1, <2>2
<1>17. CASE WriteFails(r) BY <1>2, <1>17 DEF WriteFails
<1>18. CASE Notify(r)
  <2> DEFINE p == [run[r] EXCEPT
                     !.phase = IF run[r].outcome = "harness_error" THEN "raised" ELSE "done"]
  <2>1. SameGround(run[r], p) BY <1>0 DEF Process, SameGround
  <2>2. Become(r, p) BY <1>18 DEF Notify
  <2> HIDE DEF p
  <2> QED BY <1>1, <2>1, <2>2
<1>19. CASE Crash(r)
  <2> DEFINE p == [run[r] EXCEPT !.phase = "crashed"]
  <2>1. SameGround(run[r], p) BY <1>0 DEF Process, SameGround
  <2>2. Become(r, p) BY <1>19 DEF Crash
  <2> HIDE DEF p
  <2> QED BY <1>1, <2>1, <2>2
<1> QED BY <1>3, <1>4, <1>5, <1>6, <1>7, <1>8, <1>9, <1>10, <1>11, <1>12, <1>13,
           <1>14, <1>15, <1>16, <1>17, <1>18, <1>19
        DEF Step, Compose, DecideStep, Submit, Record

(* No step withdraws an order or a row. *)
LEMMA NothingWithdrawn ==
  ASSUME [Next]_vars PROVE orders \subseteq orders' /\ journal \subseteq journal'
BY DEF Next, vars, Step, Compose, DecideStep, Submit, Record, Crash, Toggle, NextDay,
       Begin, Load, LoadFails, WriteStartAudit, HarnessStops, Decline, DecideRaises, Authorise,
       SubmitAnswered, SubmitSilent, SubmitFails, JournalCheck, JournalAppend, AuditDecision,
       WriteFails, Notify, Book

-----------------------------------------------------------------------------
(* However firings overlap, retry, crash or straddle midnight, a decision  *)
(* and its order id are never remade, and no order or row disappears.      *)
THEOREM DecisionsStay == Spec => DecisionsAreFinal
<1>1. Inv /\ [Next]_vars =>
        [/\ \A r \in Runs : run[r].decision # None =>
              run'[r].decision = run[r].decision /\ run'[r].order_id = run[r].order_id
         /\ orders \subseteq orders' /\ journal \subseteq journal']_vars
  <2> SUFFICES ASSUME Inv, [Next]_vars, NEW r \in Runs, run[r].decision # None
               PROVE  run'[r].decision = run[r].decision /\ run'[r].order_id = run[r].order_id
    BY NothingWithdrawn
  <2>1. ASSUME NEW q \in Runs, Step(q) \/ Crash(q)
        PROVE  run'[r].decision = run[r].decision /\ run'[r].order_id = run[r].order_id
    <3>1. Moves(q) BY <2>1, StepMoves
    <3> QED BY <3>1 DEF Moves, SameGround, Undecided
  <2>2. CASE UNCHANGED run BY <2>2
  <2> QED BY <2>1, <2>2 DEF Next, Toggle, NextDay, vars
<1> QED BY <1>1, Invariance, PTL DEF Spec, DecisionsAreFinal

-----------------------------------------------------------------------------
(* An order id stands for a decision its own snapshot authorised. *)
AllJudged == \A r \in Runs : run[r].order_id # None => Judged(run[r])

LEMMA AllJudgedInvariant == Spec => []AllJudged
<1>0. Fresh.order_id = None BY DEF Fresh
<1>1. Init => AllJudged BY <1>0 DEF Init, AllJudged
<1>2. Inv /\ AllJudged /\ [Next]_vars => AllJudged'
  <2> SUFFICES ASSUME Inv, AllJudged, [Next]_vars, NEW r \in Runs, run'[r].order_id # None
               PROVE  Judged(run'[r])
    BY DEF AllJudged
  <2>1. ASSUME SameGround(run[r], run'[r]) PROVE Judged(run'[r])
    <3>1. Context(run'[r]) = Context(run[r]) BY <2>1 DEF SameGround, Context, TradingBlocked
    <3> QED BY <2>1, <3>1 DEF SameGround, AllJudged, Judged
  <2>2. ASSUME NEW q \in Runs, Step(q) \/ Crash(q) PROVE Judged(run'[r])
    <3>1. Moves(q) BY <2>2, StepMoves
    <3>2. CASE q = r BY <2>1, <3>1, <3>2 DEF Moves
    <3>3. CASE q # r BY <2>1, <3>1, <3>3 DEF Moves, SameGround
    <3> QED BY <3>2, <3>3
  <2>3. CASE UNCHANGED run BY <2>1, <2>3 DEF SameGround
  <2> QED BY <2>2, <2>3 DEF Next, Toggle, NextDay, vars
<1> QED BY <1>1, <1>2, Invariance, PTL DEF Spec

(* What the gate has checked of an order it passed. *)
LEMMA PassedOrder ==
  ASSUME NEW o, NEW c, Passes(o, c)
  PROVE  /\ UniverseObjections(o, c) = {} /\ SizingObjections(o, c) = {}
         /\ OrderTypeObjections(o, c) = {} /\ BuyingPowerObjections(o, c) = {}
BY DEF Passes, Objections

(* For every decision the model may return, every account and every cap, a *)
(* live order is confident, tradable, limit-priced or excepted, and, if a  *)
(* buy, within the caps and the buying power of its firing's snapshot.     *)
THEOREM LimitsHold == Spec => []OrdersWithinLimits
<1>1. ASSUME Inv, AllJudged PROVE OrdersWithinLimits
  <2> SUFFICES ASSUME NEW o \in orders
      PROVE LET p == run[o.run]  d == p.decision  n == Notional(d)
            IN  /\ d # None /\ d.action # "NO_TRADE" /\ d.confidence >= ConfidenceThreshold
                /\ o.id.symbol = Upper[d.ticker] /\ o.id.symbol \in AllowedSymbols
                /\ d.order_type = "market" => d.market_order_exception
                /\ d.action = "BUY" =>
                     /\ n <= Quantize(CoreNav * CoreMaxSingleNamePct)
                     /\ PhaseCoreDeployCap # None => n <= PhaseCoreDeployCap
                     /\ n + BuyingPowerBuffer <= p.account.buying_power
    BY DEF OrdersWithinLimits
  <2> DEFINE p == run[o.run]
             d == p.decision
             n == Notional(d)
             req == OrderFrom(d)
             ctx == Context(p)
  <2>1. o.run \in Runs /\ p.order_id # None /\ o.id = p.order_id
    BY <1>1 DEF Inv, TypeOK, Booked
  <2>2. Judged(p) /\ Firing(p) /\ p \in Process
    BY <1>1, <2>1 DEF AllJudged, Inv, Firings, TypeOK
  <2>3. d \in Decision /\ p.account \in Account
    <3>1. p.account # None BY <2>1, <2>2 DEF Firing, PastTheBlocks
    <3> QED BY <2>2, <3>1, RoutineAssumption DEF Judged, Process
  <2> HIDE DEF p
  <2>4. /\ d.action # "NO_TRADE" /\ ~(d.confidence < ConfidenceThreshold)
        /\ Complete(d) /\ Passes(req, ctx)
    BY <2>2, AuthorisedRoute DEF Judged
  <2>5. o.id.symbol = Upper[d.ticker] BY <2>1, <2>2 DEF Firing
  <2>6. d # None /\ d.confidence >= ConfidenceThreshold
    BY <2>3, <2>4, RoutineAssumption DEF Decision
  <2>7. n \in Int /\ (d.action \in {"BUY", "SELL"})
    BY <2>3, <2>4 DEF Notional, Decision
  <2>8. /\ UniverseObjections(req, ctx) = {} /\ SizingObjections(req, ctx) = {}
        /\ OrderTypeObjections(req, ctx) = {} /\ BuyingPowerObjections(req, ctx) = {}
    BY <2>4, PassedOrder
  <2>9. /\ req.sleeve = "core" /\ req.symbol = Upper[d.ticker] /\ req.notional = n
        /\ req.order_type = d.order_type /\ (d.action = "BUY" => req.side = "buy")
        /\ req.market_order_exception = d.market_order_exception
    BY DEF OrderFrom
  <2>10. /\ ctx.core_nav = CoreNav /\ ctx.core_allowed_symbols = AllowedSymbols
         /\ ctx.max_core_deploy = PhaseCoreDeployCap
         /\ ctx.buying_power = p.account.buying_power
    BY DEF Context
  <2> HIDE DEF req, ctx, n
  <2>11. Upper[d.ticker] \in AllowedSymbols
    BY <2>8, <2>9, <2>10 DEF UniverseObjections, When
  <2>12. d.order_type = "market" => d.market_order_exception
    BY <2>8, <2>9 DEF OrderTypeObjections, When
  <2>13. d.action = "BUY" =>
           /\ n <= Quantize(CoreNav * CoreMaxSingleNamePct)
           /\ PhaseCoreDeployCap # None => n <= PhaseCoreDeployCap
    <3>1. Quantize(CoreNav * CoreMaxSingleNamePct) \in Int
      <4>1. \A m \in Int : Quantize(m) \in Int BY DEF Quantize
      <4>2. CoreNav \in Int /\ CoreMaxSingleNamePct \in Int
        BY RoutineAssumption, LimitsAssumption
      <4>3. CoreNav * CoreMaxSingleNamePct \in Int BY <4>2
      <4> QED BY <4>1, <4>3
    <3>2. SleeveNav(req, ctx) = CoreNav /\ CapPct(req) = CoreMaxSingleNamePct
      BY <2>9, <2>10 DEF SleeveNav, CapPct
    <3>3. d.action = "BUY" => ~(n > Quantize(CoreNav * CoreMaxSingleNamePct))
      BY <2>8, <2>9, <3>2 DEF SizingObjections, When
    <3>4. d.action = "BUY" /\ PhaseCoreDeployCap # None => ~(n > PhaseCoreDeployCap)
      BY <2>8, <2>9, <2>10 DEF SizingObjections, When
    <3>5. PhaseCoreDeployCap # None => PhaseCoreDeployCap \in Int
      BY RoutineAssumption
    <3> QED BY <2>7, <3>1, <3>3, <3>4, <3>5
  <2>14. d.action = "BUY" => n + BuyingPowerBuffer <= p.account.buying_power
    <3>1. p.account.buying_power \in Int BY <2>3 DEF Account
    <3>2. p.account.buying_power # None BY <3>1, NoneAssumption
    <3>3. d.action = "BUY" => ~(n > p.account.buying_power - BuyingPowerBuffer)
      BY <2>8, <2>9, <2>10, <3>2 DEF BuyingPowerObjections, When
    <3>4. BuyingPowerBuffer \in Int BY LimitsAssumption
    <3> QED BY <2>7, <3>1, <3>3, <3>4
  <2> QED BY <2>4, <2>5, <2>6, <2>11, <2>12, <2>13, <2>14 DEF p, n
<1> QED BY <1>1, Invariance, AllJudgedInvariant, PTL

-----------------------------------------------------------------------------
(* How many steps a firing has left at most: one per place it still has to *)
(* pass, and one per POST it may still repeat.                             *)
Ahead(phase) ==
  CASE phase = "idle"           -> 9
    [] phase = "load"           -> 8
    [] phase = "start_audit"    -> 7
    [] phase = "harness"        -> 6
    [] phase = "submit"         -> 5
    [] phase = "journal_check"  -> 4
    [] phase = "journal_append" -> 3
    [] phase = "audit"          -> 2
    [] phase = "notify"         -> 1
    [] OTHER                    -> 0

Later(phase, next) == Ahead(next) < Ahead(phase)

StepsLeft(p) == Ahead(p.phase) + (MaxAttempts - 1 - p.tries)

LEMMA LaterPlaces ==
  /\ Later("idle", "load") /\ Later("load", "start_audit")
  /\ Later("start_audit", "harness") /\ Later("start_audit", "journal_check")
  /\ Later("harness", "submit") /\ Later("harness", "journal_check")
  /\ Later("harness", "notify") /\ Later("submit", "journal_check")
  /\ Later("journal_check", "journal_append") /\ Later("journal_append", "audit")
  /\ Later("journal_append", "notify") /\ Later("audit", "notify")
  /\ \A p \in Phases \ Ended, q \in Ended : Later(p, q)
<1>1. \A p \in Phases \ Ended : Ahead(p) \in 1..9 BY DEF Ahead, Phases, Ended
<1>2. \A q \in Ended : Ahead(q) = 0 BY DEF Ahead, Ended
<1>3. /\ Ahead("idle") = 9 /\ Ahead("load") = 8 /\ Ahead("start_audit") = 7
      /\ Ahead("harness") = 6 /\ Ahead("submit") = 5 /\ Ahead("journal_check") = 4
      /\ Ahead("journal_append") = 3 /\ Ahead("audit") = 2 /\ Ahead("notify") = 1
  BY DEF Ahead
<1> QED BY <1>1, <1>2, <1>3 DEF Later

LEMMA StepsLeftType ==
  ASSUME NEW p \in Process PROVE StepsLeft(p) \in 0..(MaxAttempts + 8)
<1>1. p.tries \in 0..(MaxAttempts - 1) /\ MaxAttempts \in Nat
  BY RoutineAssumption DEF Process
<1>2. Ahead(p.phase) \in 0..9 BY DEF Ahead
<1> QED BY <1>1, <1>2 DEF StepsLeft

(* A firing that moves to a later place, or repeats a POST, has fewer left. *)
LEMMA Onwards ==
  ASSUME NEW p \in Process, NEW q \in Process,
         \/ q.tries = p.tries /\ Later(p.phase, q.phase)
         \/ q.tries = p.tries + 1 /\ q.phase = p.phase
  PROVE  StepsLeft(q) < StepsLeft(p)
<1>1. /\ p.tries \in Nat /\ q.tries \in Nat /\ MaxAttempts \in Nat
      /\ Ahead(p.phase) \in Nat /\ Ahead(q.phase) \in Nat
  BY RoutineAssumption DEF Process, Ahead
<1> QED BY <1>1 DEF StepsLeft, Later

LEMMA StepsCountDown ==
  ASSUME TypeOK, TypeOK', NEW r \in Runs, Step(r) \/ Crash(r)
  PROVE  /\ StepsLeft(run'[r]) < StepsLeft(run[r])
         /\ \A q \in Runs : q # r => run'[q] = run[q]
<1>1. run[r] \in Process /\ run'[r] \in Process BY DEF TypeOK
<1>2. ASSUME NEW p, Become(r, p), p.tries = run[r].tries, Later(run[r].phase, p.phase)
      PROVE  /\ StepsLeft(run'[r]) < StepsLeft(run[r])
             /\ \A q \in Runs : q # r => run'[q] = run[q]
  <2>1. run'[r] = p /\ \A q \in Runs : q # r => run'[q] = run[q] BY <1>2 DEF Become, TypeOK
  <2> QED BY <1>1, <1>2, <2>1, Onwards
<1> USE <1>1, <1>2, LaterPlaces DEF Process, Phases, Ended
<1>3. CASE Begin(r) BY <1>3 DEF Begin
<1>4. CASE Load(r) BY <1>4 DEF Load
<1>5. CASE LoadFails(r) BY <1>5 DEF LoadFails, Raise
<1>6. CASE WriteStartAudit(r) BY <1>6 DEF WriteStartAudit
<1>7. CASE HarnessStops(r) BY <1>7 DEF HarnessStops
<1>8. CASE Decline(r) BY <1>8 DEF Decline
<1>9. CASE DecideRaises(r) BY <1>9 DEF DecideRaises, Raise
<1>10. CASE Authorise(r) BY <1>10 DEF Authorise
<1>11. CASE SubmitAnswered(r) BY <1>11 DEF SubmitAnswered
<1>12. CASE SubmitSilent(r)
  <2>1. CASE Raise(r) BY <1>12, <2>1 DEF SubmitSilent, Raise
  <2>2. CASE Become(r, [run[r] EXCEPT !.tries = @ + 1])
    <3> DEFINE p == [run[r] EXCEPT !.tries = @ + 1]
    <3>1. p.tries = run[r].tries + 1 /\ p.phase = run[r].phase OBVIOUS
    <3>2. run'[r] = p /\ \A q \in Runs : q # r => run'[q] = run[q]
      BY <2>2 DEF Become, TypeOK
    <3> QED BY <3>1, <3>2, Onwards
  <2> QED BY <1>12, <2>1, <2>2 DEF SubmitSilent
<1>13. CASE SubmitFails(r) BY <1>13 DEF SubmitFails, Raise
<1>14. CASE JournalCheck(r) BY <1>14 DEF JournalCheck
<1>15. CASE JournalAppend(r) BY <1>15 DEF JournalAppend
<1>16. CASE AuditDecision(r) BY <1>16 DEF AuditDecision
<1>17. CASE WriteFails(r) BY <1>17 DEF WriteFails, Raise
<1>18. CASE Notify(r) BY <1>18 DEF Notify
<1>19. CASE Crash(r) BY <1>19 DEF Crash, Active
<1> QED BY <1>3, <1>4, <1>5, <1>6, <1>7, <1>8, <1>9, <1>10, <1>11, <1>12, <1>13, <1>14, <1>15,
           <1>16, <1>17, <1>18, <1>19
        DEF Step, Compose, DecideStep, Submit, Record

(* No retry, fault or order of steps keeps a firing going: each of its     *)
(* steps uses up one of at most MaxAttempts + 8, and no other step gives   *)
(* one back.  (That a firing under way does take its next step is fairness *)
(* and left to TLC.)                                                       *)
THEOREM FiringsRunDown ==
  Spec => /\ [](\A r \in Runs : StepsLeft(run[r]) \in 0..(MaxAttempts + 8))
          /\ [][\A r \in Runs : \/ run'[r] = run[r] /\ ~Step(r)
                                \/ StepsLeft(run'[r]) < StepsLeft(run[r])]_vars
<1>1. TypeOK => \A r \in Runs : StepsLeft(run[r]) \in 0..(MaxAttempts + 8)
  BY StepsLeftType DEF TypeOK
<1>2. TypeOK /\ TypeOK' /\ [Next]_vars =>
        [\A r \in Runs : \/ run'[r] = run[r] /\ ~Step(r)
                         \/ StepsLeft(run'[r]) < StepsLeft(run[r])]_vars
  <2> SUFFICES ASSUME TypeOK, TypeOK', Next, NEW r \in Runs,
                      ~(StepsLeft(run'[r]) < StepsLeft(run[r]))
               PROVE  run'[r] = run[r] /\ ~Step(r)
    OBVIOUS
  <2>1. ~(Step(r) \/ Crash(r)) BY StepsCountDown
  <2>2. run'[r] = run[r]
    <3>1. ASSUME NEW q \in Runs, Step(q) \/ Crash(q) PROVE run'[r] = run[r]
      BY <2>1, <3>1, StepsCountDown
    <3> QED BY <3>1 DEF Next, Toggle, NextDay
  <2> QED BY <2>1, <2>2
<1> QED BY <1>1, <1>2, TypeCorrect, PTL DEF Spec
=============================================================================
