---------------------- MODULE MarketOpenContract_proofs ----------------------
(***************************************************************************)
(* What a firing of the market-open routine can be held to, for any number *)
(* of firings under way at once and whatever faults occur.  The routine    *)
(* implements RoutineContract: every step of a firing is a step of its     *)
(* contract or leaves the contract's state alone.  And what a firing that  *)
(* returned has left in the journal, the audit log and the notices.        *)
(***************************************************************************)
EXTENDS MarketOpen_proofs, FiniteSetTheorems

(* Only a firing that was started live reaches the broker. *)
LiveSubmits == \A r \in Runs : run[r].phase = "submit" => ~run[r].dry_run

LEMMA LiveSubmitsInvariant == Spec => []LiveSubmits
<1>0. Fresh.phase = "idle" BY DEF Fresh
<1>1. Init => LiveSubmits BY <1>0 DEF Init, LiveSubmits
<1>2. TypeOK /\ LiveSubmits /\ [Next]_vars => LiveSubmits'
  <2> SUFFICES ASSUME TypeOK, LiveSubmits, [Next]_vars PROVE LiveSubmits' OBVIOUS
  <2>0. ASSUME NEW r \in Runs, NEW p, Become(r, p), p.phase = "submit" => ~p.dry_run
        PROVE  LiveSubmits'
    <3>1. run'[r] = p /\ \A q \in Runs : q # r => run'[q] = run[q]
      BY <2>0 DEF Become, TypeOK
    <3> QED BY <2>0, <3>1 DEF LiveSubmits
  <2>1. ASSUME NEW r \in Runs, Step(r) \/ Crash(r) PROVE LiveSubmits'
    <3>1. run[r] \in Process BY DEF TypeOK
    <3> USE <3>1, <2>0 DEF Process
    <3>2. CASE Begin(r) BY <3>2 DEF Begin
    <3>3. CASE Load(r) BY <3>3 DEF Load
    <3>4. CASE LoadFails(r) BY <3>4 DEF LoadFails, Raise
    <3>5. CASE WriteStartAudit(r) BY <3>5 DEF WriteStartAudit
    <3>6. CASE HarnessStops(r) BY <3>6 DEF HarnessStops
    <3>7. CASE Decline(r) BY <3>7 DEF Decline
    <3>8. CASE DecideRaises(r) BY <3>8 DEF DecideRaises, Raise
    <3>9. CASE Authorise(r) BY <3>9 DEF Authorise
    <3>10. CASE SubmitAnswered(r) BY <3>10 DEF SubmitAnswered
    <3>11. CASE SubmitSilent(r) BY <3>11 DEF SubmitSilent, Raise, LiveSubmits
    <3>12. CASE SubmitFails(r) BY <3>12 DEF SubmitFails, Raise
    <3>13. CASE JournalCheck(r) BY <3>13 DEF JournalCheck
    <3>14. CASE JournalAppend(r) BY <3>14 DEF JournalAppend
    <3>15. CASE AuditDecision(r) BY <3>15 DEF AuditDecision
    <3>16. CASE WriteFails(r) BY <3>16 DEF WriteFails, Raise
    <3>17. CASE Notify(r) BY <3>17 DEF Notify
    <3>18. CASE Crash(r) BY <3>18 DEF Crash
    <3> QED BY <2>1, <3>2, <3>3, <3>4, <3>5, <3>6, <3>7, <3>8, <3>9, <3>10, <3>11, <3>12,
               <3>13, <3>14, <3>15, <3>16, <3>17, <3>18
            DEF Step, Compose, DecideStep, Submit, Record
  <2>2. CASE UNCHANGED run BY <2>2 DEF LiveSubmits
  <2> QED BY <2>1, <2>2 DEF Next, Toggle, NextDay, vars
<1> QED BY <1>1, <1>2, TypeCorrect, PTL DEF Spec

-----------------------------------------------------------------------------
(* The contract's view of one firing and of them all. *)
KeyOf(p) == IF p.dry_run THEN None ELSE p.order_id
stage == [r \in Runs |-> Stage(run[r])]
key   == [r \in Runs |-> KeyOf(run[r])]

(* A step of one firing moves that firing's stage and key only. *)
LEMMA ViewOfAStep ==
  ASSUME TypeOK, NEW r \in Runs, NEW p, Become(r, p)
  PROVE  /\ stage[r] = Stage(run[r]) /\ key[r] = KeyOf(run[r])
         /\ stage' = [stage EXCEPT ![r] = Stage(p)]
         /\ key' = [key EXCEPT ![r] = KeyOf(p)]
         /\ KeyOf(p) = KeyOf(run[r]) => key' = key
<1>1. /\ run'[r] = p /\ \A q \in Runs : q # r => run'[q] = run[q]
  BY DEF Become, TypeOK
<1>2. stage[r] = Stage(run[r]) BY DEF stage
<1>3. key[r] = KeyOf(run[r]) BY DEF key
<1>4. stage' = [stage EXCEPT ![r] = Stage(p)] BY <1>1 DEF stage
<1>5. key' = [key EXCEPT ![r] = KeyOf(p)] BY <1>1 DEF key
<1>6. ASSUME KeyOf(p) = KeyOf(run[r]) PROVE key' = key
  <2>1. \A q \in Runs : KeyOf(run'[q]) = KeyOf(run[q]) BY <1>1, <1>6
  <2> QED BY <2>1 DEF key
<1> QED BY <1>2, <1>3, <1>4, <1>5, <1>6

(* A step within one stage that books nothing and keeps the key. *)
LEMMA Unseen ==
  ASSUME TypeOK, NEW r \in Runs, NEW p, Become(r, p), orders' = orders,
         Stage(p) = Stage(run[r]), KeyOf(p) = KeyOf(run[r])
  PROVE  UNCHANGED Contract!vars
<1>1. key' = key BY ViewOfAStep
<1>2. stage' = [stage EXCEPT ![r] = stage[r]] BY ViewOfAStep
<1>3. stage' = stage BY <1>2 DEF stage
<1> QED BY <1>1, <1>3 DEF Contract!vars, stage, key, KeyOf

(* A firing that begins opens. *)
LEMMA Opens ==
  ASSUME TypeOK, NEW r \in Runs, NEW p, Become(r, p), orders' = orders,
         Stage(run[r]) = "idle", Stage(p) = "open", KeyOf(p) = KeyOf(run[r])
  PROVE  Contract!Next
<1>1. stage[r] = "idle" /\ stage' = [stage EXCEPT ![r] = "open"] /\ key' = key
  BY ViewOfAStep
<1>2. Contract!Open(r)
  BY <1>1 DEF Contract!Open, Contract!Move, stage, key, KeyOf
<1> QED BY <1>2 DEF Contract!Next

(* A firing that turns from open to declined. *)
LEMMA Declines ==
  ASSUME TypeOK, NEW r \in Runs, NEW p, Become(r, p), orders' = orders,
         Stage(run[r]) = "open", Stage(p) = "declined", KeyOf(p) = KeyOf(run[r])
  PROVE  Contract!Next
<1>1. stage[r] = "open" /\ stage' = [stage EXCEPT ![r] = "declined"] /\ key' = key
  BY ViewOfAStep
<1>2. Contract!Decline(r)
  BY <1>1 DEF Contract!Decline, Contract!Move, stage, key, KeyOf
<1> QED BY <1>2 DEF Contract!Next

(* A firing that ends, in whatever way, closes. *)
LEMMA Closes ==
  ASSUME TypeOK, NEW r \in Runs, NEW p, Become(r, p), orders' = orders,
         Active(r), p.phase \in Ended, KeyOf(p) = KeyOf(run[r])
  PROVE  Contract!Next
<1>1. Stage(p) = "closed" BY DEF Stage, Ended
<1>2. Stage(run[r]) \in {"open", "declined", "committed", "settled"}
  BY DEF Stage, Active, Ended
<1>3. /\ stage[r] \in {"open", "declined", "committed", "settled"}
      /\ stage' = [stage EXCEPT ![r] = "closed"] /\ key' = key
  BY <1>1, <1>2, ViewOfAStep
<1>4. Contract!Close(r)
  BY <1>3 DEF Contract!Close, Contract!Move, stage, key, KeyOf
<1> QED BY <1>4 DEF Contract!Next

-----------------------------------------------------------------------------
(* Before the broker: a firing opens, stays open, declines or commits.     *)
LEMMA ComposeMaps ==
  ASSUME Inv, NEW r \in Runs, Compose(r)
  PROVE  Contract!Next \/ UNCHANGED Contract!vars
<1>0. TypeOK /\ run[r] \in Process /\ Firing(run[r]) BY MoverFacts DEF Inv
<1>1. CASE Begin(r)
  <2>1. PICK reply \in RemoteReplies, dry \in DryRunChoices :
          Become(r, [run[r] EXCEPT !.phase = "load", !.dry_run = dry,
                                   !.signals = signals, !.reply = reply])
    BY <1>1 DEF Begin
  <2> DEFINE p == [run[r] EXCEPT !.phase = "load", !.dry_run = dry,
                                 !.signals = signals, !.reply = reply]
  <2>2. p.phase = "load" /\ p.order_id = run[r].order_id /\ Become(r, p)
    BY <1>0, <2>1 DEF Process
  <2>3. run[r].phase = "idle" /\ run[r].order_id = None /\ orders' = orders
    BY <1>0, <1>1 DEF Begin, Firing
  <2> HIDE DEF p
  <2>4. Stage(p) = "open" /\ Stage(run[r]) = "idle" /\ KeyOf(p) = KeyOf(run[r])
    BY <2>2, <2>3 DEF Stage, Ended, KeyOf
  <2> QED BY <1>0, <2>2, <2>3, <2>4, Opens
<1>2. CASE Load(r)
  <2>1. PICK a \in Accounts :
          Become(r, [run[r] EXCEPT !.phase = "start_audit", !.account = a])
    BY <1>2 DEF Load
  <2> DEFINE p == [run[r] EXCEPT !.phase = "start_audit", !.account = a]
  <2>2. p.phase = "start_audit" /\ KeyOf(p) = KeyOf(run[r]) /\ Become(r, p)
    BY <1>0, <2>1 DEF Process, KeyOf
  <2>3. run[r].phase = "load" /\ orders' = orders BY <1>2 DEF Load
  <2> HIDE DEF p
  <2>4. Stage(p) = "open" /\ Stage(run[r]) = "open"
    BY <2>2, <2>3 DEF Stage, Ended
  <2> QED BY <1>0, <2>2, <2>3, <2>4, Unseen
<1>3. CASE LoadFails(r)
  BY <1>0, <1>3, Closes DEF LoadFails, Raise, Active, Ended, KeyOf, Process
<1>4. CASE WriteStartAudit(r)
  <2>1. run[r].phase = "start_audit" /\ orders' = orders /\ Stage(run[r]) = "open"
    BY <1>4 DEF WriteStartAudit, Stage, Ended
  <2>2. ASSUME NEW v \in Versions,
               Become(r, [run[r] EXCEPT !.phase = "journal_check", !.outcome = "blocked",
                                        !.today = day, !.version = v])
        PROVE  Contract!Next
    <3> DEFINE p == [run[r] EXCEPT !.phase = "journal_check", !.outcome = "blocked",
                                   !.today = day, !.version = v]
    <3>1. /\ p.phase = "journal_check" /\ p.outcome = "blocked"
          /\ KeyOf(p) = KeyOf(run[r]) /\ Become(r, p)
      BY <1>0, <2>2 DEF Process, KeyOf
    <3> HIDE DEF p
    <3>2. Stage(p) = "declined" BY <3>1 DEF Stage, Ended
    <3> QED BY <1>0, <2>1, <3>1, <3>2, Declines
  <2>3. ASSUME Become(r, [run[r] EXCEPT !.phase = "harness"])
        PROVE  UNCHANGED Contract!vars
    <3> DEFINE p == [run[r] EXCEPT !.phase = "harness"]
    <3>1. p.phase = "harness" /\ KeyOf(p) = KeyOf(run[r]) /\ Become(r, p)
      BY <1>0, <2>3 DEF Process, KeyOf
    <3> HIDE DEF p
    <3>2. Stage(p) = "open" BY <3>1 DEF Stage, Ended
    <3> QED BY <1>0, <2>1, <3>1, <3>2, Unseen
  <2> QED BY <1>4, <2>2, <2>3 DEF WriteStartAudit
<1> QED BY <1>1, <1>2, <1>3, <1>4 DEF Compose

LEMMA DecideMaps ==
  ASSUME Inv, NEW r \in Runs, DecideStep(r)
  PROVE  Contract!Next \/ UNCHANGED Contract!vars
<1>0. TypeOK /\ run[r] \in Process /\ Firing(run[r]) BY MoverFacts DEF Inv
<1>1. /\ run[r].phase = "harness" /\ run[r].order_id = None /\ Stage(run[r]) = "open"
      /\ KeyOf(run[r]) = None /\ orders' = orders
  BY <1>0 DEF DecideStep, HarnessStops, Decline, DecideRaises, Authorise, Firing, Stage, Ended,
              KeyOf
<1>2. CASE HarnessStops(r)
  <2>1. ASSUME NEW outcome \in {"cost_cap", "harness_error"},
               Become(r, [run[r] EXCEPT !.phase = "notify", !.outcome = outcome])
        PROVE  UNCHANGED Contract!vars
    <3> DEFINE p == [run[r] EXCEPT !.phase = "notify", !.outcome = outcome]
    <3>1. p.phase = "notify" /\ p.outcome = outcome /\ KeyOf(p) = KeyOf(run[r]) /\ Become(r, p)
      BY <1>0, <2>1 DEF Process, KeyOf
    <3> HIDE DEF p
    <3>2. Stage(p) = "open" BY <3>1 DEF Stage, Ended
    <3> QED BY <1>0, <1>1, <3>1, <3>2, Unseen
  <2> QED BY <1>2, <2>1 DEF HarnessStops
<1>3. CASE Decline(r)
  <2>1. PICK d \in Decisions, v \in Versions :
          LET route == Route(d, Context(run[r]))
          IN  /\ route \in {"no_trade", "low_confidence", "invalid", "rejected"}
              /\ Become(r, [run[r] EXCEPT !.phase = "journal_check", !.outcome = route,
                                          !.decision = d, !.version = v])
    BY <1>3 DEF Decline
  <2> DEFINE route == Route(d, Context(run[r]))
             p == [run[r] EXCEPT !.phase = "journal_check", !.outcome = route,
                                 !.decision = d, !.version = v]
  <2>2. route \in {"no_trade", "low_confidence", "invalid", "rejected"} /\ Become(r, p)
    BY <2>1
  <2> HIDE DEF route
  <2>3. p.phase = "journal_check" /\ p.outcome = route /\ KeyOf(p) = KeyOf(run[r])
    BY <1>0 DEF Process, KeyOf
  <2> HIDE DEF p
  <2>4. Stage(p) = "declined" BY <2>2, <2>3 DEF Stage, Ended
  <2> QED BY <1>0, <1>1, <2>2, <2>3, <2>4, Declines
<1>4. CASE DecideRaises(r)
  BY <1>0, <1>1, <1>4, Closes DEF DecideRaises, Raise, Active, Ended, KeyOf, Process
<1>5. CASE Authorise(r)
  <2>1. PICK d \in Decisions, v \in Versions :
          /\ Route(d, Context(run[r])) = "authorised"
          /\ Become(r, [run[r] EXCEPT
               !.phase   = IF run[r].dry_run THEN "journal_check" ELSE "submit",
               !.outcome = IF run[r].dry_run THEN "dry_run" ELSE "none",
               !.decision = d, !.version = v, !.order_id = OrderIdOf(r, v, d)])
    BY <1>5 DEF Authorise
  <2>2. OrderIdOf(r, v, d) \in OrderId
    BY <1>0, <2>1, AuthorisedRoute, OrderIdType, RoutineAssumption DEF TypeOK
  <2>3. PICK p : /\ Become(r, p) /\ p.dry_run = run[r].dry_run
                 /\ p.order_id = OrderIdOf(r, v, d)
                 /\ p.phase = IF run[r].dry_run THEN "journal_check" ELSE "submit"
                 /\ p.outcome = IF run[r].dry_run THEN "dry_run" ELSE "none"
    <3> DEFINE p == [run[r] EXCEPT
               !.phase   = IF run[r].dry_run THEN "journal_check" ELSE "submit",
               !.outcome = IF run[r].dry_run THEN "dry_run" ELSE "none",
               !.decision = d, !.version = v, !.order_id = OrderIdOf(r, v, d)]
    <3>1. /\ p.dry_run = run[r].dry_run /\ p.order_id = OrderIdOf(r, v, d)
          /\ p.phase = IF run[r].dry_run THEN "journal_check" ELSE "submit"
          /\ p.outcome = IF run[r].dry_run THEN "dry_run" ELSE "none"
      BY <1>0 DEF Process
    <3>2. Become(r, p) BY <2>1
    <3> HIDE DEF p
    <3> QED BY <3>1, <3>2
  <2>4. CASE run[r].dry_run
    <3>1. Stage(p) = "declined" /\ KeyOf(p) = KeyOf(run[r])
      BY <2>3, <2>4 DEF Stage, Ended, KeyOf
    <3> QED BY <1>0, <1>1, <2>3, <3>1, Declines
  <2>5. CASE ~run[r].dry_run
    <3>1. Stage(p) = "committed" /\ KeyOf(p) = OrderIdOf(r, v, d)
      BY <2>3, <2>5 DEF Stage, Ended, KeyOf
    <3>2. stage[r] = "open" /\ stage' = [stage EXCEPT ![r] = "committed"]
          /\ key' = [key EXCEPT ![r] = KeyOf(p)] /\ key'[r] = KeyOf(p)
      <4>1. stage[r] = "open" /\ stage' = [stage EXCEPT ![r] = "committed"]
            /\ key' = [key EXCEPT ![r] = KeyOf(p)]
        BY <1>0, <1>1, <2>3, <3>1, ViewOfAStep
      <4>2. r \in DOMAIN key BY DEF key
      <4> QED BY <4>1, <4>2
    <3>3. key'[r] \in OrderId /\ key' = [key EXCEPT ![r] = key'[r]]
      BY <2>2, <3>1, <3>2
    <3>4. Contract!Commit(r)
      BY <1>1, <3>2, <3>3 DEF Contract!Commit, Contract!Move, stage, key, KeyOf
    <3> QED BY <3>4 DEF Contract!Next
  <2> QED BY <2>4, <2>5
<1> QED BY <1>2, <1>3, <1>4, <1>5 DEF DecideStep

-----------------------------------------------------------------------------
(* At the broker: every outcome of a POST is an attempt of the contract.   *)
LEMMA Attempts ==
  ASSUME TypeOK, NEW r \in Runs, NEW p, Become(r, p), orders' \in {orders, Book(r)},
         Stage(run[r]) = "committed", KeyOf(run[r]) = run[r].order_id,
         KeyOf(p) = KeyOf(run[r]),
         \/ Stage(p) \in {"committed", "closed"}
         \/ Stage(p) = "settled" /\ orders' = Book(r)
  PROVE  Contract!Next
<1>1. /\ stage[r] = "committed" /\ stage' = [stage EXCEPT ![r] = Stage(p)]
      /\ key' = key /\ key[r] = run[r].order_id
  BY ViewOfAStep
<1>2. \/ orders' = orders
      \/ /\ ~ \E o \in orders : o.id = key[r]
         /\ orders' = orders \cup {[run |-> r, id |-> key[r]]}
  BY <1>1 DEF Book
<1>3. \E o \in Book(r) : o.id = key[r]
  <2>1. CASE \E o \in orders : o.id = run[r].order_id BY <1>1, <2>1 DEF Book
  <2>2. CASE ~ \E o \in orders : o.id = run[r].order_id
    <3> DEFINE o == [id |-> run[r].order_id, run |-> r]
    <3>1. o \in Book(r) BY <2>2 DEF Book
    <3>2. o.id = run[r].order_id OBVIOUS
    <3> QED BY <1>1, <3>1, <3>2
  <2> QED BY <2>1, <2>2
<1>4. Contract!Attempt(r)
  <2>1. Contract!Move(r, {"committed"}, Stage(p))
    BY <1>1 DEF Contract!Move, stage
  <2>2. \/ orders' = orders
        \/ ~Contract!Taken(key[r]) /\ orders' = orders \cup {[run |-> r, id |-> key[r]]}
    BY <1>2 DEF Contract!Taken
  <2> QED BY <1>1, <1>3, <2>1, <2>2 DEF Contract!Attempt, key, KeyOf
<1> QED BY <1>4 DEF Contract!Next

LEMMA SubmitMaps ==
  ASSUME Inv, LiveSubmits, NEW r \in Runs, Submit(r)
  PROVE  Contract!Next
<1>0. TypeOK /\ run[r] \in Process BY MoverFacts DEF Inv
<1>1. run[r].phase = "submit" /\ ~run[r].dry_run /\ orders' \in {orders, Book(r)}
  BY DEF Submit, SubmitAnswered, SubmitSilent, SubmitFails, LiveSubmits
<1>2. Stage(run[r]) = "committed" /\ KeyOf(run[r]) = run[r].order_id
  BY <1>1 DEF Stage, Ended, KeyOf
<1>3. CASE SubmitAnswered(r)
  <2> DEFINE p == [run[r] EXCEPT !.phase = "journal_check", !.outcome = "submitted"]
  <2>1. /\ p.phase = "journal_check" /\ p.outcome = "submitted"
        /\ KeyOf(p) = KeyOf(run[r]) /\ Become(r, p) /\ orders' = Book(r)
    BY <1>0, <1>3 DEF SubmitAnswered, Process, KeyOf
  <2> HIDE DEF p
  <2>2. Stage(p) = "settled" BY <2>1 DEF Stage, Ended
  <2> QED BY <1>0, <1>1, <1>2, <2>1, <2>2, Attempts
<1>4. ASSUME Raise(r) PROVE Contract!Next
  <2> DEFINE p == [run[r] EXCEPT !.phase = "raised"]
  <2>1. p.phase = "raised" /\ KeyOf(p) = KeyOf(run[r]) /\ Become(r, p)
    BY <1>0, <1>4 DEF Raise, Process, KeyOf
  <2> HIDE DEF p
  <2>2. Stage(p) = "closed" BY <2>1 DEF Stage, Ended
  <2> QED BY <1>0, <1>1, <1>2, <2>1, <2>2, Attempts
<1>5. CASE SubmitSilent(r)
  <2>1. ASSUME Become(r, [run[r] EXCEPT !.tries = @ + 1]) PROVE Contract!Next
    <3> DEFINE p == [run[r] EXCEPT !.tries = @ + 1]
    <3>1. p.phase = "submit" /\ KeyOf(p) = KeyOf(run[r]) /\ Become(r, p)
      BY <1>0, <1>1, <2>1 DEF Process, KeyOf
    <3> HIDE DEF p
    <3>2. Stage(p) = "committed" BY <3>1 DEF Stage, Ended
    <3> QED BY <1>0, <1>1, <1>2, <3>1, <3>2, Attempts
  <2> QED BY <1>4, <1>5, <2>1 DEF SubmitSilent
<1>6. CASE SubmitFails(r) BY <1>4, <1>6 DEF SubmitFails
<1> QED BY <1>3, <1>5, <1>6 DEF Submit

-----------------------------------------------------------------------------
(* After the broker: the records leave the contract alone until the end.   *)
LEMMA RecordMaps ==
  ASSUME Inv, NEW r \in Runs, Record(r)
  PROVE  Contract!Next \/ UNCHANGED Contract!vars
<1>0. TypeOK /\ run[r] \in Process BY MoverFacts DEF Inv
<1> DEFINE Writing == {"journal_check", "journal_append", "audit", "notify"}
<1>1. orders' = orders BY DEF Record, JournalCheck, JournalAppend, AuditDecision, WriteFails, Notify
<1>2. ASSUME NEW p, Become(r, p), KeyOf(p) = KeyOf(run[r]), p.outcome = run[r].outcome,
             p.phase \in Writing, run[r].phase \in Writing
      PROVE  UNCHANGED Contract!vars
  <2>1. Stage(p) = Stage(run[r]) BY <1>2 DEF Stage, Ended
  <2> QED BY <1>0, <1>1, <1>2, <2>1, Unseen
<1>3. CASE JournalCheck(r)
  <2>1. PICK today, dup :
          Become(r, [run[r] EXCEPT !.phase = "journal_append", !.today = today, !.dup = dup])
    BY <1>3 DEF JournalCheck
  <2> DEFINE p == [run[r] EXCEPT !.phase = "journal_append", !.today = today, !.dup = dup]
  <2>2. /\ p.phase = "journal_append" /\ p.outcome = run[r].outcome
        /\ KeyOf(p) = KeyOf(run[r]) /\ Become(r, p) /\ run[r].phase = "journal_check"
    BY <1>0, <1>3, <2>1 DEF JournalCheck, Process, KeyOf
  <2> HIDE DEF p
  <2> QED BY <1>2, <2>2
<1>4. CASE JournalAppend(r)
  <2> DEFINE p == [run[r] EXCEPT
                     !.phase = IF run[r].outcome = "blocked" THEN "notify" ELSE "audit"]
  <2>1. /\ p.phase \in {"notify", "audit"} /\ p.outcome = run[r].outcome
        /\ KeyOf(p) = KeyOf(run[r]) /\ Become(r, p) /\ run[r].phase = "journal_append"
    BY <1>0, <1>4 DEF JournalAppend, Process, KeyOf
  <2> HIDE DEF p
  <2> QED BY <1>2, <2>1
<1>5. CASE AuditDecision(r)
  <2> DEFINE p == [run[r] EXCEPT !.phase = "notify"]
  <2>1. /\ p.phase = "notify" /\ p.outcome = run[r].outcome
        /\ KeyOf(p) = KeyOf(run[r]) /\ Become(r, p) /\ run[r].phase = "audit"
    BY <1>0, <1>5 DEF AuditDecision, Process, KeyOf
  <2> HIDE DEF p
  <2> QED BY <1>2, <2>1
<1>6. CASE WriteFails(r)
  BY <1>0, <1>1, <1>6, Closes DEF WriteFails, Raise, Active, Ended, KeyOf, Process
<1>7. CASE Notify(r)
  <2> DEFINE p == [run[r] EXCEPT
                     !.phase = IF run[r].outcome = "harness_error" THEN "raised" ELSE "done"]
  <2>1. /\ p.phase \in Ended /\ Active(r)
        /\ KeyOf(p) = KeyOf(run[r]) /\ Become(r, p)
    BY <1>0, <1>7 DEF Notify, Process, KeyOf, Active, Ended
  <2> HIDE DEF p
  <2> QED BY <1>0, <1>1, <2>1, Closes
<1> QED BY <1>3, <1>4, <1>5, <1>6, <1>7 DEF Record

-----------------------------------------------------------------------------
(* The routine is one of the implementations its contract allows: a firing *)
(* that trades commits to one key first, a key is booked at most once      *)
(* whoever retries it, and a firing settles only when its key is booked.   *)
THEOREM ContractKept == Spec => ImplementsContract
<1>1. Init => Contract!Init
  <2>1. Stage(Fresh) = "idle" /\ KeyOf(Fresh) = None BY DEF Fresh, Stage, Ended, KeyOf
  <2>2. Init => stage = [r \in Runs |-> "idle"] /\ key = [r \in Runs |-> None]
    BY <2>1 DEF Init, stage, key
  <2> QED BY <2>2 DEF Init, Contract!Init, stage, key, KeyOf
<1>2. Inv /\ LiveSubmits /\ [Next]_vars => [Contract!Next]_(Contract!vars)
  <2> SUFFICES ASSUME Inv, LiveSubmits, [Next]_vars
               PROVE  Contract!Next \/ UNCHANGED Contract!vars
    OBVIOUS
  <2>1. ASSUME NEW r \in Runs, Step(r) PROVE Contract!Next \/ UNCHANGED Contract!vars
    BY <2>1, ComposeMaps, DecideMaps, SubmitMaps, RecordMaps DEF Step
  <2>2. ASSUME NEW r \in Runs, Crash(r) PROVE Contract!Next
    <3>1. TypeOK /\ run[r] \in Process BY MoverFacts DEF Inv
    <3> QED BY <2>2, <3>1, Closes DEF Crash, Ended, KeyOf, Process
  <2>3. CASE UNCHANGED <<run, orders>> BY <2>3 DEF Contract!vars
  <2> QED BY <2>1, <2>2, <2>3 DEF Next, Toggle, NextDay, vars
<1> QED BY <1>1, <1>2, Invariance, LiveSubmitsInvariant, PTL
        DEF Spec, ImplementsContract, Contract!Spec

-----------------------------------------------------------------------------
(* What the contract promises, on stages s, keys k and bookings B, and     *)
(* that every step the contract allows keeps it.                           *)
Promised(s, k, B) ==
  /\ \A b, c \in B : b.id = c.id => b = c
  /\ \A b \in B : /\ b.run \in Runs /\ k[b.run] = b.id
                  /\ s[b.run] \in {"committed", "settled", "closed"}
  /\ \A r \in Runs : s[r] = "settled" => \E b \in B : b.id = k[r]

Promise == Promised(stage, key, orders)

LEMMA PromiseOfTheContract == Promise => Contract!BookedOnce /\ Contract!SettledIsBooked
BY DEF Promise, Promised, stage, key, KeyOf, Contract!BookedOnce, Contract!SettledIsBooked,
       Contract!Taken

(* A firing moves on without a booking and with the key it had. *)
LEMMA PromiseMoves ==
  ASSUME NEW s, NEW k, NEW B, Promised(s, k, B), s = [r \in Runs |-> s[r]],
         NEW r \in Runs, NEW to, to # "settled" \/ (\E b \in B : b.id = k[r]),
         s[r] \in {"committed", "settled"} => to \in {"committed", "settled", "closed"},
         s[r] = "closed" => to = "closed"
  PROVE  Promised([s EXCEPT ![r] = to], k, B)
<1> DEFINE t == [s EXCEPT ![r] = to]
<1>1. t[r] = to /\ \A q \in Runs : q # r => t[q] = s[q] OBVIOUS
<1> HIDE DEF t
<1> QED BY <1>1 DEF Promised

(* A firing that has booked nothing commits to a key. *)
LEMMA PromiseCommits ==
  ASSUME NEW s, NEW k, NEW B, Promised(s, k, B), s = [r \in Runs |-> s[r]],
         k = [r \in Runs |-> k[r]], NEW r \in Runs, s[r] = "open", NEW id
  PROVE  Promised([s EXCEPT ![r] = "committed"], [k EXCEPT ![r] = id], B)
<1> DEFINE t == [s EXCEPT ![r] = "committed"]
           l == [k EXCEPT ![r] = id]
<1>1. /\ t[r] = "committed"
      /\ \A q \in Runs : q # r => t[q] = s[q] /\ l[q] = k[q]
  OBVIOUS
<1> HIDE DEF t, l
<1>2. \A b \in B : b.run # r BY DEF Promised
<1> QED BY <1>1, <1>2 DEF Promised

(* The broker books the key of a committed firing, if it is free. *)
LEMMA PromiseBooks ==
  ASSUME NEW s, NEW k, NEW B, Promised(s, k, B), NEW r \in Runs, s[r] = "committed",
         ~\E b \in B : b.id = k[r]
  PROVE  Promised(s, k, B \cup {[run |-> r, id |-> k[r]]})
<1> DEFINE new == [run |-> r, id |-> k[r]]
<1>1. new.run = r /\ new.id = k[r] OBVIOUS
<1> HIDE DEF new
<1> QED BY <1>1 DEF Promised

LEMMA PromiseKept == ASSUME Promise, Contract!Next PROVE Promise'
<1> USE DEF Promise
<1>1. stage = [r \in Runs |-> stage[r]] /\ key = [r \in Runs |-> key[r]] BY DEF stage, key
<1>2. ASSUME NEW r \in Runs, Contract!Open(r) \/ Contract!Decline(r) \/ Contract!Close(r)
      PROVE  Promise'
  <2>1. PICK to \in {"open", "declined", "closed"} :
          /\ stage' = [stage EXCEPT ![r] = to] /\ key' = key /\ orders' = orders
          /\ to # "closed" => stage[r] \in {"idle", "open"}
          /\ stage[r] # "closed"
    BY <1>2 DEF Contract!Open, Contract!Decline, Contract!Close, Contract!Move, stage, key, KeyOf
  <2>2. Promised([stage EXCEPT ![r] = to], key, orders) BY <1>1, <2>1, PromiseMoves
  <2> QED BY <2>1, <2>2
<1>3. ASSUME NEW r \in Runs, Contract!Commit(r) PROVE Promise'
  <2>1. /\ stage[r] = "open" /\ stage' = [stage EXCEPT ![r] = "committed"]
        /\ key' = [key EXCEPT ![r] = key'[r]] /\ orders' = orders
    BY <1>3 DEF Contract!Commit, Contract!Move, stage, key, KeyOf
  <2>2. Promised([stage EXCEPT ![r] = "committed"], [key EXCEPT ![r] = key'[r]], orders)
    BY <1>1, <2>1, PromiseCommits
  <2> QED BY <2>1, <2>2
<1>4. ASSUME NEW r \in Runs, Contract!Attempt(r) PROVE Promise'
  <2>1. PICK to \in {"committed", "closed", "settled"} :
          /\ stage[r] = "committed" /\ stage' = [stage EXCEPT ![r] = to] /\ key' = key
          /\ to = "settled" => \E b \in orders' : b.id = key[r]
          /\ \/ orders' = orders
             \/ /\ ~\E b \in orders : b.id = key[r]
                /\ orders' = orders \cup {[run |-> r, id |-> key[r]]}
    BY <1>4 DEF Contract!Attempt, Contract!Move, Contract!Taken, stage, key, KeyOf
  <2>2. Promised(stage, key, orders') BY <2>1, PromiseBooks
  <2>3. Promised([stage EXCEPT ![r] = to], key, orders') BY <1>1, <2>1, <2>2, PromiseMoves
  <2> QED BY <2>1, <2>3
<1> QED BY <1>2, <1>3, <1>4 DEF Contract!Next

(* Hence, of the routine: a key is booked by one firing only, the one that *)
(* committed to it, and a firing that reports its order has it booked.     *)
THEOREM PromiseHolds == Spec => [](Contract!BookedOnce /\ Contract!SettledIsBooked)
<1>1. Contract!Init => Promise
  BY DEF Contract!Init, Promise, Promised, stage, key, KeyOf
<1>2. Promise /\ [Contract!Next]_(Contract!vars) => Promise'
  <2> SUFFICES ASSUME Promise, Contract!Next \/ UNCHANGED Contract!vars PROVE Promise'
    OBVIOUS
  <2>1. CASE UNCHANGED Contract!vars
    BY <2>1 DEF Contract!vars, Promise, stage, key, KeyOf
  <2> QED BY <2>1, PromiseKept
<1> QED BY <1>1, <1>2, ContractKept, PromiseOfTheContract, PTL
        DEF ImplementsContract, Contract!Spec

-----------------------------------------------------------------------------
(* What a firing in local state p has left in journal J, audit log A and   *)
(* notices N and at the broker, in O, by then.                             *)
Rowed(p, J) ==
  \E row \in J : row.day = p.today /\ row.intent = Intent(p.version, p.decision)

DecisionAudited(r, p, A) ==
  \E e \in A : /\ e.run = r /\ e.action = "decision" /\ e.day = p.today
               /\ p.outcome = "submitted" => e.to_state = "submitted"

Sent(p, O) == p.order_id # None /\ \E o \in O : o.id = p.order_id

Announced(r, N) == (\E n \in N : n.run = r) \/ {"discord", "dead_letters"} \subseteq Faults

OnRecord(r, p, J, A, N, O) ==
  /\ p.phase = "journal_append" /\ p.dup => Rowed(p, J)
  /\ p.phase \in {"audit", "notify", "done"} /\ p.decision # None => Rowed(p, J)
  /\ p.phase \in {"notify", "done"} /\ p.decision # None => DecisionAudited(r, p, A)
  /\ p.outcome = "submitted" => Sent(p, O)
  /\ p.outcome = "blocked" => p.decision = None
  /\ p.outcome = "harness_error" => p.phase \in {"notify", "raised", "crashed"}
  /\ p.phase = "done" \/ (p.phase = "raised" /\ p.outcome = "harness_error")
       => Announced(r, N)

AllOnRecord == \A r \in Runs : OnRecord(r, run[r], journal, audit, notices, orders)

(* Firings that do not overlap look at the journal as they will find it.   *)
Solo == \A q, r \in Runs : Active(q) /\ Active(r) => q = r

LookedUp ==
  \A r \in Runs : (run[r].phase = "journal_append" /\ ~run[r].dup) => ~Rowed(run[r], journal)

(* No step takes anything back. *)
Growing ==
  /\ journal \subseteq journal' /\ audit \subseteq audit'
  /\ notices \subseteq notices' /\ orders \subseteq orders'

LEMMA RecordsGrow == ASSUME [Next]_vars PROVE Growing
BY DEF Next, vars, Step, Compose, DecideStep, Submit, Record, Crash, Toggle, NextDay, Growing,
       Begin, Load, LoadFails, WriteStartAudit, HarnessStops, Decline, DecideRaises, Authorise,
       SubmitAnswered, SubmitSilent, SubmitFails, JournalCheck, JournalAppend, AuditDecision,
       WriteFails, Notify, Book

(* What is on record stays on record, whatever the others do. *)
Keeps(r, p) ==
  OnRecord(r, p, journal, audit, notices, orders)
    => OnRecord(r, p, journal', audit', notices', orders')

LEMMA StaysOnRecord ==
  ASSUME Growing, NEW r, NEW p PROVE Keeps(r, p)
BY DEF Growing, Keeps, OnRecord, Rowed, DecisionAudited, Sent, Announced

(* The parts of a firing's state its records are made from. *)
SamePaper(p, q) ==
  /\ q.decision = p.decision /\ q.version = p.version /\ q.today = p.today
  /\ q.order_id = p.order_id /\ q.outcome = p.outcome

(* A step that is not yet at the records or fails there, or the death of   *)
(* the process.                                                            *)
LEMMA QuietPaper ==
  ASSUME Growing, NEW r, NEW p, NEW q,
         OnRecord(r, p, journal, audit, notices, orders), SamePaper(p, q),
         \/ q.phase = "crashed"
         \/ /\ p.phase \notin {"notify", "raised", "crashed"}
            /\ q.phase \in {"load", "start_audit", "harness", "submit", "raised"}
  PROVE  OnRecord(r, q, journal', audit', notices', orders')
<1>1. OnRecord(r, p, journal', audit', notices', orders') BY StaysOnRecord DEF Keeps
<1>2. p.outcome = "harness_error" => p.phase \in {"notify", "raised", "crashed"}
  BY DEF OnRecord
<1> QED BY <1>1, <1>2 DEF OnRecord, SamePaper, Sent

(* A step of one firing keeps everything on record if its own new state    *)
(* is. *)
LEMMA MoverOnRecord ==
  ASSUME TypeOK, AllOnRecord, Growing, NEW r \in Runs, NEW p, Become(r, p),
         OnRecord(r, p, journal', audit', notices', orders')
  PROVE  AllOnRecord'
<1>1. run'[r] = p /\ \A q \in Runs : q # r => run'[q] = run[q]
  BY DEF Become, TypeOK
<1>2. ASSUME NEW q \in Runs PROVE OnRecord(q, run'[q], journal', audit', notices', orders')
  <2>1. CASE q = r BY <1>1, <2>1
  <2>2. CASE q # r
    <3>1. OnRecord(q, run[q], journal', audit', notices', orders')
      BY StaysOnRecord DEF AllOnRecord, Keeps
    <3> QED BY <1>1, <2>2, <3>1
  <2> QED BY <2>1, <2>2
<1> QED BY <1>2 DEF AllOnRecord

LEMMA StepOnRecord ==
  ASSUME Inv, AllOnRecord, Growing, NEW r \in Runs, Step(r) \/ Crash(r)
  PROVE  AllOnRecord'
<1>0. /\ TypeOK /\ run[r] \in Process /\ Firing(run[r])
      /\ OnRecord(r, run[r], journal, audit, notices, orders)
  BY MoverFacts DEF Inv, AllOnRecord
<1>1. ASSUME NEW p, Become(r, p), SamePaper(run[r], p),
             \/ p.phase = "crashed"
             \/ /\ run[r].phase \notin {"notify", "raised", "crashed"}
                /\ p.phase \in {"load", "start_audit", "harness", "submit", "raised"}
      PROVE  AllOnRecord'
  BY <1>0, <1>1, QuietPaper, MoverOnRecord
<1>2. ASSUME Raise(r), run[r].phase \notin {"notify", "raised", "crashed"} PROVE AllOnRecord'
  <2> DEFINE p == [run[r] EXCEPT !.phase = "raised"]
  <2>1. SamePaper(run[r], p) /\ p.phase = "raised" BY <1>0 DEF Process, SamePaper
  <2>2. Become(r, p) BY <1>2 DEF Raise
  <2> HIDE DEF p
  <2> QED BY <1>1, <1>2, <2>1, <2>2
<1>3. CASE Begin(r)
  <2>1. PICK reply \in RemoteReplies, dry \in DryRunChoices :
          Become(r, [run[r] EXCEPT !.phase = "load", !.dry_run = dry,
                                   !.signals = signals, !.reply = reply])
    BY <1>3 DEF Begin
  <2> DEFINE p == [run[r] EXCEPT !.phase = "load", !.dry_run = dry,
                                 !.signals = signals, !.reply = reply]
  <2>2. SamePaper(run[r], p) /\ p.phase = "load" BY <1>0 DEF Process, SamePaper
  <2>3. Become(r, p) /\ run[r].phase = "idle" BY <1>3, <2>1 DEF Begin
  <2> HIDE DEF p
  <2> QED BY <1>1, <2>2, <2>3
<1>4. CASE Load(r)
  <2>1. PICK a \in Accounts :
          Become(r, [run[r] EXCEPT !.phase = "start_audit", !.account = a])
    BY <1>4 DEF Load
  <2> DEFINE p == [run[r] EXCEPT !.phase = "start_audit", !.account = a]
  <2>2. SamePaper(run[r], p) /\ p.phase = "start_audit" BY <1>0 DEF Process, SamePaper
  <2>3. Become(r, p) /\ run[r].phase = "load" BY <1>4, <2>1 DEF Load
  <2> HIDE DEF p
  <2> QED BY <1>1, <2>2, <2>3
<1>5. CASE LoadFails(r) BY <1>2, <1>5 DEF LoadFails
<1>6. CASE WriteStartAudit(r)
  <2>1. run[r].phase = "start_audit" /\ run[r].decision = None
    BY <1>0, <1>6 DEF WriteStartAudit, Firing
  <2>2. ASSUME NEW v \in Versions,
               Become(r, [run[r] EXCEPT !.phase = "journal_check", !.outcome = "blocked",
                                        !.today = day, !.version = v])
        PROVE  AllOnRecord'
    <3> DEFINE p == [run[r] EXCEPT !.phase = "journal_check", !.outcome = "blocked",
                                   !.today = day, !.version = v]
    <3>1. p.phase = "journal_check" /\ p.outcome = "blocked" /\ p.decision = None
      BY <1>0, <2>1 DEF Process
    <3>2. Become(r, p) BY <2>2
    <3> HIDE DEF p
    <3>3. OnRecord(r, p, journal', audit', notices', orders') BY <3>1 DEF OnRecord
    <3> QED BY <1>0, <3>2, <3>3, MoverOnRecord
  <2>3. ASSUME Become(r, [run[r] EXCEPT !.phase = "harness"]) PROVE AllOnRecord'
    <3> DEFINE p == [run[r] EXCEPT !.phase = "harness"]
    <3>1. SamePaper(run[r], p) /\ p.phase = "harness" BY <1>0 DEF Process, SamePaper
    <3>2. Become(r, p) BY <2>3
    <3> HIDE DEF p
    <3> QED BY <1>1, <2>1, <3>1, <3>2
  <2> QED BY <1>6, <2>2, <2>3 DEF WriteStartAudit
<1>7. CASE HarnessStops(r)
  <2>1. PICK outcome \in {"cost_cap", "harness_error"} :
          Become(r, [run[r] EXCEPT !.phase = "notify", !.outcome = outcome])
    BY <1>7 DEF HarnessStops
  <2> DEFINE p == [run[r] EXCEPT !.phase = "notify", !.outcome = outcome]
  <2>2. p.phase = "notify" /\ p.outcome = outcome /\ p.decision = None
    BY <1>0, <1>7 DEF HarnessStops, Firing, Process
  <2>3. Become(r, p) BY <2>1
  <2> HIDE DEF p
  <2>4. OnRecord(r, p, journal', audit', notices', orders') BY <2>2 DEF OnRecord
  <2> QED BY <1>0, <2>3, <2>4, MoverOnRecord
<1>8. CASE Decline(r)
  <2>1. PICK d \in Decisions, v \in Versions,
             route \in {"no_trade", "low_confidence", "invalid", "rejected"} :
          Become(r, [run[r] EXCEPT !.phase = "journal_check", !.outcome = route,
                                   !.decision = d, !.version = v])
    BY <1>8 DEF Decline
  <2> DEFINE p == [run[r] EXCEPT !.phase = "journal_check", !.outcome = route,
                                 !.decision = d, !.version = v]
  <2>2. p.phase = "journal_check" /\ p.outcome = route BY <1>0 DEF Process
  <2>3. Become(r, p) BY <2>1
  <2> HIDE DEF p
  <2>4. OnRecord(r, p, journal', audit', notices', orders') BY <2>2 DEF OnRecord
  <2> QED BY <1>0, <2>3, <2>4, MoverOnRecord
<1>9. CASE DecideRaises(r) BY <1>2, <1>9 DEF DecideRaises
<1>10. CASE Authorise(r)
  <2>1. PICK d \in Decisions, v \in Versions :
          Become(r, [run[r] EXCEPT
            !.phase   = IF run[r].dry_run THEN "journal_check" ELSE "submit",
            !.outcome = IF run[r].dry_run THEN "dry_run" ELSE "none",
            !.decision = d, !.version = v, !.order_id = OrderIdOf(r, v, d)])
    BY <1>10 DEF Authorise
  <2> DEFINE p == [run[r] EXCEPT
            !.phase   = IF run[r].dry_run THEN "journal_check" ELSE "submit",
            !.outcome = IF run[r].dry_run THEN "dry_run" ELSE "none",
            !.decision = d, !.version = v, !.order_id = OrderIdOf(r, v, d)]
  <2>2. p.phase \in {"journal_check", "submit"} /\ p.outcome \in {"dry_run", "none"}
    BY <1>0 DEF Process
  <2>3. Become(r, p) BY <2>1
  <2> HIDE DEF p
  <2>4. OnRecord(r, p, journal', audit', notices', orders') BY <2>2 DEF OnRecord
  <2> QED BY <1>0, <2>3, <2>4, MoverOnRecord
<1>11. CASE SubmitAnswered(r)
  <2> DEFINE p == [run[r] EXCEPT !.phase = "journal_check", !.outcome = "submitted"]
  <2>1. /\ p.phase = "journal_check" /\ p.outcome = "submitted"
        /\ p.order_id = run[r].order_id /\ run[r].order_id # None
    BY <1>0, <1>11 DEF SubmitAnswered, Firing, Process
  <2>2. Become(r, p) /\ orders' = Book(r) BY <1>11 DEF SubmitAnswered
  <2> HIDE DEF p
  <2>3. \E o \in orders' : o.id = run[r].order_id
    <3>1. CASE \E o \in orders : o.id = run[r].order_id BY <2>2, <3>1 DEF Book
    <3>2. CASE ~\E o \in orders : o.id = run[r].order_id
      <4> DEFINE new == [id |-> run[r].order_id, run |-> r]
      <4>1. new \in orders' /\ new.id = run[r].order_id BY <2>2, <3>2 DEF Book
      <4> QED BY <4>1
    <3> QED BY <3>1, <3>2
  <2>4. Sent(p, orders') BY <2>1, <2>3 DEF Sent
  <2>5. OnRecord(r, p, journal', audit', notices', orders') BY <2>1, <2>4 DEF OnRecord
  <2> QED BY <1>0, <2>2, <2>5, MoverOnRecord
<1>12. CASE SubmitSilent(r)
  <2>1. run[r].phase = "submit" BY <1>12 DEF SubmitSilent
  <2>2. ASSUME Become(r, [run[r] EXCEPT !.tries = @ + 1]) PROVE AllOnRecord'
    <3> DEFINE p == [run[r] EXCEPT !.tries = @ + 1]
    <3>1. SamePaper(run[r], p) /\ p.phase = "submit" BY <1>0, <2>1 DEF Process, SamePaper
    <3>2. Become(r, p) BY <2>2
    <3> HIDE DEF p
    <3> QED BY <1>1, <2>1, <3>1, <3>2
  <2> QED BY <1>2, <1>12, <2>1, <2>2 DEF SubmitSilent
<1>13. CASE SubmitFails(r) BY <1>2, <1>13 DEF SubmitFails
<1>14. CASE JournalCheck(r)
  <2>1. PICK today :
          Become(r, [run[r] EXCEPT !.phase = "journal_append", !.today = today,
            !.dup = \E row \in journal : row.day = today /\ row.intent = Fingerprint(r)])
    BY <1>14 DEF JournalCheck
  <2> DEFINE dup == \E row \in journal : row.day = today /\ row.intent = Fingerprint(r)
             p == [run[r] EXCEPT !.phase = "journal_append", !.today = today, !.dup = dup]
  <2>2. Become(r, p) /\ run[r].phase = "journal_check" BY <1>14, <2>1 DEF JournalCheck
  <2> HIDE DEF dup
  <2>3. /\ p.phase = "journal_append" /\ p.today = today /\ p.dup = dup
        /\ p.decision = run[r].decision /\ p.version = run[r].version
        /\ p.order_id = run[r].order_id /\ p.outcome = run[r].outcome
    BY <1>0 DEF Process
  <2> HIDE DEF p
  <2>4. p.dup => Rowed(p, journal')
    BY <2>3 DEF dup, Rowed, Fingerprint, Growing
  <2>5. OnRecord(r, run[r], journal', audit', notices', orders')
    BY <1>0, StaysOnRecord DEF Keeps
  <2>6. OnRecord(r, p, journal', audit', notices', orders')
    BY <2>2, <2>3, <2>4, <2>5 DEF OnRecord, Sent
  <2> QED BY <1>0, <2>2, <2>6, MoverOnRecord
<1>15. CASE JournalAppend(r)
  <2> DEFINE p == [run[r] EXCEPT
                     !.phase = IF run[r].outcome = "blocked" THEN "notify" ELSE "audit"]
             row == [run |-> r, day |-> run[r].today, intent |-> Fingerprint(r),
                     outcome |-> run[r].outcome]
  <2>1. /\ Become(r, p) /\ run[r].phase = "journal_append"
        /\ journal' = IF run[r].dup THEN journal ELSE journal \cup {row}
    BY <1>15 DEF JournalAppend
  <2>2. /\ SamePaper(run[r], p)
        /\ p.phase = IF run[r].outcome = "blocked" THEN "notify" ELSE "audit"
    BY <1>0 DEF Process, SamePaper
  <2>3. row.day = run[r].today /\ row.intent = Fingerprint(r) OBVIOUS
  <2> HIDE DEF p, row
  <2>4. Rowed(run[r], journal')
    <3>1. CASE run[r].dup BY <1>0, <2>1, <3>1 DEF OnRecord
    <3>2. CASE ~run[r].dup BY <2>1, <2>3, <3>2 DEF Rowed, Fingerprint
    <3> QED BY <3>1, <3>2
  <2>5. Rowed(p, journal') BY <2>2, <2>4 DEF SamePaper, Rowed
  <2>6. OnRecord(r, run[r], journal', audit', notices', orders')
    BY <1>0, StaysOnRecord DEF Keeps
  <2>7. OnRecord(r, p, journal', audit', notices', orders')
    BY <2>1, <2>2, <2>5, <2>6 DEF OnRecord, SamePaper, Sent
  <2> QED BY <1>0, <2>1, <2>7, MoverOnRecord
<1>16. CASE AuditDecision(r)
  <2> DEFINE p == [run[r] EXCEPT !.phase = "notify"]
             event == [run |-> r, day |-> run[r].today, action |-> "decision",
                       to_state |-> IF run[r].order_id # None THEN "submitted" ELSE "journaled"]
  <2>1. Become(r, p) /\ run[r].phase = "audit" /\ event \in audit'
    BY <1>16 DEF AuditDecision
  <2>2. SamePaper(run[r], p) /\ p.phase = "notify" BY <1>0 DEF Process, SamePaper
  <2>3. /\ event.run = r /\ event.action = "decision" /\ event.day = run[r].today
        /\ run[r].order_id # None => event.to_state = "submitted"
    OBVIOUS
  <2> HIDE DEF p, event
  <2>4. OnRecord(r, run[r], journal', audit', notices', orders')
    BY <1>0, StaysOnRecord DEF Keeps
  <2>5. DecisionAudited(r, p, audit')
    <3>1. run[r].outcome = "submitted" => event.to_state = "submitted"
      BY <1>0, <2>3 DEF OnRecord, Sent
    <3> QED BY <2>1, <2>2, <2>3, <3>1 DEF DecisionAudited, SamePaper
  <2>6. Rowed(run[r], journal') => Rowed(p, journal') BY <2>2 DEF SamePaper, Rowed
  <2>7. OnRecord(r, p, journal', audit', notices', orders')
    BY <2>1, <2>2, <2>4, <2>5, <2>6 DEF OnRecord, SamePaper, Sent
  <2> QED BY <1>0, <2>1, <2>7, MoverOnRecord
<1>17. CASE WriteFails(r) BY <1>2, <1>17 DEF WriteFails
<1>18. CASE Notify(r)
  <2> DEFINE p == [run[r] EXCEPT
                     !.phase = IF run[r].outcome = "harness_error" THEN "raised" ELSE "done"]
  <2>1. Become(r, p) /\ run[r].phase = "notify" BY <1>18 DEF Notify
  <2>2. /\ SamePaper(run[r], p)
        /\ p.phase = IF run[r].outcome = "harness_error" THEN "raised" ELSE "done"
    BY <1>0 DEF Process, SamePaper
  <2> HIDE DEF p
  <2>3. Announced(r, notices')
    <3>1. PICK to \in SUBSET {"discord", "dead letter"} :
            /\ to # {"discord"} => "discord" \in Faults
            /\ to = {} => "dead_letters" \in Faults
            /\ notices' = notices \cup {[run |-> r, via |-> v] : v \in to}
      BY <1>18 DEF Notify
    <3>2. CASE to = {} BY <3>1, <3>2 DEF Announced
    <3>3. CASE to # {}
      <4>1. PICK v \in to : TRUE BY <3>3
      <4> DEFINE n == [run |-> r, via |-> v]
      <4>2. n \in notices' /\ n.run = r BY <3>1
      <4> QED BY <4>2 DEF Announced
    <3> QED BY <3>2, <3>3
  <2>4. OnRecord(r, run[r], journal', audit', notices', orders')
    BY <1>0, StaysOnRecord DEF Keeps
  <2>5. /\ Rowed(run[r], journal') => Rowed(p, journal')
        /\ DecisionAudited(r, run[r], audit') => DecisionAudited(r, p, audit')
    BY <2>2 DEF SamePaper, Rowed, DecisionAudited
  <2>6. OnRecord(r, p, journal', audit', notices', orders')
    BY <2>1, <2>2, <2>3, <2>4, <2>5 DEF OnRecord, SamePaper, Sent
  <2> QED BY <1>0, <2>1, <2>6, MoverOnRecord
<1>19. CASE Crash(r)
  <2> DEFINE p == [run[r] EXCEPT !.phase = "crashed"]
  <2>1. SamePaper(run[r], p) /\ p.phase = "crashed" BY <1>0 DEF Process, SamePaper
  <2>2. Become(r, p) BY <1>19 DEF Crash
  <2> HIDE DEF p
  <2> QED BY <1>1, <2>1, <2>2
<1> QED BY <1>3, <1>4, <1>5, <1>6, <1>7, <1>8, <1>9, <1>10, <1>11, <1>12, <1>13,
           <1>14, <1>15, <1>16, <1>17, <1>18, <1>19
        DEF Step, Compose, DecideStep, Submit, Record

LEMMA OnRecordInvariant == Spec => []AllOnRecord
<1>1. Init => AllOnRecord
  <2>1. Fresh.phase = "idle" /\ Fresh.outcome = "none" BY DEF Fresh
  <2> QED BY <2>1 DEF Init, AllOnRecord, OnRecord
<1>2. Inv /\ AllOnRecord /\ [Next]_vars => AllOnRecord'
  <2> SUFFICES ASSUME Inv, AllOnRecord, [Next]_vars PROVE AllOnRecord' OBVIOUS
  <2>1. Growing BY RecordsGrow
  <2>2. ASSUME NEW r \in Runs, Step(r) \/ Crash(r) PROVE AllOnRecord'
    BY <2>1, <2>2, StepOnRecord
  <2>3. CASE UNCHANGED <<run, orders, journal, audit, notices>> BY <2>3 DEF AllOnRecord
  <2> QED BY <2>2, <2>3 DEF Next, Toggle, NextDay, vars
<1> QED BY <1>1, <1>2, Invariance, PTL DEF Spec

-----------------------------------------------------------------------------
(* However firings overlap, one that returns with a decision has left its  *)
(* fingerprint in the journal of the day, its start and its decision in    *)
(* the audit log and, if submitted, its order at the broker.               *)
THEOREM ReturnsOnRecord == Spec => []ReturnedFiringIsOnRecord
<1>1. ASSUME Inv, AllOnRecord PROVE ReturnedFiringIsOnRecord
  <2> SUFFICES ASSUME NEW r \in Runs, run[r].phase = "done", run[r].decision # None
      PROVE  /\ \E row \in journal : row.day = run[r].today /\ row.intent = Fingerprint(r)
             /\ \E e \in audit : e.run = r /\ e.action = "routine_started"
             /\ \E e \in audit :
                  /\ e.run = r /\ e.action = "decision" /\ e.day = run[r].today
                  /\ (run[r].outcome = "submitted" => e.to_state = "submitted")
             /\ run[r].outcome = "submitted" => \E o \in orders : o.id = run[r].order_id
    BY DEF ReturnedFiringIsOnRecord
  <2>1. /\ Rowed(run[r], journal) /\ DecisionAudited(r, run[r], audit)
        /\ run[r].outcome = "submitted" => Sent(run[r], orders)
    BY <1>1 DEF AllOnRecord, OnRecord
  <2>2. StartOf(r) BY <1>1 DEF Inv, Audited, PastTheBlocks
  <2> QED BY <2>1, <2>2 DEF Rowed, DecisionAudited, Sent, StartOf, Fingerprint
<1> QED BY <1>1, Invariance, OnRecordInvariant, PTL

(* A firing that returns or re-raises has posted its outcome, or left it   *)
(* in the dead letters, unless both ways were closed.                      *)
THEOREM OutcomeAnnounced == Spec => []OutcomeIsAnnounced
<1>1. AllOnRecord => OutcomeIsAnnounced
  BY DEF AllOnRecord, OnRecord, Announced, OutcomeIsAnnounced
<1> QED BY <1>1, OnRecordInvariant, PTL

-----------------------------------------------------------------------------
(* With one firing at a time, a step is one of the only firing under way.  *)
LEMMA MoverAlone ==
  ASSUME MaxOverlap = 1, Solo, NEW r \in Runs, Step(r) \/ Crash(r)
  PROVE  \A q \in Runs : q # r => ~Active(q)
<1> DEFINE busy == {q \in Runs : Active(q)}
<1>1. CASE Begin(r)
  <2>1. Cardinality(busy) < 1 BY <1>1 DEF Begin
  <2>2. ASSUME NEW q \in Runs, Active(q) PROVE FALSE
    <3>1. busy = {q} BY <2>2 DEF Solo
    <3>2. Cardinality({q}) = 1 BY FS_Singleton
    <3> HIDE DEF busy
    <3> QED BY <2>1, <3>1, <3>2
  <2> QED BY <2>2
<1>2. CASE ~Begin(r)
  <2>1. Active(r)
    BY <1>2 DEF Active, Ended, Step, Compose, DecideStep, Submit, Record, Crash, Load, LoadFails,
                WriteStartAudit, HarnessStops, Decline, DecideRaises, Authorise, SubmitAnswered,
                SubmitSilent, SubmitFails, JournalCheck, JournalAppend, AuditDecision, WriteFails,
                Notify
  <2> QED BY <2>1 DEF Solo
<1> QED BY <1>1, <1>2

(* Only the look at the journal leads to the append, and only the append   *)
(* writes a row. *)
LEMMA AppendFollowsCheck ==
  ASSUME TypeOK, NEW r \in Runs, Step(r) \/ Crash(r), run'[r].phase = "journal_append"
  PROVE  JournalCheck(r)
<1>1. run[r] \in Process BY DEF TypeOK
<1>2. ASSUME NEW p, Become(r, p), p.phase # "journal_append" PROVE FALSE
  BY <1>2 DEF Become, TypeOK
<1> USE <1>1, <1>2 DEF Process
<1>3. ~Begin(r) BY DEF Begin
<1>4. ~Load(r) BY DEF Load
<1>5. ~Raise(r) BY DEF Raise
<1>6. ~WriteStartAudit(r) BY DEF WriteStartAudit
<1>7. ~HarnessStops(r) BY DEF HarnessStops
<1>8. ~Decline(r) BY DEF Decline
<1>9. ~Authorise(r) BY DEF Authorise
<1>10. ~SubmitAnswered(r) BY DEF SubmitAnswered
<1>11. ~SubmitSilent(r) BY <1>5 DEF SubmitSilent
<1>12. ~JournalAppend(r) BY DEF JournalAppend
<1>13. ~AuditDecision(r) BY DEF AuditDecision
<1>14. ~Notify(r) BY DEF Notify
<1>15. ~Crash(r) BY DEF Crash
<1> QED BY <1>3, <1>4, <1>5, <1>6, <1>7, <1>8, <1>9, <1>10, <1>11, <1>12, <1>13, <1>14, <1>15
        DEF Step, Compose, DecideStep, Submit, Record, LoadFails, DecideRaises, SubmitFails,
            WriteFails

LEMMA OnlyAppendWrites ==
  ASSUME NEW r \in Runs, Step(r) \/ Crash(r) PROVE journal' = journal \/ JournalAppend(r)
BY DEF Step, Compose, DecideStep, Submit, Record, Crash, Begin, Load, LoadFails, WriteStartAudit,
       HarnessStops, Decline, DecideRaises, Authorise, SubmitAnswered, SubmitSilent, SubmitFails,
       JournalCheck, AuditDecision, WriteFails, Notify

Serial == Solo /\ LookedUp /\ OneRowPerFingerprint

LEMMA StepSerial ==
  ASSUME MaxOverlap = 1, TypeOK, Serial, NEW r \in Runs, Step(r) \/ Crash(r)
  PROVE  Serial'
<1>1. \A q \in Runs : q # r => ~Active(q) BY MoverAlone DEF Serial
<1>2. \A q \in Runs : q # r => run'[q] = run[q]
  <2>1. \E p : Become(r, p)
    BY DEF Step, Compose, DecideStep, Submit, Record, Crash, Begin, Load, LoadFails,
           WriteStartAudit, HarnessStops, Decline, DecideRaises, Authorise, SubmitAnswered,
           SubmitSilent, SubmitFails, JournalCheck, JournalAppend, AuditDecision, WriteFails,
           Notify, Raise
  <2> QED BY <2>1 DEF Become, TypeOK
<1>3. \A q \in Runs : q # r => run'[q].phase \in {"idle"} \cup Ended
  BY <1>1, <1>2 DEF Active
<1>4. Solo' BY <1>3 DEF Solo, Active
<1>5. LookedUp'
  <2> SUFFICES ASSUME NEW q \in Runs, run'[q].phase = "journal_append", ~run'[q].dup
               PROVE  ~Rowed(run'[q], journal')
    BY DEF LookedUp
  <2>1. q = r BY <1>3 DEF Ended
  <2>2. JournalCheck(r) BY <2>1, AppendFollowsCheck
  <2>3. journal' = journal BY <2>2 DEF JournalCheck
  <2>4. PICK today :
          Become(r, [run[r] EXCEPT !.phase = "journal_append", !.today = today,
            !.dup = \E row \in journal : row.day = today /\ row.intent = Fingerprint(r)])
    BY <2>2 DEF JournalCheck
  <2> DEFINE dup == \E row \in journal : row.day = today /\ row.intent = Fingerprint(r)
             p == [run[r] EXCEPT !.phase = "journal_append", !.today = today, !.dup = dup]
  <2>5. Become(r, p) BY <2>4
  <2> HIDE DEF dup
  <2>6. /\ p.today = today /\ p.dup = dup
        /\ p.decision = run[r].decision /\ p.version = run[r].version
    BY DEF TypeOK, Process
  <2> HIDE DEF p
  <2>7. run'[r] = p BY <2>5 DEF Become, TypeOK
  <2>8. ~p.dup BY <2>1, <2>7
  <2>9. ~Rowed(p, journal) BY <2>6, <2>8 DEF dup, Rowed, Fingerprint
  <2> QED BY <2>1, <2>3, <2>7, <2>9
<1>6. OneRowPerFingerprint'
  <2>1. CASE journal' = journal BY <2>1 DEF Serial, OneRowPerFingerprint
  <2>2. CASE JournalAppend(r) /\ journal' # journal
    <3> DEFINE row == [run |-> r, day |-> run[r].today, intent |-> Fingerprint(r),
                       outcome |-> run[r].outcome]
    <3>1. run[r].phase = "journal_append" /\ ~run[r].dup /\ journal' = journal \cup {row}
      BY <2>2 DEF JournalAppend
    <3>2. row.day = run[r].today /\ row.intent = Fingerprint(r) OBVIOUS
    <3> HIDE DEF row
    <3>3. ~\E x \in journal : x.day = row.day /\ x.intent = row.intent
      BY <3>1, <3>2 DEF Serial, LookedUp, Rowed, Fingerprint
    <3> QED BY <3>1, <3>3 DEF Serial, OneRowPerFingerprint
  <2> QED BY <2>1, <2>2, OnlyAppendWrites
<1> QED BY <1>4, <1>5, <1>6 DEF Serial

(* ID-03, where the code keeps it: if firings never overlap, as launchd's  *)
(* own do not, the journal has one row per fingerprint and day, through    *)
(* repeated and crashed firings and midnight.  (Overlapping firings may    *)
(* append twice: append_jsonl_record takes no lock.)                       *)
THEOREM SerialJournal ==
  ASSUME MaxOverlap = 1 PROVE Spec => []OneRowPerFingerprint
<1>1. Init => Serial
  <2>1. Fresh.phase = "idle" BY DEF Fresh
  <2> QED BY <2>1 DEF Init, Serial, Solo, Active, LookedUp, OneRowPerFingerprint
<1>2. TypeOK /\ Serial /\ [Next]_vars => Serial'
  <2> SUFFICES ASSUME TypeOK, Serial, [Next]_vars PROVE Serial' OBVIOUS
  <2>1. ASSUME NEW r \in Runs, Step(r) \/ Crash(r) PROVE Serial' BY <2>1, StepSerial
  <2>2. CASE UNCHANGED <<run, journal>>
    BY <2>2 DEF Serial, Solo, Active, LookedUp, OneRowPerFingerprint
  <2> QED BY <2>1, <2>2 DEF Next, Toggle, NextDay, vars
<1>3. Serial => OneRowPerFingerprint BY DEF Serial
<1> QED BY <1>1, <1>2, <1>3, TypeCorrect, PTL DEF Spec
=============================================================================
