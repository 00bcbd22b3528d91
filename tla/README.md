# Verification of the Darkhorse trading post

TLA+ models, TLC runs and TLAPS proofs for the paper-trading routines under
`src/src/darkhorse`: how one firing of the market-open routine turns a kill switch, an
account snapshot and an LLM session into at most one order at Alpaca, and what
the journal, the audit log and Discord know of it afterwards; and, around it, the
files those records live in, the posture and the universe a firing is composed from,
the data the session reads, and the scripts that put a release on the host.

## 1. Inventory

| Component | Source (`src/src/darkhorse/`) | State it keeps | Operations | What makes it correct |
|---|---|---|---|---|
| Order gate | `risk/validate_order.py` | none: a pure function of an order and a context | `validate_order`, single-name caps, PDT rules | rules neither shadow nor excuse one another; a held position can always be sold unless trading is paused; a worse context never opens what a better one refused |
| Market-open routine | `routines/market_open.py`, `routines/envelopes.py` | the local variables of one process | compose, gate, session, route the decision, submit, journal, audit, notify | one order per decision and day; a blocked firing never trades; an order is within the limits of the firing's own snapshot; a firing that returns is on record |
| Composition | `routines/composition.py` | a snapshot, built once | kill switch, asset list, broker reads, drawdown and daily-loss flags, context | one snapshot decides the whole firing; failures end it before it trades; a loss on the books reaches the gate; composition and gate agree on what is blocked |
| Kill switch | `risk/kill_switch.py` | kill file, environment variable, remote endpoint (read only) | `evaluate_kill_switch` | fails closed |
| Drawdown, wind-down | `risk/drawdown.py`, `risk/wind_down.py` | none: the caller keeps the high-water marks | thresholds and halts | a halt does not lift while the loss grows |
| Sizing helpers | `risk/sizing.py` | none | called by tests only | - |
| Broker client | `tools/alpaca.py` | the live orders, at the broker | account, positions, submit, cancel; bounded retries | a lost reply does not become a second order |
| Idempotency | `idempotency.py` | none | `client_order_id`, `intent_hash` | equal intents of a day, and only those, share an id |
| Decision journal, calibration log | `journal.py`, `calibration.py` | one JSONL file per day | scan for the key, append | one row per fingerprint; nothing taken is missing; what a cut write costs is bounded |
| Audit log | `audit.py`, `routines/envelopes.py` | one JSONL file per day | append without a key | ahead of the broker at the start, behind it at the decision |
| Notifications | `notify.py` | the dead-letter file | post with retries, else dead letter | an outcome is announced, and a failing notification never fails a firing |
| LLM harness | `harness.py` | messages, costs, tool log of a session | tool loop, retries, cost cap, dispatch, risk manager | within budget, well-formed conversation, the last thing said is what is decided on, ends |
| Asset list | `tools/assets.py` | one JSON file per day | refresh in place, load the latest | a list that is missing or torn stops a firing instead of an older one being used |
| Market data, news | `tools/data.py`, `tools/news.py` | none | provider fallback, staleness, universe filter | an answer or an error, never a stale mixture; no symbol outside the universe |
| Settings, contracts, schemas | `config.py`, `tools/_contracts.py`, `schemas/*.py` | none | parse, validate | precedence of sources |
| Deployment | `src/scripts/deploy.sh`, `rollback.sh` | on the host: checkout, environment, `.deploy-sha`, `.deploy-sha.prev`, services | deploy, roll back | whatever broke off before, only installed releases are started or gone back to; rollback is repeatable |

**Interactions.** launchd, or a person, starts a process. It reads the kill
signals, the asset list and the broker in that order; appends the start event to
the audit log; when blocked appends a NO_TRADE row and posts; otherwise it holds
one LLM session (researcher with tools, then the risk manager), routes the
answer through five tests and the order gate, POSTs an order with a
deterministic id, appends to the journal and to the audit log, and posts to
Discord. Files are the only state that outlives a process, and no file is
locked. The broker is the only party that arbitrates between two processes.

**Hard behaviours.** Two processes at once (a manual firing during the scheduled
one) with unlocked check-then-append; a process dying between the broker's
acceptance and the journal row; a lost reply answered by a retry; UTC midnight
between the order id and the journal; a kill signal raised after it was read;
deduplication that mistakes two different decisions for one; a cost cap tested
after the call that breaks it; retries nested in a bounded loop. `PROJECT.json`
lists each at its line with the properties that watch it.

## 2. Plan

Order of the work: what can lose or double an order first.

| Module | Models | State |
|---|---|---|
| `ValidateOrder` | `validate_order` as operators over order and context records | done |
| `GateDrift` | orders judged while contexts change between two decisions | done, proved about |
| `RoutineContract` | abstract: a key is committed to, then booked at most once | done, its promises proved |
| `MarketOpen` | the routine, processes interleaved, with faults; composes `ValidateOrder`; implements `RoutineContract` | done, proved about |
| `Harness` | one LLM session | done, proved about |
| `RecordStore` | abstract: which keys have a row, and how the last write ended | done |
| `Ledger` | lines of one file, torn and glued writes, concurrent writers; implements `RecordStore` | done, proved about |
| `Posture` | drawdown, wind-down and daily-loss rules as operators, on top of `ValidateOrder` | done |
| `AssetList` | lists refreshed in place, latest-file choice | done |
| `Desk` | compositions from moving equities and lists; composes `Posture` and `AssetList` | done, proved about |
| `Feeds` | provider fallback and filters as operators, composed into `Harness` | done, proved about there |
| `Deployment` | the two scripts against the host | done, proved about |
| `Delivery` | retries inside one notification, late answers, the dead-letter file | done, proved about |
| `Portfolio` | positions and deployed capital across firings, for the one-order caps | left |

Every safety property a passing run checks is also proved (section 5). Left to prove:
consequences of `RecordStore` for its own states, and the order caps over a `Portfolio`
once that is modelled.

## 3. The modules and the code

**`ValidateOrder`** is `validate_order` rule by rule. `Objections` is the set of
rule ids that object, `Precedence` the order in which the Python function collects
them, and `ValidationResult` the first of them. The early returns inside the halt
checks only cut objections that an earlier one outranks, so the set keeps them. A context record has the fields of `ValidationContext`, optional ones
being `None` when unknown, which skips their rule as in the code. Money is in
integer cents and percentages are whole, so `Quantize` rounds a product of cents
and percent the way `quantize` does to two decimals.

**`GateDrift`** puts the gate in time: `Drift` replaces the context by any other,
since every decision derives its own, and `Enter` fills a buy that passed.
`AtLeastAsStrict` compares two contexts field by field. `MCGateDrift`
supplies 52 orders around each threshold and the contexts.

**`MarketOpen`** gives each firing a record `run[r]`: its `phase`, the snapshot
it took (kill signals, remote reply, account), its decision, order id, retry
count, journal date, dedupe answer and outcome. Shared variables are the broker's
orders, the journal, the audit log, the notices, the operator's kill signals and the
UTC date. One action is a stretch of code between two effects someone else can see:

| Action | Code |
|---|---|
| `Begin`, `Load`, `LoadFails` | `compose_routine_snapshot`: kill switch, then asset list, account, positions |
| `WriteStartAudit` | `_write_envelope_records`, and the blocked branch's row when trading is blocked |
| `HarnessStops`, `Decline`, `DecideRaises`, `Authorise` | the session and the tests of `run_market_open`, in their order (`Route`) |
| `SubmitAnswered`, `SubmitSilent`, `SubmitFails` | `submit_order` and `_request_with_retries`; the broker may have booked the order in each |
| `JournalCheck`, `JournalAppend` | the two halves of `append_jsonl_record`, which takes no lock |
| `AuditDecision`, `WriteFails` | the decision event; any failing write |
| `Notify` | `_notify_safe` in one step: Discord, the dead letters, both after a doubtful POST, or neither |
| `Crash`, `Toggle`, `NextDay` | environment: a killed process, the operator, UTC midnight |

`RoutineContract` knows neither journal nor gate: a firing is idle, open,
declined, committed, settled or closed, and commits to one key. `Contract` in
`MarketOpen` maps the phases to it.

**`Harness`** is one session: messages as a sequence of turns with their tool
blocks, the two roles' costs, the tool log, retries of a call, the dispatch
of `execute_tool_call` (`Outputs`: five names have a branch, every other an error), the text
that goes to the risk manager (`TextFromMessages` is `_extract_text_from_messages`,
which goes back past responses without a text), and in `served` what the last tool handed over, as
**`Feeds`** computes it: each provider's reply is data, an error the tool catches
(`fails`) or one it does not (`breaks`, a price that is no decimal, say), and
`Fallback`, `Converted`, `WholeBars`, `YahooBars`, `Output` are the steps of `data.py` and
`news.py` between the reply and the answer. `AllowedSymbols` is always a set: the
session passes one, so the `None` that accepts every symbol does not occur.

**`Ledger`** is one day's file as a sequence of lines, a line being the key of its
row, `None` for a row that is not deduplicated, or the way in which it is damaged.
A call is a `Scan`, which answers, raises, or goes on to append, and then one of
`WriteLine`, `Tear`, `GiveUp` (`append_jsonl_record`, before and after line 37). A cut write
leaves `ended` FALSE and the next row is glued to what it left. `seen`, `torn`
and `acked` are history variables for the properties. **`RecordStore`** is what
remains with the lines hidden: `Store` maps the rows to the set of recorded keys.

**`Posture`**, **`AssetList`** and **`Desk`** are `risk/drawdown.py` and `risk/wind_down.py`,
`tools/assets.py`, and `compose_routine_snapshot` between them:

| Action | Code |
|---|---|
| `MarkToMarket` | a caller that keeps `DrawdownState` with `next_high_water_mark` |
| `RefreshStarts`, `RefreshEnds`, `RefreshDies` | `refresh_asset_list`: `write_text` truncates, then writes, then closes |
| `Compose` | `compose_routine_snapshot` to the snapshot; fed with the caller's state or, as `market_open` does, with none |
| `FiringEnds` | the end of the firing, or the return of `run_market_open_snapshot` |

`Context` is the `ValidationContext` of a snapshot and is judged by the operators of
`ValidateOrder`, so the properties speak of the gate's verdict and not of flags.

**`Deployment`** has one action per remote command of `deploy.sh` and `rollback.sh`, in
the order `Commands` lists. A command succeeds, or the script ends there (`set -e`)
with the command's effect present, absent or half present (`None` in the field).
`Save` is the exception: its `|| true` hides a failure, so the script goes on with the way
back saved, emptied, or still the one of an earlier deployment.

**`Delivery`** is one notification of `_notify_safe`, which `MarketOpen` has in one step:
`Send`, `NoAnswer` (`_retryable_http`), `Answered` (`raise_for_status`), `DeadLetter`.
Discord and the network are the other side (`Arrives`, `Lost`): a POST may arrive
after its process has stopped waiting or died, and its answer may be good,
a refusal, a 5xx or unreadable. `doubtful` remembers the POSTs the process
cannot know the fate of.

`MCMarketOpen`, `MCHarness`, `MCDesk` hold the finite decisions, accounts and tool
requests; the `.cfg` files the sizes. Definitions headed "faulty variants" are
plausible errors: `PROJECT.json` pairs each with the property that detects it
when it replaces the definition it is a variant of.

**What the abstraction assumes.** SHA-256 digests do not collide, so ids and
fingerprints are the tuples they digest. Tickers have no surrounding whitespace;
`Upper` is `str.upper()` on those the model may emit. `MalformedPrice` stands
for every limit price `Decimal()` rejects or that is not finite. Broker GETs
and their retries are one step that succeeds or ends the process. A broker
books an order id once: a second POST with it answers with the original order
or with a 4xx. The routine passes no `drawdown_state`, so the drawdown,
uncle and wind-down flags and the trade counter of its context are constants,
as they are in the program. The Anthropic SDK's own retries belong to the
environment. The gate runs a second time inside `submit_order`, on the same
order and context, and so answers the same. In `Ledger` a row and its newline are
handed to the file in one write, as rows are smaller than the text buffer; a block of decoded
text may reach past a match, so a scan of a file with undecodable bytes may raise even if the row is there. In `Desk` one
asset refresh runs at a time, the UTC date does not go back, and ratios of
decimals are compared by cross-multiplication. In `Deployment` one script runs at a
time and its remote command does not outlive the ssh that started it; a marker file is
written whole or left empty, as a SHA is one small write.

## 4. What TLC checks

| Run | Bounds | Shows |
|---|---|---|
| `gate` (`GateDrift.cfg`) | 52 orders; every context with at most two adverse conditions | `StricterNeverOpens`, `ExitStaysOpen`, `ExceptionsWaiveOnlyTheirRules`, `HaltIsNeverDeferred` |
| `serial` | 2 firings one after the other, 2 days, 7 decisions, 3 accounts, dry or live, 3 attempts, all faults but a lost dead letter (2.6 million states) | the routine's safety, `DecisionsAreFinal`, and `ImplementsContract` |
| `overlap` | 2 firings at once, 2 days, 6 decisions, the operator toggling the kill file, 2 attempts, lost replies, Discord and dead letters failing, crashes | what still holds without any lock, and `EveryFiringEnds` |
| `harness` | 3 tool iterations, 3 attempts per call, costs 1 or 2 against a cap of 4, two tools per turn; every pair of provider replies out of failing, breaking, fresh, stale, incomplete | the session's safety, `ResearchIsLastSaid`: no later text is passed over, and an earlier turn's counts only when the loop ran out; `MarketDataIsHonest`, `NewsStaysInUniverse` and `EverySessionEnds` |
| `ledger` (`Ledger.cfg`, module `Ledger`) | 2 writers, 2 keys and unkeyed rows, 3 lines (539 thousand states) | `DuplicatesOverlap`: only overlapping calls write a key twice, whatever crashed before; `LossIsBounded`: an acknowledged row is lost only to a cut write before it on its own line, one per line; `CrashSparesEntries`; `ImplementsRecordStore` |
| `deployment` | 3 releases, any number of scripts, every command breaking off, the save failing unnoticed (79 thousand states) | `OnlyInstalledReleases`, `WholeScriptsAgree`, `RollbackIsRepeatable` (`rollback.sh:6`) |
| `desk` (`Desk.cfg`) | Core at 75, 85 and 100, Satellite at 20 and 100, 2 days, 3 markets, 7 performances, fed or not (371 thousand states) | `LossesStopBuys` and `HaltLiftsOnlyOnRecovery`: a loss reaches the gate's verdict and a halt holds until Core recovers; `BlocksAgree`: composition and gate agree on what is blocked; `NoStaleUniverse`: a torn list is never replaced by an older one |

`Delivery.cfg` is not one of the runs listed in `PROJECT.json`. It can be run by hand
(`tlc -config Delivery.cfg Delivery`) and checks `KeptOrHeard`, `CopiesNeedSilence`,
`LettersAreEarned` and `EveryCallEnds` of a notification; what is relied on of it are the
theorems of section 5, which prove the first three.

Five more runs check a statement of a document or docstring of the repository and find a
behaviour of the code that breaks it:

| Run | Statement | What the code does |
|---|---|---|
| `unreconciled` | `plans/riskMitigation.md`: the next routine reconciles positions before any new order | positions are only counted and no earlier journal is read; after a lost reply or a crash the next firing books another order beside one no row knows of |
| `row_withheld` | `plans/dataSchema.md`: one journal line per decision | the fingerprint leaves out the market-order exception and the outcome, so an earlier rejected decision withholds the row of a submitted one |
| `cadence` | `doctrine/risk_policy.md`: three trades per day and sleeve at most | the counter the gate compares is never fed: four firings book four orders |
| `double_fire` | `tests/specs/adversarial.md` E1: two identical submits give a single decision row | the order is single, but both processes pass the unlocked dedupe check and write a row |
| `stale_research` | the docstring at `harness.py:843`: text from the last assistant message | when the loop runs out on a response that only asks for tools, the text of an earlier turn is handed on, written before the tool results that followed it |

**Why the bounds are enough.** Order ids, deduplication and the files relate two
firings at a time, so two firings show every pair; two days give both sides of
midnight; the attempts are those of the code's `(1.0, 3.0)` delays in `serial`
and one less in `overlap`, where the third attempt repeats the second. Amounts sit
on both sides of each threshold: 5000 and 5002 cents against the deployment cap
(the lower of the two caps), 5500 and 5499 cents of buying power against an order
of 5000 with its 500-cent buffer, confidence 69 and 70. The single-name cap (10800
cents) is reached by orders of the `gate` run. The harness's ten iterations
are three in the model: after the first the loop's state differs only in its
length, and the cap of 4 is reached inside the loop, at its end and by
the risk manager. `cadence` takes four firings, one more than the limit.
In `ledger` a duplicate takes two calls of one key, a loss takes a cut write and the row
glued to it, and a third line puts undecodable bytes before, between or after them. In `deployment`
two releases give a way back and a third tells the way back from the one before it;
scripts repeat without bound. In `desk` the equities are a peak of 100 and the exact
thresholds below it (-15%, -25%, -80%), and as equity returns to any of them the peak stays;
each performance puts one number on one side of its rule; two days
give a list of yesterday to fall back on. Feeds' ages are at the staleness limits (15 and 60 minutes) and a minute over. `Delivery.cfg` takes one
notice and the code's three attempts (3709 states): notices share nothing but the file their letters
are appended to, which `Ledger` models, and the proofs are for any number of them.

**Where a run may stop.** A firing's process and an LLM session end, and the
date is bounded, so deadlock checking is off for `MarketOpen`, `Harness` and `Delivery`: when all
have ended nothing more happens. It is on for `GateDrift`, `Ledger`, `Desk` and `Deployment`, which never stop.

**Fairness.** `FairSpec` asks weak fairness of each firing while it is under way:
every HTTP call has a timeout and a retry bound, so the process keeps
taking steps. Nothing is assumed about when firings begin, about the
operator or about the date, and no particular outcome of a call is fair: a reply may be
lost every time. The harness asks weak fairness of its single thread, `Delivery` of each
process (a POST has a timeout of 10 seconds) and none of the network.

## 5. What is proved

Eight modules hold theorems, checked by TLAPS for all values of the constants that
satisfy the named assumptions of the modules they are about: types of the constants, at
least one attempt, iteration and day, the ranges of the caps, provider replies of the right
shape, `None` and the kinds of damage distinct from other values. Firings, decisions, accounts,
amounts, orders, keys, writers, lines, releases, services, notices, tool requests, provider
replies and conversations have no bound. `MarketOpen`, `Harness` and `Delivery` are proved
about under `Spec`; their runs check `FairSpec`, which implies it.

**The gate** (`GateDrift_proofs`).

- `TighteningNeverOpens` (`StricterNeverOpens`): the gate is monotone. The argument is
  rule by rule: each rule's refusal survives in a stricter context, and an
  order passes when no rule refuses.
- `ExitNeverTrapped` (`ExitStaysOpen`): no cap, drawdown or daily-loss halt or
  buying-power rule bites the sell of what is held, outside the postures `SellsFrozen`
  names. It needs the invariant `Entered`: the order type was accepted on the way in.
- `FlagsWaiveOnlyTheirs` (`ExceptionsWaiveOnlyTheirRules`): each exception
  flag of an order removes the objection it names and no other.
- `HaltsAreFirm` (`HaltIsNeverDeferred`): the first six places of `Precedence` are the
  halt rules (`HaltsComeFirst`), only the halt checks object under one of them
  (`HaltRulesAreTheirs`), so the first objection of a set with a halt is a halt
  (`FirstIsHalt`) and no deferral of a later rule replaces it.

**The routine** (`MarketOpen_proofs`, `MarketOpenContract_proofs`), for any number of
overlapping firings and every combination of faults.

- `Invariance`: the inductive invariant `Inv`. The properties
  are not inductive alone: that two orders of one intent and day are the
  same follows from ids being unique at the broker (`Booked`), each order
  carrying the id its firing fixed, and that id being a digest of the firing's
  own decision and version (`Firing`); that a blocked firing never trades, from
  `Firing`'s clause that a process past the start is not blocked in its own snapshot;
  that an order follows its audit, from `Audited`. `QuietStep` carries most of the induction:
  a step that books nothing and keeps, or first fixes, the order id preserves everything
  about the other firings. Hence `TypeCorrect`, `OneOrder` (`OneOrderPerIntent`),
  `BlockedNeverTrades` (`BlockedFiringNeverTrades`), `OrderIsAudited` (`OrderFollowsItsAudit`).
- `DecisionsStay` (`DecisionsAreFinal`) and `LimitsHold` (`OrdersWithinLimits`): `StepMoves`
  shows that once a firing has decided, no step touches its decision, its order id or the
  snapshot both were judged on. So an order id always stands for a decision that
  `Route` authorised in that snapshot (`AllJudged`), and an order carries the id of its
  firing (`Inv`); what the gate checked then holds of every live order.
- `ContractKept` (`ImplementsContract`): each step of a firing is a step of
  `RoutineContract` or leaves its state alone. One lemma per kind of abstract step
  (`Opens`, `Declines`, `Attempts`, `Closes`, `Unseen`), then one per group of actions.
  Besides `Inv` it needs `LiveSubmits`: a dry run is never at the broker, so the
  firing's key in the contract is the id it posts.
- `PromiseHolds`: the contract keeps its promises, `BookedOnce` and `SettledIsBooked`, and
  through `ContractKept` so does the routine. `Promised` is inductive in the abstract
  machine alone, so this is proved without looking at the routine's actions.
- `ReturnsOnRecord` (`ReturnedFiringIsOnRecord`) and `OutcomeAnnounced`
  (`OutcomeIsAnnounced`): `OnRecord` says for each phase what the firing has left by then
  (its fingerprint's row after the append or when the look-up found one, its decision event after
  the audit, its notice at the end), in terms of sets that only grow (`RecordsGrow`), so no step of
  another firing can undo it.
- `SerialJournal` (`OneRowPerFingerprint`), assuming `MaxOverlap = 1`: then the only firing
  under way is the one that steps (`Solo`, `MoverAlone`), so what it found in the journal is still
  true when it appends (`LookedUp`). The assumption is that of the `serial` run and of a schedule
  without manual firings; without it the property is false, which the `double_fire` run shows.
- `FiringsRunDown`: `StepsLeft` falls with every step of a firing, retries included, and no
  step of another firing raises it; it starts at `MaxAttempts + 8`. This is the part of
  `EveryFiringEnds` that is no matter of fairness.

**Composition** (`Desk_proofs`). `Invariance` says that the latest list file is the last one a refresh
brought to the disk (`LatestIsFetched`), that marks are the peaks of what the sleeve was marked at
(`PeaksTracked`), that a halt in force is remembered with its equity (`HaltRemembered`), and that the
snapshot of a firing under way makes a context the gate is defined on.

- `TypeCorrect`: types, and contexts fit for the gate.
- `BlocksCoincide` (`BlocksAgree`): composition and gate compute the same blocks.
- `LossesReachTheGate` (`LossesStopBuys`): a loss measured from the true peak passes through the tracked
  mark, the flags and the context into a refusal; the percentages are constants, so
  each comparison of products is a step of its own.
- `HaltIsSteady` (`HaltLiftsOnlyOnRecovery`): between halt and lift the mark can only rise, so
  the equity has to.
- `UniverseIsFresh` (`NoStaleUniverse`): a snapshot's symbols are those of the latest file or none.

**The session** (`Harness_proofs`). `Invariance` has for each turn of the conversation who speaks and
that the answers match the requests (`Turns`), for each phase how long the conversation is
(`Standing`), and that the tool log holds a call exactly when it is in an answered turn
or under way (`LogIsExact`). `ConversationHolds` and `LogHolds`
read their properties (`ConversationIsWellFormed`, `ToolLogIsComplete`) off it;
`BudgetIsKept` (`SpendStaysInBudget`) and `TypeCorrect` are clauses of their own.

- `LastSaidResearch` (`ResearchIsLastSaid`): `TextIsLastSaid` shows that the backward walk of
  `_extract_text_from_messages` ends at the last turn with a text, for a conversation of any
  length; it needs `Turns` to know which positions hold the model's responses.
- `PricesAreHonest` (`MarketDataIsHonest`) and `NewsIsInside` (`NewsStaysInUniverse`): whatever a read
  tool hands over is honest (`OutputsAreHonest`), provider by provider and through every fallback, for
  bars and articles of any length. `WholeBars` is a recursive function; that it keeps only whole bars is shown
  by induction on how many were looked at, as the absence of a least counterexample
  (`LeastNumber`).
- `SessionRunsDown`: every step shrinks the triple of turns, phases and calls ahead in
  lexicographic order, the part of `EverySessionEnds` that is no matter of fairness.

**The files** (`Ledger_proofs`).

- `TypeCorrect`, `OnlyOverlapsDuplicate` (`DuplicatesOverlap`), `LossBounded`
  (`LossIsBounded`), `EntriesSpared` (`CrashSparesEntries`). No duplicate can be excluded
  without knowing what a pending scan has read (`ScansHold`: its key is on none of those
  lines, and gluing never adds a key), and no loss can be bounded without knowing that a line
  that lacks its newline is a cut write with no answered row on it (`TailIsTorn`, `AnswersHold`).
  `AfterPut` states once what bytes do to the file, and every write cites it.
- `StoreImplemented` (`ImplementsRecordStore`): the scan of lines answers as a look-up of
  keys would, and a cut write costs the store at most its tail. One lemma per action.

**The host** (`Deployment_proofs`): `TypeCorrect`, `OnlyInstalled` (`OnlyInstalledReleases`), `WholeScripts`
(`WholeScriptsAgree`), `Repeatable` (`RollbackIsRepeatable`). `Progress` says for each place
in either script what the commands before it have established on the host, and nothing about
the way back, which may not have been saved; `AtRest`, that a
host a whole rollback has left agrees with its own way back. A command that breaks off ends
its script, so nothing of `Progress` has to survive it, but `OnlyInstalledReleases` does.

**Notifications** (`Delivery_proofs`): `TypeCorrect`, `NothingVanishes` (`KeptOrHeard`), `OnceUnlessDoubtful`
(`CopiesNeedSilence`), `LettersEarned` (`LettersAreEarned`). The invariant says that every
POST but the last was doubtful (`EarlierPostsHold`), that an answer tells the truth about
the channel because a POST arrives once (`PostsHold`), and why each call ended (`EndsHold`).
`CallsRunDown`: a call has at most `2 * MaxAttempts + 3` steps.

**Model-checked only.** Liveness (`EveryFiringEnds`, `EverySessionEnds`, and `EveryCallEnds` of
`Delivery`): that steps run out is proved, that one under way can always take its next step
and does rests on ENABLED and fairness, outside the prover's reach. And the five
statements of the documents the code does not keep, which TLC refutes.

## 6. Documents and code

Differences met while modelling that have no run of their own; the models follow the code.

- `plans/decisions/0003-memory-architecture.md:48`: partial writes are recoverable. The row after a partial
  write is glued to it (`journal.py:39`) and lost although its call returned True;
  `LossIsBounded` is the exact extent. A cut inside a multi-byte character also makes every
  scan of that day that reaches it raise.
- `config.py:22`: the docstring puts the process environment above `.env` above
  `settings.toml`; `settings_customise_sources` (`config.py:68`) returns them the other way round, so `settings.toml` wins.
- `doctrine/risk_policy.md:43`: a drawdown halt stays frozen until a manual unfreeze; the
  halt is computed afresh from mark and equity and lifts by itself once equity is back above the
  threshold (`HaltLiftsOnlyOnRecovery` is what does hold).
- `doctrine/risk_policy.md:54`: a Satellite uncle leaves Core unaffected; `composition.py:293` blocks
  every firing on it, and a Core halt blocks Satellite firings (`BlocksAgree` is stated over what the code does).
- The soft wind-down ends at a return of -10% and the drawdown halt begins at -15%; hard
  wind-down is computed by nothing. Several settings (`drawdown_halt_pct_core`, the monthly
  cap, the review age) and the kill switch's stale-review pause are used by nothing.
- `plans/glossary.md:115`: a dead letter is stored for retry. Nothing reads the file again.
- `plans/decisions/0011-observability.md:43`: three attempts, and a dead letter on permanent failure.
  A rate limit (429) is a 4xx and becomes a dead letter at the first answer (`notify.py:19`), and the
  waits are 1 and 2 s, not 1/3/9.
- `risk/validate_order.py:117`: the phase cap is on the "total Core notional already deployed + this
  order"; line 333 compares the one order, as `settings.toml:20` says ("per order"), so two firings can deploy twice the cap.
- `docs/architecture.md:326`: any failing step is posted to Discord. Only the session is wrapped:
  when `submit_order` (`market_open.py:276`), the journal or the audit write raises, nothing is posted and
  nothing dead-lettered. `OutcomeIsAnnounced` is stated for the paths that do announce.
- `deploy.sh:39`: the deploy marker is saved as the previous SHA for rollback. `|| true` in line 40 lets
  the deployment succeed when it is not: the way back is then missing or that of an earlier deployment, so
  `WholeScriptsAgree` says nothing of it.
- `deploy.sh:44`: a service that fails to restart is reported as not found and the deployment succeeds.

## 7. Not modelled

- Sizing helpers (`risk/sizing.py`): called by tests only. The positions and capital already
  deployed across firings: no code keeps them, so the caps are per order.
- `evaluate_kill_switch`'s stale-review pause and monthly cap, and `cancel_order`:
  called by nothing.
- Settings are read once and are constants of the models. `run_market_open.sh` starts one
  process; firings of `MarketOpen` begin at any time.
- Tool contracts and record schemas are declarations; their fields appear as
  record sets. Cassettes are test support. Evaluation, learning and the web package are empty.
- Prompt texts, model answers' wording, logging and Discord's layout.
