------------------------------- MODULE Harness -------------------------------
(***************************************************************************)
(* One LLM session (harness.py): the researcher's tool loop, then a single *)
(* structured answer of the risk manager, both against the Anthropic API   *)
(* and under one cost cap.  The session keeps nothing on disk.             *)
(*                                                                         *)
(* A text is known by the iteration that produced it, a tool_use block by  *)
(* its iteration and position, and a cost by its amount.                   *)
(***************************************************************************)
EXTENDS Feeds

CONSTANTS
  MaxToolIterations,  \* _MAX_TOOL_ITERATIONS
  MaxAttempts,        \* stop_after_attempt of _create_message
  Cap,                \* routine_cost_cap_usd
  CallCosts,          \* what one answered call may cost
  ToolRequests,       \* the tool names one response may ask for, in order
  ApiFaults,          \* which ways of failing the API has: "busy", "fatal"
  NoText,             \* the empty string
  AllowedSymbols,     \* the universe the routine hands to the session
  Queries,            \* the symbols a news search may name
  QuoteReplies, BarReplies, NewsReplies  \* what each provider may reply

ASSUME SessionAssumption ==
  /\ MaxToolIterations \in Nat \ {0} /\ MaxAttempts \in Nat \ {0}
  /\ Cap \in Nat /\ CallCosts \subseteq Nat
  /\ ToolRequests \subseteq Seq(STRING)
  /\ ApiFaults \subseteq {"busy", "fatal"}
  /\ NoText \notin Nat
  /\ \A p \in {"finnhub", "yfinance"} :
       QuoteReplies[p] \cup BarReplies[p] \subseteq MarketReply(p)
  /\ \A p \in {"sonar", "tavily"} :
       NewsReplies[p] \subseteq NewsReply(AllowedSymbols \cup UNION Queries)

VARIABLES
  phase,       \* research, tools, decide; decided, cost_cap or failed at the end
  iteration,   \* of the researcher's loop
  attempt,     \* of the current API call
  spent,       \* total_cost.usd
  messages,    \* the researcher's conversation
  results,     \* outcomes of the tool calls of the current response
  tools_used,  \* the log of tool calls
  served,      \* what the latest tool call of the current response returned
  research     \* research_text

vars == <<phase, iteration, attempt, spent, messages, results, tools_used, served, research>>

Ended == {"decided", "cost_cap", "failed"}
Texts == 1..MaxToolIterations \cup {NoText}

NothingServed == [kind |-> "nothing"]

-----------------------------------------------------------------------------
(* Faulty variants of definitions below; no specification uses them. *)

BusyCall(next) ==
  /\ "busy" \in ApiFaults /\ phase \in {"research", "decide"}
  /\ attempt' = next
  /\ UNCHANGED <<phase, iteration, spent, messages, results, tools_used, served, research>>

RetryOnceTooOften == BusyCall(attempt + 1)

AttemptsStartOver == BusyCall(IF attempt < MaxAttempts THEN attempt + 1 ELSE 1)

FailedCallsNotLogged ==
  /\ phase = "tools"
  /\ LET k == Len(results) + 1
     IN  /\ k <= Len(messages[Len(messages)].blocks)
         /\ \/ /\ results' = Append(results, [id |-> <<iteration, k>>, outcome |-> "output"])
               /\ tools_used' = Append(tools_used, <<iteration, k>>)
            \/ /\ results' = Append(results, [id |-> <<iteration, k>>, outcome |-> "error"])
               /\ UNCHANGED tools_used
  /\ UNCHANGED <<phase, iteration, attempt, spent, messages, served, research>>

OutputsOnlyReturned ==
  /\ phase = "tools" /\ Len(results) = Len(messages[Len(messages)].blocks)
  /\ messages' = Append(messages,
       [role |-> "user", answers |-> SelectSeq(results, LAMBDA x : x.outcome = "output")])
  /\ IF iteration < MaxToolIterations
     THEN iteration' = iteration + 1 /\ phase' = "research" /\ UNCHANGED research
     ELSE phase' = "decide" /\ research' = NoText /\ UNCHANGED iteration
  /\ results' = <<>> /\ served' = NothingServed
  /\ UNCHANGED <<attempt, spent, tools_used>>

FirstTextFound ==
  LET spoken == {i \in DOMAIN messages :
                   messages[i].role = "assistant" /\ messages[i].text # NoText}
  IN  IF spoken = {} THEN NoText
      ELSE messages[CHOOSE i \in spoken : \A j \in spoken : i <= j].text

RiskManagerCostAlone ==
  /\ phase = "decide"
  /\ \E cost \in CallCosts : cost <= Cap /\ spent' = spent + cost
  /\ phase' \in {"decided", "failed"}
  /\ UNCHANGED <<iteration, attempt, messages, results, tools_used, served, research>>

-----------------------------------------------------------------------------
(* _contract_tool_name turns the first underscore only into a dot. *)
ContractName(api) ==
  CASE api = "data_quote"          -> "data.quote"
    [] api = "data_bars"           -> "data.bars"
    [] api = "news_search"         -> "news.search"
    [] api = "alpaca_account"      -> "alpaca.account"
    [] api = "alpaca_positions"    -> "alpaca.positions"
    [] api = "alpaca_submit_order" -> "alpaca.submit_order"
    [] api = "alpaca.submit_order" -> "alpaca.submit.order"
    [] api = "assets_refresh"      -> "assets.refresh"
    [] OTHER                       -> api

User(answers)           == [role |-> "user", answers |-> answers]
Assistant(text, blocks) == [role |-> "assistant", text |-> text, blocks |-> blocks]

Init ==
  /\ phase = "research" /\ iteration = 1 /\ attempt = 1 /\ spent = 0
  /\ messages = <<User(<<>>)>> /\ results = <<>> /\ tools_used = <<>>
  /\ served = NothingServed /\ research = NoText

-----------------------------------------------------------------------------
(* _create_message: a rate limit or a server error is tried again. *)
CallBusy ==
  /\ "busy" \in ApiFaults /\ phase \in {"research", "decide"}
  /\ IF attempt < MaxAttempts
     THEN attempt' = attempt + 1 /\ UNCHANGED phase
     ELSE phase' = "failed" /\ UNCHANGED attempt
  /\ UNCHANGED <<iteration, spent, messages, results, tools_used, served, research>>

(* Any other failure of the API is raised at once. *)
CallFatal ==
  /\ "fatal" \in ApiFaults /\ phase \in {"research", "decide"}
  /\ phase' = "failed"
  /\ UNCHANGED <<iteration, attempt, spent, messages, results, tools_used, served, research>>

(* A response is paid for before it is looked at. *)
Pay(cost) == spent' = spent + cost

CostCapExceeded ==
  /\ phase \in {"research", "decide"}
  /\ \E cost \in CallCosts : Pay(cost) /\ spent' > Cap
  /\ phase' = "cost_cap"
  /\ UNCHANGED <<iteration, attempt, messages, results, tools_used, served, research>>

(* The researcher's response, within the cap: it joins the conversation,   *)
(* and its stop reason decides what comes next.                            *)
ResearcherAnswers(text, blocks) ==
  /\ phase = "research"
  /\ \E cost \in CallCosts : Pay(cost) /\ spent' <= Cap
  /\ messages' = Append(messages, Assistant(text, blocks))
  /\ attempt' = 1 /\ results' = <<>>
  /\ UNCHANGED <<iteration, tools_used, served>>

EndTurn ==
  \E text \in {iteration, NoText} :
    /\ ResearcherAnswers(text, <<>>)
    /\ phase' = "decide" /\ research' = text

AsksForTools ==
  \E text \in {iteration, NoText}, blocks \in ToolRequests :
    /\ ResearcherAnswers(text, blocks)
    /\ phase' = "tools" /\ UNCHANGED research

(* Any other stop reason, such as max_tokens, is an error. *)
UnexpectedStop ==
  \E text \in {iteration, NoText}, blocks \in ToolRequests \cup {<<>>} :
    /\ ResearcherAnswers(text, blocks)
    /\ phase' = "failed" /\ UNCHANGED research

LastBlocks == messages[Len(messages)].blocks

(* What the dispatch may return, whichever providers reply how.  The       *)
(* broker's account and positions either come or do not; a contract that   *)
(* has no branch of its own, an order's for one, is an error.              *)
Outputs(contract) ==
  LET q(p) == QuoteReplies[p]   b(p) == BarReplies[p]   n(p) == NewsReplies[p]
  IN  CASE contract = "data.quote" ->
             {FetchQuote(prefer, f, y) :
                prefer \in BOOLEAN, f \in q("finnhub"), y \in q("yfinance")}
        [] contract = "data.bars" ->
             {FetchBars(prefer, f, y) :
                prefer \in BOOLEAN, f \in b("finnhub"), y \in b("yfinance")}
        [] contract = "news.search" ->
             {SearchNews(prefer, query, s, t, AllowedSymbols) :
                prefer \in BOOLEAN, query \in Queries, s \in n("sonar"), t \in n("tavily")}
        [] contract \in {"alpaca.account", "alpaca.positions"} ->
             {[kind |-> "data"], Raised("fails")}
        [] OTHER -> {Raised("fails")}

Answered(k, output) ==
  /\ results' = Append(results, [id |-> <<iteration, k>>,
                                 outcome |-> IF output.kind = "data" THEN "output" ELSE "error"])
  /\ served' = output

(* execute_tool_call on the next block, whatever name it gives: any input  *)
(* may also turn out invalid, which is answered with an error object.      *)
ExecuteTool ==
  /\ phase = "tools" /\ Len(results) < Len(LastBlocks)
  /\ LET k == Len(results) + 1
     IN  /\ \E output \in Outputs(ContractName(LastBlocks[k])) \cup {Raised("fails")} :
              Answered(k, output)
         /\ tools_used' = Append(tools_used, <<iteration, k>>)
  /\ UNCHANGED <<phase, iteration, attempt, spent, messages, research>>

(* _extract_text_from_messages goes back through the conversation to the   *)
(* first response that has a text: one with tool_use blocks only is passed *)
(* over, and an earlier turn's text is as good.                            *)
TextFromMessages ==
  LET spoken == {i \in DOMAIN messages :
                   messages[i].role = "assistant" /\ messages[i].text # NoText}
  IN  IF spoken = {} THEN NoText
      ELSE messages[CHOOSE i \in spoken : \A j \in spoken : j <= i].text

(* The results go back in one user message; after the last iteration the   *)
(* loop falls out with whatever text the conversation has.                 *)
ReturnResults ==
  /\ phase = "tools" /\ Len(results) = Len(LastBlocks)
  /\ messages' = Append(messages, User(results))
  /\ IF iteration < MaxToolIterations
     THEN iteration' = iteration + 1 /\ phase' = "research" /\ UNCHANGED research
     ELSE phase' = "decide" /\ research' = TextFromMessages /\ UNCHANGED iteration
  /\ results' = <<>> /\ served' = NothingServed
  /\ UNCHANGED <<attempt, spent, tools_used>>

(* run_risk_manager: the cost is checked before the answer is parsed. *)
RiskManagerAnswers ==
  /\ phase = "decide"
  /\ \E cost \in CallCosts : Pay(cost) /\ spent' <= Cap
  /\ phase' \in {"decided", "failed"}                  \* the JSON parses, or not
  /\ UNCHANGED <<iteration, attempt, messages, results, tools_used, served, research>>

Next ==
  \/ CallBusy \/ CallFatal \/ CostCapExceeded
  \/ EndTurn \/ AsksForTools \/ UnexpectedStop
  \/ ExecuteTool \/ ReturnResults \/ RiskManagerAnswers

Spec == Init /\ [][Next]_vars

(* Every API and tool call has a timeout, and the loop is sequential. *)
FairSpec == Spec /\ WF_vars(Next)

-----------------------------------------------------------------------------
Message ==
  [role: {"user"},
   answers: Seq([id: (1..MaxToolIterations) \X Nat, outcome: {"output", "error"}])]
  \cup [role: {"assistant"}, text: Texts, blocks: ToolRequests \cup {<<>>}]

TypeOK ==
  /\ phase \in {"research", "tools", "decide"} \cup Ended
  /\ iteration \in 1..MaxToolIterations /\ attempt \in 1..MaxAttempts
  /\ spent \in Nat /\ messages \in Seq(Message)
  /\ results \in Seq([id: (1..MaxToolIterations) \X Nat, outcome: {"output", "error"}])
  /\ tools_used \in Seq((1..MaxToolIterations) \X Nat)
  /\ research \in Texts
  /\ served.kind \in {"nothing", "data", "fails", "breaks"}

(* The cap covers researcher and risk manager together: a session ends at  *)
(* the cap exactly when it has overspent, and then by no more than its     *)
(* last call; until then no call was made, no tool run and no decision     *)
(* taken on money over the cap.                                            *)
SpendStaysInBudget ==
  /\ phase = "cost_cap" <=> spent > Cap
  /\ phase = "cost_cap" => \E cost \in CallCosts : spent - cost <= Cap

(* Whenever the API is called, the conversation alternates, starts and     *)
(* ends with the user, and answers each tool_use block of an assistant     *)
(* message in the next message, in order and once.                         *)
ConversationIsWellFormed ==
  phase = "research" =>
    /\ Len(messages) = 2 * iteration - 1
    /\ \A i \in DOMAIN messages :
         /\ messages[i].role = IF i % 2 = 1 THEN "user" ELSE "assistant"
         /\ messages[i].role = "assistant" =>
              LET answers == messages[i + 1].answers
              IN  /\ Len(answers) = Len(messages[i].blocks)
                  /\ \A k \in DOMAIN answers : answers[k].id = <<i \div 2, k>>

(* The decision record's tool log has every tool call once, failed ones    *)
(* included, and no other: those of the turns already answered and those   *)
(* of the turn under way.                                                  *)
ToolLogIsComplete ==
  LET asked(m)  == {<<m \div 2, k>> : k \in DOMAIN messages[m].blocks}
      answered == UNION {asked(m) : m \in {i \in 2..(Len(messages) - 1) : i % 2 = 0}}
      current  == {results[k].id : k \in DOMAIN results}
  IN  /\ {tools_used[k] : k \in DOMAIN tools_used} = answered \cup current
      /\ \A j, k \in DOMAIN tools_used : tools_used[j] = tools_used[k] => j = k

(* The risk manager decides on the last thing the researcher said.  If the *)
(* model ended its turn, that is its final response, be it empty: nothing  *)
(* of an earlier turn fills in for it.  Only when the loop ran out may the *)
(* text be of an earlier turn, and then no later turn had one to pass over *)
(* (run_researcher, _extract_text_from_messages).                          *)
ResearchIsLastSaid ==
  phase \in {"decide", "decided"} =>
    LET last         == messages[Len(messages)]
        silent(from) == \A t \in from..iteration : messages[2 * t].text = NoText
    IN  IF last.role = "assistant" THEN research = last.text
        ELSE /\ iteration = MaxToolIterations
             /\ IF research = NoText THEN silent(1)
                ELSE messages[2 * research].text = research /\ silent(research + 1)

(* What the docstring of _extract_text_from_messages says (harness.py:843),*)
(* "Extract text from the last assistant message in the conversation":     *)
(* the risk manager never gets the text of an earlier turn.  The code does *)
(* not keep this when the last response asks for tools and says nothing.   *)
ResearchIsLatest ==
  phase \in {"decide", "decided"} =>
    LET last == IF messages[Len(messages)].role = "assistant"
                THEN Len(messages) ELSE Len(messages) - 1
    IN  research = messages[last].text

(* Whichever provider answered in the end, prices are handed over whole    *)
(* and under the name of the provider they came from, and are not marked   *)
(* stale only if the newest bar handed over is recent enough: what a       *)
(* fallback or a filter leaves out cannot vouch for what is left.          *)
MarketDataIsHonest ==
  (served.kind = "data" /\ "bars" \in DOMAIN served) =>
    /\ \A i \in DOMAIN served.bars :
         served.bars[i].whole /\ served.bars[i].from = served.provider
    /\ ~served.is_stale => \E i \in DOMAIN served.bars : served.bars[i].age <= served.limit

(* No article reaches the researcher citing a symbol outside the universe, *)
(* whether it came from the preferred provider, from the fallback, or took *)
(* its symbols from the query; what was cut is reported as rejected.       *)
NewsStaysInUniverse ==
  (served.kind = "data" /\ "cited" \in DOMAIN served) =>
    /\ \A i \in DOMAIN served.cited : served.cited[i] \subseteq AllowedSymbols
    /\ served.rejected \cap AllowedSymbols = {}

(* Retries, tool loop and tools are bounded: every session ends. *)
EverySessionEnds == <>(phase \in Ended)
=============================================================================
