--------------------------- MODULE Harness_proofs ---------------------------
(***************************************************************************)
(* Proofs about the LLM session, for any cap, costs, tool requests and     *)
(* provider replies: what a read tool may hand over, money, the shape of   *)
(* the conversation, the tool log, the text the decision rests on, and     *)
(* that a session runs down.                                               *)
(***************************************************************************)
EXTENDS Harness, TLAPS, WellFoundedInduction

(* Every non-empty set of numbers has a least one: induction over n is the *)
(* absence of a least counterexample.                                      *)
LEMMA LeastNumber ==
  ASSUME NEW S, S \subseteq Nat, S # {}
  PROVE  \E n \in S : \A m \in S : n <= m
<1> DEFINE Less == OpToRel(<, Nat)
<1>1. IsWellFoundedOn(Less, Nat) BY NatLessThanWellFounded
<1>2. Less = {ss \in Nat \X Nat : ss[1] < ss[2]} BY DEF OpToRel
<1> HIDE DEF Less
<1>3. PICK n \in S : \A m \in S : ~(<<m, n>> \in Less) BY <1>1, WFMin
<1>4. ASSUME NEW m \in S PROVE n <= m
  <2>1. <<m, n>> \in Nat \X Nat /\ <<m, n>> \notin {ss \in Nat \X Nat : ss[1] < ss[2]}
    BY <1>2, <1>3
  <2>2. ~(m < n) BY <2>1
  <2> QED BY <2>2
<1> QED BY <1>4

(* The recursion of WholeBars: g keeps the whole ones of the first m bars. *)
Kept(g, bars, n) ==
  IF n = 0 THEN <<>>
  ELSE IF bars[n].whole THEN Append(g[n - 1], bars[n]) ELSE g[n - 1]

KeepsWhole(g, bars, m) == g = [n \in 0..m |-> Kept(g, bars, n)]

(* The recursion has a solution, by induction on how far it goes.          *)
LEMMA WholeBarsDefined ==
  ASSUME NEW bars, NEW len \in Nat
  PROVE  \E g : KeepsWhole(g, bars, len)
<1> DEFINE Unsolved == {m \in Nat : ~\E g : KeepsWhole(g, bars, m)}
<1>1. SUFFICES ASSUME Unsolved # {} PROVE FALSE OBVIOUS
<1>2. PICK m \in Unsolved : \A k \in Unsolved : m <= k
  <2> HIDE DEF Unsolved
  <2>1. Unsolved \subseteq Nat BY DEF Unsolved
  <2> QED BY <1>1, <2>1, LeastNumber
<1>3. m \in Nat /\ ~\E g : KeepsWhole(g, bars, m) OBVIOUS
<1>4. CASE m = 0
  <2> DEFINE g == [n \in 0..0 |-> <<>>]
  <2>1. g = [n \in 0..0 |-> Kept(g, bars, n)] BY DEF Kept
  <2> QED BY <1>3, <1>4, <2>1 DEF KeepsWhole
<1>5. CASE m # 0
  <2>1. m - 1 \in Nat /\ ~(m <= m - 1) BY <1>3, <1>5
  <2>2. PICK g : KeepsWhole(g, bars, m - 1)
    <3>1. m - 1 \notin Unsolved BY <1>2, <2>1
    <3> QED BY <2>1, <3>1
  <2> DEFINE h == [n \in 0..m |-> IF n <= m - 1 THEN g[n] ELSE Kept(g, bars, m)]
  <2>3. ASSUME NEW n \in 0..m PROVE h[n] = Kept(h, bars, n)
    <3>1. n # 0 => h[n - 1] = g[n - 1] BY <1>3
    <3>2. Kept(h, bars, n) = Kept(g, bars, n) BY <3>1 DEF Kept
    <3>3. CASE n <= m - 1
      <4>1. h[n] = g[n] BY <3>3
      <4>2. g[n] = Kept(g, bars, n) BY <1>3, <2>2, <3>3 DEF KeepsWhole
      <4> QED BY <3>2, <4>1, <4>2
    <3>4. CASE ~(n <= m - 1)
      <4>1. n = m BY <1>3, <3>4
      <4>2. h[n] = Kept(g, bars, m) BY <3>4
      <4> QED BY <3>2, <4>1, <4>2
    <3> QED BY <3>3, <3>4
  <2>4. h = [n \in 0..m |-> h[n]] OBVIOUS
  <2> HIDE DEF h
  <2>5. h = [n \in 0..m |-> Kept(h, bars, n)] BY <2>3, <2>4
  <2> QED BY <1>3, <2>5 DEF KeepsWhole
<1> QED BY <1>4, <1>5

(* What is left of a provider's bars is whole and still that provider's,   *)
(* by induction on the number of bars looked at.                           *)
LEMMA WholeBarsAreWhole ==
  ASSUME NEW S, NEW bars \in Seq(S)
  PROVE  WholeBars(bars) \in Seq({b \in S : b.whole})
<1> DEFINE len == Len(bars)
           kept == CHOOSE g : KeepsWhole(g, bars, len)
           Whole == {b \in S : b.whole}
           Bad == {n \in 0..len : kept[n] \notin Seq(Whole)}
<1>1. len \in Nat /\ \A n \in 1..len : bars[n] \in S OBVIOUS
<1>2. WholeBars(bars) = kept[len] BY DEF WholeBars, KeepsWhole, Kept
<1>3. KeepsWhole(kept, bars, len) BY <1>1, WholeBarsDefined
<1> HIDE DEF len, kept
<1>4. \A n \in 0..len : kept[n] = Kept(kept, bars, n) BY <1>3 DEF KeepsWhole
<1>5. Bad = {}
  <2> SUFFICES ASSUME Bad # {} PROVE FALSE OBVIOUS
  <2>1. PICK n \in Bad : \A k \in Bad : n <= k
    <3>1. Bad \subseteq Nat BY <1>1
    <3> HIDE DEF Bad
    <3> QED BY <3>1, LeastNumber
  <2>2. n \in 0..len /\ kept[n] \notin Seq(Whole) OBVIOUS
  <2>3. n # 0
    <3>1. <<>> \in Seq(Whole) OBVIOUS
    <3>2. n = 0 => kept[n] = <<>> BY <1>4, <2>2 DEF Kept
    <3> QED BY <2>2, <3>1, <3>2
  <2>4. n - 1 \in 0..len /\ ~(n <= n - 1) /\ n \in 1..len BY <1>1, <2>2, <2>3
  <2>5. kept[n - 1] \in Seq(Whole) BY <2>1, <2>4
  <2>6. bars[n].whole => bars[n] \in Whole BY <1>1, <2>4
  <2>7. kept[n] = IF bars[n].whole THEN Append(kept[n - 1], bars[n]) ELSE kept[n - 1]
    BY <1>4, <2>2, <2>3 DEF Kept
  <2> HIDE DEF Whole, Bad
  <2> QED BY <2>2, <2>5, <2>6, <2>7
<1>6. len \in 0..len BY <1>1
<1> QED BY <1>2, <1>5, <1>6

-----------------------------------------------------------------------------
(* What a read tool may hand over. *)
HonestBars(output) ==
  (output.kind = "data" /\ "bars" \in DOMAIN output) =>
    /\ \A i \in DOMAIN output.bars :
         output.bars[i].whole /\ output.bars[i].from = output.provider
    /\ ~output.is_stale => \E i \in DOMAIN output.bars : output.bars[i].age <= output.limit

NewsInside(output) ==
  (output.kind = "data" /\ "cited" \in DOMAIN output) =>
    /\ \A i \in DOMAIN output.cited : output.cited[i] \subseteq AllowedSymbols
    /\ output.rejected \cap AllowedSymbols = {}

Honest(output) ==
  /\ output.kind \in {"nothing", "data", "fails", "breaks"}
  /\ HonestBars(output) /\ NewsInside(output)

LEMMA RaisedIsHonest ==
  ASSUME NEW kind \in {"fails", "breaks"} PROVE Honest(Raised(kind))
BY DEF Honest, HonestBars, NewsInside, Raised

(* Whole bars of one provider, dated by the last of them, are honest.      *)
LEMMA AnswerIsHonest ==
  ASSUME NEW provider, NEW bars \in Seq({b \in Bar(provider) : b.whole}), NEW limit \in Nat
  PROVE  Honest(MarketAnswer(provider, bars, limit))
<1> DEFINE answer == MarketAnswer(provider, bars, limit)
<1>1. /\ answer.kind = "data" /\ answer.bars = bars /\ answer.provider = provider
      /\ answer.limit = limit /\ answer.is_stale = Stale(bars, limit)
      /\ "cited" \notin DOMAIN answer
  BY DEF MarketAnswer
<1> HIDE DEF answer
<1>2. ASSUME NEW i \in DOMAIN bars
      PROVE  bars[i].whole /\ bars[i].from = provider /\ bars[i].age \in Nat
  BY DEF Bar
<1>3. ASSUME ~Stale(bars, limit) PROVE \E i \in DOMAIN bars : bars[i].age <= limit
  <2>1. bars # <<>> /\ ~(bars[Len(bars)].age > limit) BY <1>3 DEF Stale
  <2>2. Len(bars) \in DOMAIN bars BY <2>1
  <2> QED BY <1>2, <2>1, <2>2
<1>4. HonestBars(answer) BY <1>1, <1>2, <1>3 DEF HonestBars
<1>5. NewsInside(answer) BY <1>1 DEF NewsInside
<1> QED BY <1>1, <1>4, <1>5 DEF Honest, answer

LEMMA MarketReplyKinds ==
  ASSUME NEW provider, NEW reply \in MarketReply(provider)
  PROVE  \/ reply.kind \in {"fails", "breaks"}
         \/ reply.kind = "data" /\ reply.bars \in Seq(Bar(provider))
BY DEF MarketReply

LEMMA ConvertedIsHonest ==
  ASSUME NEW provider, NEW reply \in MarketReply(provider), NEW limit \in Nat
  PROVE  Honest(Converted(provider, reply, limit))
<1>1. CASE reply.kind # "data"
  BY <1>1, MarketReplyKinds, RaisedIsHonest DEF Converted
<1>2. CASE reply.kind = "data" /\ \E i \in DOMAIN reply.bars : ~reply.bars[i].whole
  BY <1>2, RaisedIsHonest DEF Converted
<1>3. CASE reply.kind = "data" /\ ~\E i \in DOMAIN reply.bars : ~reply.bars[i].whole
  <2>1. reply.bars \in Seq(Bar(provider)) BY <1>3, MarketReplyKinds
  <2>2. reply.bars \in Seq({b \in Bar(provider) : b.whole})
    <3> DEFINE bars == reply.bars
               Whole == {b \in Bar(provider) : b.whole}
    <3>1. \A i \in 1..Len(bars) : bars[i] \in Whole BY <1>3, <2>1
    <3> HIDE DEF Whole, bars
    <3>2. bars \in Seq(Bar(provider)) BY <2>1 DEF bars
    <3> QED BY <3>1, <3>2 DEF Whole, bars
  <2> QED BY <1>3, <2>2, AnswerIsHonest DEF Converted
<1> QED BY <1>1, <1>2, <1>3

LEMMA YahooIsHonest ==
  ASSUME NEW reply \in MarketReply("yfinance"), NEW limit \in Nat
  PROVE  Honest(YahooBars(reply, limit))
<1>1. CASE reply.kind # "data"
  BY <1>1, MarketReplyKinds, RaisedIsHonest DEF YahooBars
<1>2. CASE reply.kind = "data"
  <2>1. reply.bars \in Seq(Bar("yfinance")) BY <1>2, MarketReplyKinds
  <2>2. WholeBars(reply.bars) \in Seq({b \in Bar("yfinance") : b.whole})
    BY <2>1, WholeBarsAreWhole
  <2> QED BY <1>2, <2>2, AnswerIsHonest DEF YahooBars
<1> QED BY <1>1, <1>2

(* Whatever the query and the citations, the cut is made at the end.       *)
LEMMA OutputIsHonest ==
  ASSUME NEW provider, NEW query, NEW cites
  PROVE  Honest(Output(provider, query, cites, AllowedSymbols))
<1> DEFINE output == Output(provider, query, cites, AllowedSymbols)
<1>1. /\ output.kind = "data" /\ "bars" \notin DOMAIN output
      /\ output.cited = [i \in DOMAIN cites |-> cites[i] \cap AllowedSymbols]
      /\ output.rejected = (query \cup UNION {cites[i] : i \in DOMAIN cites}) \ AllowedSymbols
  BY DEF Output
<1> HIDE DEF output
<1>2. \A i \in DOMAIN output.cited : output.cited[i] \subseteq AllowedSymbols BY <1>1
<1>3. output.rejected \cap AllowedSymbols = {} BY <1>1
<1>4. HonestBars(output) BY <1>1 DEF HonestBars
<1>5. NewsInside(output) BY <1>2, <1>3 DEF NewsInside
<1> QED BY <1>1, <1>4, <1>5 DEF Honest, output

LEMMA NewsIsHonest ==
  ASSUME NEW prefer, NEW query, NEW S, NEW sonar \in NewsReply(S), NEW tavily \in NewsReply(S)
  PROVE  Honest(SearchNews(prefer, query, sonar, tavily, AllowedSymbols))
<1>1. ASSUME NEW reply \in NewsReply(S), reply.kind # "data" PROVE Honest(Raised(reply.kind))
  <2>1. reply.kind \in {"fails", "breaks"} BY <1>1 DEF NewsReply
  <2> QED BY <2>1, RaisedIsHonest
<1>2. Honest(SearchSonar(query, sonar, AllowedSymbols))
  BY <1>1, OutputIsHonest DEF SearchSonar
<1>3. Honest(SearchTavily(query, tavily, AllowedSymbols))
  BY <1>1, OutputIsHonest DEF SearchTavily
<1> QED BY <1>2, <1>3 DEF SearchNews, Fallback

(* Whatever tool runs and whichever way the providers reply.               *)
LEMMA OutputsAreHonest ==
  ASSUME NEW contract, NEW output \in Outputs(contract)
  PROVE  Honest(output)
<1>0. QuoteStaleAfter \in Nat /\ BarsStaleAfter \in Nat
  BY DEF QuoteStaleAfter, BarsStaleAfter
<1>1. CASE contract = "data.quote"
  <2>1. PICK prefer \in BOOLEAN, f \in QuoteReplies["finnhub"], y \in QuoteReplies["yfinance"] :
          output = FetchQuote(prefer, f, y)
    BY <1>1 DEF Outputs
  <2>2. f \in MarketReply("finnhub") /\ y \in MarketReply("yfinance")
    BY SessionAssumption
  <2> QED BY <1>0, <2>1, <2>2, ConvertedIsHonest DEF FetchQuote, Fallback
<1>2. CASE contract = "data.bars"
  <2>1. PICK prefer \in BOOLEAN, f \in BarReplies["finnhub"], y \in BarReplies["yfinance"] :
          output = FetchBars(prefer, f, y)
    BY <1>2 DEF Outputs
  <2>2. f \in MarketReply("finnhub") /\ y \in MarketReply("yfinance")
    BY SessionAssumption
  <2> QED BY <1>0, <2>1, <2>2, ConvertedIsHonest, YahooIsHonest DEF FetchBars, Fallback
<1>3. CASE contract = "news.search"
  <2>1. PICK prefer \in BOOLEAN, query \in Queries, s \in NewsReplies["sonar"],
             t \in NewsReplies["tavily"] :
          output = SearchNews(prefer, query, s, t, AllowedSymbols)
    BY <1>3 DEF Outputs
  <2>2. /\ s \in NewsReply(AllowedSymbols \cup UNION Queries)
        /\ t \in NewsReply(AllowedSymbols \cup UNION Queries)
    BY SessionAssumption
  <2> QED BY <2>1, <2>2, NewsIsHonest
<1>4. CASE contract \in {"alpaca.account", "alpaca.positions"}
  <2>1. output = [kind |-> "data"] \/ output = Raised("fails") BY <1>4 DEF Outputs
  <2>2. Honest([kind |-> "data"]) BY DEF Honest, HonestBars, NewsInside
  <2> QED BY <2>1, <2>2, RaisedIsHonest
<1>5. CASE contract \notin {"data.quote", "data.bars", "news.search",
                            "alpaca.account", "alpaca.positions"}
  <2>1. output = Raised("fails") BY <1>5 DEF Outputs
  <2> QED BY <2>1, RaisedIsHonest
<1> QED BY <1>1, <1>2, <1>3, <1>4, <1>5

-----------------------------------------------------------------------------
Answer == [id: (1..MaxToolIterations) \X Nat, outcome: {"output", "error"}]

(* The answers to the blocks of turn t, in order and once. *)
AnswersTo(answers, blocks, t) ==
  /\ Len(answers) = Len(blocks)
  /\ \A k \in 1..Len(answers) : answers[k].id = <<t, k>>

(* Turn t is message 2t - 1 of the user, message 2t of the model, and the  *)
(* answers to that one, as far as the conversation has come.               *)
Turn(t) ==
  /\ 2 * t - 1 <= Len(messages) => messages[2 * t - 1].role = "user"
  /\ 2 * t <= Len(messages) =>
       messages[2 * t].role = "assistant" /\ messages[2 * t].text \in {t, NoText}
  /\ 2 * t + 1 <= Len(messages) =>
       /\ messages[2 * t + 1].role = "user"
       /\ AnswersTo(messages[2 * t + 1].answers, messages[2 * t].blocks, t)

Turns == \A t \in Nat \ {0} : Turn(t)

(* Where the conversation stands in each phase. *)
Standing ==
  /\ phase = "research" => Len(messages) = 2 * iteration - 1
  /\ phase = "tools" =>
       /\ Len(messages) = 2 * iteration
       /\ Len(results) <= Len(LastBlocks)
       /\ \A k \in 1..Len(results) : results[k].id = <<iteration, k>>
  /\ phase # "tools" => results = <<>>
  /\ phase \in {"decide", "decided"} =>
       Len(messages) \in {2 * iteration, 2 * iteration + 1}

(* Tool call k of turn t was asked for in a turn already answered, or has  *)
(* its result in the turn under way. *)
Called(t, k) ==
  \/ t # 0 /\ 2 * t < Len(messages) /\ k \in 1..Len(messages[2 * t].blocks)
  \/ t = iteration /\ k \in 1..Len(results)

LogIsExact ==
  /\ \A t, k \in Nat : (\E j \in 1..Len(tools_used) : tools_used[j] = <<t, k>>) <=> Called(t, k)
  /\ \A i, j \in 1..Len(tools_used) : tools_used[i] = tools_used[j] => i = j

Conversation == Turns /\ Standing /\ LogIsExact

Inv ==
  /\ TypeOK /\ SpendStaysInBudget
  /\ Conversation /\ ResearchIsLastSaid
  /\ Honest(served)

-----------------------------------------------------------------------------
LEMMA InitInv == Init => Inv
<1> SUFFICES ASSUME Init PROVE Inv OBVIOUS
<1>0. /\ MaxToolIterations \in Nat \ {0} /\ MaxAttempts \in Nat \ {0} /\ Cap \in Nat
      /\ NoText \notin Nat
  BY SessionAssumption
<1>1. Len(messages) = 1 /\ messages[1].role = "user" BY DEF Init, User
<1>2. TypeOK
  <2>1. User(<<>>) \in Message BY DEF User, Message
  <2>2. messages \in Seq(Message) BY <2>1 DEF Init
  <2>3. 1 \in 1..MaxToolIterations /\ 1 \in 1..MaxAttempts BY <1>0
  <2> QED BY <2>2, <2>3 DEF Init, TypeOK, NothingServed, Texts
<1>3. SpendStaysInBudget BY <1>0 DEF Init, SpendStaysInBudget
<1>4. Turns
  <2> SUFFICES ASSUME NEW t \in Nat \ {0} PROVE Turn(t) BY DEF Turns
  <2>1. ~(2 * t <= 1) /\ ~(2 * t + 1 <= 1) /\ (2 * t - 1 <= 1 => 2 * t - 1 = 1) OBVIOUS
  <2> QED BY <1>1, <2>1 DEF Turn
<1>5. Standing BY <1>1 DEF Init, Standing
<1>6. LogIsExact
  <2>1. tools_used = <<>> /\ results = <<>> BY DEF Init
  <2>2. \A t, k \in Nat : ~Called(t, k) BY <1>1, <2>1 DEF Called
  <2> QED BY <2>1, <2>2 DEF LogIsExact
<1>7. Honest(served)
  BY DEF Init, NothingServed, Honest, HonestBars, NewsInside
<1>8. ResearchIsLastSaid BY DEF Init, ResearchIsLastSaid
<1> QED BY <1>2, <1>3, <1>4, <1>5, <1>6, <1>7, <1>8 DEF Inv, Conversation

(* A failing or final call leaves the conversation as it is. *)
LEMMA SamePlace ==
  ASSUME Conversation, ResearchIsLastSaid, TypeOK,
         UNCHANGED <<iteration, messages, results, tools_used, research>>,
         phase \in {"research", "decide"},
         \/ phase' = phase
         \/ phase' \in {"failed", "cost_cap"}
         \/ phase = "decide" /\ phase' = "decided"
  PROVE  Conversation' /\ ResearchIsLastSaid'
<1>1. Turns' BY DEF Conversation, Turns, Turn, AnswersTo
<1>2. Standing' BY DEF Conversation, Standing, LastBlocks
<1>3. LogIsExact' BY DEF Conversation, LogIsExact, Called
<1>4. ResearchIsLastSaid' BY DEF ResearchIsLastSaid
<1> QED BY <1>1, <1>2, <1>3, <1>4 DEF Conversation

LEMMA CallsInv ==
  ASSUME Inv, CallBusy \/ CallFatal \/ CostCapExceeded \/ RiskManagerAnswers
  PROVE  Inv'
<1>0. /\ MaxAttempts \in Nat /\ Cap \in Nat /\ CallCosts \subseteq Nat
      /\ TypeOK /\ SpendStaysInBudget /\ Conversation /\ ResearchIsLastSaid
  BY SessionAssumption DEF Inv
<1>1. /\ UNCHANGED <<iteration, messages, results, tools_used, served, research>>
      /\ phase \in {"research", "decide"}
  BY DEF CallBusy, CallFatal, CostCapExceeded, RiskManagerAnswers
<1>2. \/ phase' = phase
      \/ phase' \in {"failed", "cost_cap"}
      \/ phase = "decide" /\ phase' = "decided"
  BY DEF CallBusy, CallFatal, CostCapExceeded, RiskManagerAnswers
<1>3. Conversation' /\ ResearchIsLastSaid' BY <1>0, <1>1, <1>2, SamePlace
<1>4. attempt' \in 1..MaxAttempts
  BY <1>0 DEF CallBusy, CallFatal, CostCapExceeded, RiskManagerAnswers, TypeOK
<1>5. ~(spent > Cap) /\ spent \in Nat BY <1>0, <1>1 DEF SpendStaysInBudget, TypeOK
<1>6. spent' \in Nat /\ SpendStaysInBudget'
  <2>1. CASE CallBusy \/ CallFatal
    BY <1>0, <1>1, <1>5, <2>1 DEF CallBusy, CallFatal, SpendStaysInBudget
  <2>2. CASE CostCapExceeded
    <3>1. PICK cost \in CallCosts : spent' = spent + cost /\ spent' > Cap
      BY <2>2 DEF CostCapExceeded, Pay
    <3>2. spent' \in Nat /\ spent' - cost <= Cap BY <1>0, <1>5, <3>1
    <3> QED BY <2>2, <3>1, <3>2 DEF CostCapExceeded, SpendStaysInBudget
  <2>3. CASE RiskManagerAnswers
    <3>1. PICK cost \in CallCosts : spent' = spent + cost /\ spent' <= Cap
      BY <2>3 DEF RiskManagerAnswers, Pay
    <3>2. spent' \in Nat /\ ~(spent' > Cap) BY <1>0, <1>5, <3>1
    <3> QED BY <2>3, <3>2 DEF RiskManagerAnswers, SpendStaysInBudget
  <2> QED BY <2>1, <2>2, <2>3
<1>7. TypeOK'
  BY <1>0, <1>1, <1>2, <1>4, <1>6 DEF TypeOK, Ended
<1> QED BY <1>1, <1>3, <1>6, <1>7 DEF Inv

-----------------------------------------------------------------------------
(* The model's message of the turn under way joins the conversation. *)
LEMMA ResearcherSpeaks ==
  ASSUME Inv, NEW text \in {iteration, NoText}, NEW blocks \in ToolRequests \cup {<<>>},
         ResearcherAnswers(text, blocks)
  PROVE  /\ messages' \in Seq(Message) /\ Len(messages') = 2 * iteration
         /\ messages'[2 * iteration] = Assistant(text, blocks)
         /\ Turns' /\ LogIsExact'
         /\ spent' \in Nat /\ spent' <= Cap
         /\ attempt' \in 1..MaxAttempts /\ results' = <<>>
         /\ UNCHANGED <<iteration, tools_used, served>>
<1> DEFINE L == Len(messages)
           new == Assistant(text, blocks)
<1>0. /\ TypeOK /\ Turns /\ Standing /\ LogIsExact /\ phase = "research"
      /\ iteration \in 1..MaxToolIterations /\ MaxToolIterations \in Nat
      /\ messages \in Seq(Message) /\ L \in Nat
  BY SessionAssumption DEF Inv, Conversation, TypeOK, ResearcherAnswers
<1>1. L = 2 * iteration - 1 /\ results = <<>> BY <1>0 DEF Standing
<1>2. new \in Message
  BY <1>0 DEF Assistant, Message, Texts
<1>3. messages' = Append(messages, new) /\ results' = <<>> /\ attempt' = 1
      /\ UNCHANGED <<iteration, tools_used, served>>
  BY DEF ResearcherAnswers
<1>4. new.role = "assistant" /\ new.text = text /\ new.blocks = blocks BY DEF Assistant
<1> HIDE DEF new
<1>5. /\ messages' \in Seq(Message) /\ Len(messages') = L + 1
      /\ messages'[L + 1] = new /\ \A i \in 1..L : messages'[i] = messages[i]
  BY <1>0, <1>2, <1>3
<1> HIDE DEF L
<1>6. Turns'
  <2> SUFFICES ASSUME NEW t \in Nat \ {0} PROVE Turn(t)' BY DEF Turns
  <2>1. Turn(t) BY <1>0 DEF Turns
  <2>2. CASE t < iteration
    <3>1. 2 * t - 1 \in 1..L /\ 2 * t \in 1..L /\ 2 * t + 1 \in 1..L
      BY <1>0, <1>1, <2>2
    <3>2. /\ messages'[2 * t - 1] = messages[2 * t - 1] /\ messages'[2 * t] = messages[2 * t]
          /\ messages'[2 * t + 1] = messages[2 * t + 1]
      BY <1>5, <3>1
    <3>3. 2 * t - 1 <= L /\ 2 * t <= L /\ 2 * t + 1 <= L BY <3>1, <1>0
    <3> QED BY <2>1, <3>2, <3>3 DEF Turn, AnswersTo, L
  <2>3. CASE t = iteration
    <3>1. /\ 2 * t - 1 \in 1..L /\ 2 * t = L + 1 /\ ~(2 * t + 1 <= L + 1) /\ 2 * t - 1 <= L
      BY <1>0, <1>1, <2>3
    <3>2. messages'[2 * t - 1] = messages[2 * t - 1] /\ messages'[2 * t] = new
      BY <1>5, <3>1
    <3> QED BY <1>4, <1>5, <2>1, <2>3, <3>1, <3>2 DEF Turn, L
  <2>4. CASE t > iteration
    <3>1. ~(2 * t - 1 <= L + 1) /\ ~(2 * t <= L + 1) /\ ~(2 * t + 1 <= L + 1)
      BY <1>0, <1>1, <2>4
    <3> QED BY <1>5, <3>1 DEF Turn
  <2> QED BY <1>0, <2>2, <2>3, <2>4
<1>7. LogIsExact'
  <2>1. ASSUME NEW t \in Nat, NEW k \in Nat PROVE Called(t, k)' <=> Called(t, k)
    <3>1. t # 0 /\ 2 * t < L + 1 <=> t # 0 /\ 2 * t < L BY <1>0, <1>1
    <3>2. t # 0 /\ 2 * t < L => messages'[2 * t] = messages[2 * t] BY <1>0, <1>5
    <3> QED BY <1>1, <1>3, <1>5, <3>1, <3>2 DEF Called, L
  <2> QED BY <1>0, <1>3, <2>1 DEF LogIsExact
<1>8. spent' \in Nat /\ spent' <= Cap
  <2>1. PICK cost \in CallCosts : spent' = spent + cost /\ spent' <= Cap
    BY DEF ResearcherAnswers, Pay
  <2> QED BY <1>0, <2>1, SessionAssumption DEF TypeOK
<1>9. attempt' \in 1..MaxAttempts BY <1>3, SessionAssumption
<1>10. L + 1 = 2 * iteration BY <1>0, <1>1
<1> QED BY <1>3, <1>5, <1>6, <1>7, <1>8, <1>9, <1>10 DEF new

LEMMA AnswersInv ==
  ASSUME Inv, EndTurn \/ AsksForTools \/ UnexpectedStop
  PROVE  Inv'
<1>1. PICK text \in {iteration, NoText}, blocks \in ToolRequests \cup {<<>>} :
        /\ ResearcherAnswers(text, blocks)
        /\ \/ phase' = "decide" /\ research' = text
           \/ phase' = "tools" /\ UNCHANGED research
           \/ phase' = "failed" /\ UNCHANGED research
  BY DEF EndTurn, AsksForTools, UnexpectedStop
<1>2. /\ messages' \in Seq(Message) /\ Len(messages') = 2 * iteration
      /\ messages'[2 * iteration] = Assistant(text, blocks)
      /\ Turns' /\ LogIsExact'
      /\ spent' \in Nat /\ spent' <= Cap
      /\ attempt' \in 1..MaxAttempts /\ results' = <<>>
      /\ UNCHANGED <<iteration, tools_used, served>>
  BY <1>1, ResearcherSpeaks
<1>3. iteration \in 1..MaxToolIterations /\ MaxToolIterations \in Nat
  BY SessionAssumption DEF Inv, TypeOK
<1>4. Standing'
  <2>1. Assistant(text, blocks).text = text /\ Assistant(text, blocks).blocks = blocks
    BY DEF Assistant
  <2>2. blocks \in Seq(STRING)
    <3>1. <<>> \in Seq(STRING) OBVIOUS
    <3> QED BY <3>1, SessionAssumption
  <2>3. Len(blocks) \in Nat BY <2>2
  <2>4. LastBlocks' = blocks BY <1>2, <2>1 DEF LastBlocks
  <2>5. Len(results') = 0 BY <1>2
  <2> QED BY <1>1, <1>2, <2>1, <2>3, <2>4, <2>5 DEF Standing
<1>5. TypeOK'
  <2>1. research' \in Texts BY <1>1, <1>3 DEF Texts, Inv, TypeOK
  <2>2. results' \in Seq(Answer) BY <1>2
  <2>3. /\ phase' \in {"research", "tools", "decide"} \cup Ended
        /\ iteration' \in 1..MaxToolIterations
        /\ tools_used' \in Seq((1..MaxToolIterations) \X Nat)
        /\ served'.kind \in {"nothing", "data", "fails", "breaks"}
    BY <1>1, <1>2, <1>3 DEF Inv, TypeOK, Ended
  <2> QED BY <1>2, <2>1, <2>2, <2>3 DEF TypeOK, Answer
<1>6. SpendStaysInBudget'
  <2>1. ~(spent' > Cap) BY <1>2, SessionAssumption
  <2> QED BY <1>1, <2>1 DEF SpendStaysInBudget
<1>7. ResearchIsLastSaid'
  <2>1. /\ messages'[Len(messages')] = Assistant(text, blocks)
        /\ Assistant(text, blocks).role = "assistant" /\ Assistant(text, blocks).text = text
    BY <1>2 DEF Assistant
  <2> QED BY <1>1, <2>1 DEF ResearchIsLastSaid
<1> QED BY <1>2, <1>4, <1>5, <1>6, <1>7 DEF Inv, Conversation

-----------------------------------------------------------------------------
LEMMA ToolsPhase ==
  ASSUME Inv, phase = "tools"
  PROVE  /\ TypeOK /\ Turns /\ LogIsExact
         /\ iteration \in 1..MaxToolIterations /\ MaxToolIterations \in Nat
         /\ messages \in Seq(Message) /\ Len(messages) = 2 * iteration
         /\ results \in Seq(Answer) /\ Len(results) \in Nat /\ Len(results) <= Len(LastBlocks)
         /\ \A k \in 1..Len(results) : results[k].id = <<iteration, k>>
         /\ LastBlocks \in Seq(STRING) /\ LastBlocks = messages[2 * iteration].blocks
         /\ messages[2 * iteration].role = "assistant" /\ messages[2 * iteration].text \in Texts
<1>1. /\ TypeOK /\ Turns /\ LogIsExact
      /\ iteration \in 1..MaxToolIterations /\ MaxToolIterations \in Nat
      /\ messages \in Seq(Message) /\ Len(messages) = 2 * iteration
      /\ results \in Seq(Answer) /\ Len(results) <= Len(LastBlocks)
      /\ \A k \in 1..Len(results) : results[k].id = <<iteration, k>>
  BY SessionAssumption DEF Inv, Conversation, TypeOK, Standing, Answer
<1>2. Turn(iteration) BY <1>1 DEF Turns
<1>3. messages[2 * iteration].role = "assistant" BY <1>1, <1>2 DEF Turn
<1>4. messages[2 * iteration] \in Message
  <2>1. 2 * iteration \in 1..Len(messages) BY <1>1
  <2> QED BY <1>1, <2>1
<1>5. /\ messages[2 * iteration].text \in Texts
      /\ messages[2 * iteration].blocks \in ToolRequests \cup {<<>>}
  BY <1>3, <1>4 DEF Message
<1>6. LastBlocks = messages[2 * iteration].blocks BY <1>1 DEF LastBlocks
<1>7. LastBlocks \in Seq(STRING)
  <2>1. <<>> \in Seq(STRING) OBVIOUS
  <2> QED BY <1>5, <1>6, <2>1, SessionAssumption
<1>8. Len(results) \in Nat BY <1>1
<1> QED BY <1>1, <1>3, <1>5, <1>6, <1>7, <1>8

(* One more result, logged under the next position. *)
LEMMA ToolInv ==
  ASSUME Inv, ExecuteTool PROVE Inv'
<1> DEFINE n == Len(results)
           k == n + 1
           id == <<iteration, k>>
           contract == ContractName(LastBlocks[k])
<1>0. phase = "tools" /\ n < Len(LastBlocks)
      /\ UNCHANGED <<phase, iteration, attempt, spent, messages, research>>
  BY DEF ExecuteTool
<1>1. /\ TypeOK /\ Turns /\ LogIsExact
      /\ iteration \in 1..MaxToolIterations /\ MaxToolIterations \in Nat
      /\ messages \in Seq(Message) /\ Len(messages) = 2 * iteration
      /\ results \in Seq(Answer) /\ n \in Nat
      /\ \A i \in 1..n : results[i].id = <<iteration, i>>
      /\ LastBlocks \in Seq(STRING) /\ LastBlocks = messages[2 * iteration].blocks
  BY <1>0, ToolsPhase
<1>2. PICK output : Answered(k, output) /\ Honest(output)
  <2>1. PICK output \in Outputs(contract) \cup {Raised("fails")} : Answered(k, output)
    BY DEF ExecuteTool
  <2> HIDE DEF contract
  <2>2. Honest(output) BY <2>1, OutputsAreHonest, RaisedIsHonest
  <2> QED BY <2>1, <2>2
<1>3. tools_used' = Append(tools_used, id) BY DEF ExecuteTool
<1>4. PICK outcome \in {"output", "error"} :
        results' = Append(results, [id |-> id, outcome |-> outcome])
  BY <1>2 DEF Answered
<1>5. served' = output BY <1>2 DEF Answered
<1>6. ResearchIsLastSaid' BY <1>0 DEF ResearchIsLastSaid
<1> HIDE DEF contract, n, k
<1>7. k \in Nat /\ k = n + 1 /\ id \in (1..MaxToolIterations) \X Nat
  BY <1>1 DEF k
<1>8. /\ results' \in Seq(Answer) /\ Len(results') = k
      /\ results'[k].id = id /\ \A i \in 1..n : results'[i] = results[i]
  <2> DEFINE new == [id |-> id, outcome |-> outcome]
  <2>1. new \in Answer /\ new.id = id BY <1>7 DEF Answer
  <2> HIDE DEF new
  <2> QED BY <1>1, <1>4, <1>7, <2>1 DEF n, new
<1> DEFINE N == Len(tools_used)
<1>9. tools_used \in Seq((1..MaxToolIterations) \X Nat) /\ N \in Nat BY <1>1 DEF TypeOK
<1>10. /\ tools_used' \in Seq((1..MaxToolIterations) \X Nat) /\ Len(tools_used') = N + 1
       /\ tools_used'[N + 1] = id /\ \A j \in 1..N : tools_used'[j] = tools_used[j]
  <2> HIDE DEF id
  <2> QED BY <1>3, <1>7, <1>9
<1> HIDE DEF N
<1>11. TypeOK'
  <2>1. served'.kind \in {"nothing", "data", "fails", "breaks"} BY <1>2, <1>5 DEF Honest
  <2> QED BY <1>0, <1>1, <1>8, <1>10, <2>1 DEF TypeOK, Answer
<1>12. Turns' BY <1>0, <1>1 DEF Turns, Turn, AnswersTo
<1>13. Standing'
  <2>1. LastBlocks' = LastBlocks BY <1>0 DEF LastBlocks
  <2>2. Len(results') <= Len(LastBlocks)
    <3>1. Len(LastBlocks) \in Nat BY <1>1
    <3> QED BY <1>0, <1>1, <1>7, <1>8, <3>1
  <2>3. ASSUME NEW i \in 1..k PROVE results'[i].id = <<iteration, i>>
    <3>1. i \in 1..n \/ i = k BY <1>1, <1>7
    <3> QED BY <1>1, <1>8, <3>1 DEF n
  <2> QED BY <1>0, <1>1, <1>8, <2>1, <2>2, <2>3 DEF Standing
<1>14. ASSUME NEW t \in Nat, NEW i \in Nat
       PROVE  Called(t, i)' <=> Called(t, i) \/ <<t, i>> = id
  <2>1. i \in 1..k <=> i \in 1..n \/ i = k BY <1>1, <1>7
  <2> QED BY <1>0, <1>8, <2>1 DEF Called, n
<1>15. ~Called(iteration, k)
  <2>1. ~(2 * iteration < Len(messages)) /\ k \notin 1..n BY <1>1, <1>7
  <2> QED BY <2>1 DEF Called, n
<1>16. LogIsExact'
  <2>1. ASSUME NEW t \in Nat, NEW i \in Nat
        PROVE  (\E j \in 1..(N + 1) : tools_used'[j] = <<t, i>>) <=> Called(t, i)'
    <3>1. (\E j \in 1..(N + 1) : tools_used'[j] = <<t, i>>)
            <=> (\E j \in 1..N : tools_used[j] = <<t, i>>) \/ <<t, i>> = id
      <4> HIDE DEF id
      <4>1. \A j \in 1..(N + 1) : j \in 1..N \/ j = N + 1 BY <1>9
      <4>2. 1..N \subseteq 1..(N + 1) /\ N + 1 \in 1..(N + 1) BY <1>9
      <4> QED BY <1>10, <4>1, <4>2
    <3>2. (\E j \in 1..N : tools_used[j] = <<t, i>>) <=> Called(t, i)
      BY <1>1 DEF LogIsExact, N
    <3> QED BY <1>14, <3>1, <3>2
  <2>2. \A j \in 1..N : tools_used[j] # id
    <3>1. iteration \in Nat BY <1>1
    <3> QED BY <1>1, <1>7, <1>15, <3>1 DEF LogIsExact, N
  <2>3. \A i, j \in 1..(N + 1) : tools_used'[i] = tools_used'[j] => i = j
    <3> HIDE DEF id
    <3>1. \A j \in 1..(N + 1) : j \in 1..N \/ j = N + 1 BY <1>9
    <3>2. \A i, j \in 1..N : tools_used[i] = tools_used[j] => i = j
      BY <1>1 DEF LogIsExact, N
    <3> QED BY <1>10, <2>2, <3>1, <3>2
  <2> QED BY <1>10, <2>1, <2>3 DEF LogIsExact
<1>17. SpendStaysInBudget' BY <1>0 DEF Inv, SpendStaysInBudget
<1> QED BY <1>2, <1>5, <1>6, <1>11, <1>12, <1>13, <1>16, <1>17 DEF Inv, Conversation

(* A position in the conversation belongs to one turn. *)
LEMMA TurnOf ==
  ASSUME NEW i \in Nat \ {0}
  PROVE  \E t \in Nat \ {0} : \/ i = 2 * t - 1 /\ i % 2 = 1
                              \/ i = 2 * t /\ i % 2 = 0 /\ i \div 2 = t
<1>1. CASE i % 2 = 1
  <2>1. (i + 1) \div 2 \in Nat \ {0} /\ i = 2 * ((i + 1) \div 2) - 1 BY <1>1
  <2> QED BY <1>1, <2>1
<1>2. CASE i % 2 = 0
  <2>1. i \div 2 \in Nat \ {0} /\ i = 2 * (i \div 2) BY <1>2
  <2> QED BY <1>2, <2>1
<1> QED BY <1>1, <1>2

(* Going back through the conversation finds the text of the last turn     *)
(* that has one, or every turn is silent.                                  *)
LEMMA TextIsLastSaid ==
  ASSUME Inv, phase = "tools"
  PROVE  \/ /\ TextFromMessages = NoText
            /\ \A t \in 1..iteration : messages[2 * t].text = NoText
         \/ /\ TextFromMessages \in 1..iteration
            /\ messages[2 * TextFromMessages].text = TextFromMessages
            /\ \A t \in (TextFromMessages + 1)..iteration : messages[2 * t].text = NoText
<1> DEFINE L == Len(messages)
           spoken == {i \in DOMAIN messages :
                        messages[i].role = "assistant" /\ messages[i].text # NoText}
           latest == CHOOSE i \in spoken : \A j \in spoken : j <= i
<1>0. /\ Turns /\ iteration \in Nat /\ L = 2 * iteration /\ DOMAIN messages = 1..L
      /\ NoText \notin Nat
  BY ToolsPhase, SessionAssumption
<1>1. TextFromMessages = IF spoken = {} THEN NoText ELSE messages[latest].text
  BY DEF TextFromMessages
<1>2. ASSUME NEW t \in 1..iteration
      PROVE  /\ 2 * t \in 1..L /\ messages[2 * t].role = "assistant"
             /\ messages[2 * t].text \in {t, NoText}
  <2>1. 2 * t \in 1..L /\ 2 * t <= L /\ t \in Nat \ {0} BY <1>0
  <2> QED BY <1>0, <2>1 DEF Turns, Turn
<1>3. ASSUME NEW t \in 1..iteration, 2 * t \notin spoken PROVE messages[2 * t].text = NoText
  BY <1>0, <1>2, <1>3
<1>4. ASSUME NEW i \in spoken
      PROVE  \E t \in 1..iteration : i = 2 * t /\ messages[i].text = t
  <2>1. i \in 1..L /\ i \in Nat \ {0} BY <1>0
  <2>2. PICK t \in Nat \ {0} : i = 2 * t - 1 \/ i = 2 * t BY <2>1, TurnOf
  <2>3. Turn(t) BY <1>0 DEF Turns
  <2>4. i # 2 * t - 1
    <3>1. i = 2 * t - 1 => messages[i].role = "user" BY <2>1, <2>3, <1>0 DEF Turn
    <3> QED BY <3>1
  <2>5. t \in 1..iteration BY <1>0, <2>1, <2>2, <2>4
  <2> QED BY <1>2, <2>2, <2>4, <2>5
<1>5. CASE spoken = {}
  <2>1. \A t \in 1..iteration : messages[2 * t].text = NoText BY <1>3, <1>5
  <2> QED BY <1>1, <1>5, <2>1
<1>6. CASE spoken # {}
  <2>1. \E i \in spoken : \A j \in spoken : j <= i
    <3> DEFINE Back == {L - i : i \in spoken}
    <3>1. spoken \subseteq 1..L /\ L \in Nat BY <1>0
    <3> HIDE DEF spoken, L
    <3>2. \A i \in spoken : L - i \in Nat BY <3>1
    <3>3. Back \subseteq Nat /\ Back # {}
      <4>1. Back \subseteq Nat BY <3>2
      <4>2. Back # {} BY <1>6
      <4> QED BY <4>1, <4>2
    <3> HIDE DEF Back
    <3>4. PICK n \in Back : \A m \in Back : n <= m BY <3>3, LeastNumber
    <3>5. PICK i \in spoken : n = L - i BY DEF Back
    <3>6. ASSUME NEW j \in spoken PROVE j <= i
      <4>1. L - j \in Back BY DEF Back
      <4>2. L - i <= L - j BY <3>4, <3>5, <4>1
      <4>3. i \in Nat /\ j \in Nat BY <3>1
      <4> QED BY <3>1, <4>2, <4>3
    <3> QED BY <3>6
  <2>2. latest \in spoken /\ \A j \in spoken : j <= latest BY <2>1
  <2> HIDE DEF latest, spoken
  <2>3. PICK r \in 1..iteration : latest = 2 * r /\ messages[latest].text = r BY <1>4, <2>2
  <2>4. TextFromMessages = r BY <1>1, <1>6, <2>3
  <2>5. ASSUME NEW t \in (r + 1)..iteration PROVE messages[2 * t].text = NoText
    <3>1. t \in 1..iteration /\ ~(2 * t <= 2 * r) BY <1>0
    <3>2. 2 * t \notin spoken BY <2>2, <2>3, <3>1
    <3> QED BY <1>3, <3>1, <3>2
  <2> QED BY <2>3, <2>4, <2>5
<1> QED BY <1>5, <1>6

(* The turn under way is answered. *)
LEMMA ReturnInv ==
  ASSUME Inv, ReturnResults PROVE Inv'
<1> DEFINE L == Len(messages)
           new == User(results)
<1>0. /\ phase = "tools" /\ Len(results) = Len(LastBlocks)
      /\ messages' = Append(messages, new) /\ results' = <<>> /\ served' = NothingServed
      /\ UNCHANGED <<attempt, spent, tools_used>>
  BY DEF ReturnResults
<1>1. /\ TypeOK /\ Turns /\ LogIsExact
      /\ iteration \in 1..MaxToolIterations /\ MaxToolIterations \in Nat
      /\ messages \in Seq(Message) /\ L = 2 * iteration
      /\ results \in Seq(Answer) /\ Len(results) \in Nat
      /\ \A k \in 1..Len(results) : results[k].id = <<iteration, k>>
      /\ LastBlocks \in Seq(STRING) /\ LastBlocks = messages[2 * iteration].blocks
      /\ messages[2 * iteration].text \in Texts
  BY <1>0, ToolsPhase
<1>2. \/ iteration' = iteration + 1 /\ iteration < MaxToolIterations
         /\ phase' = "research" /\ UNCHANGED research
      \/ /\ phase' = "decide" /\ research' = TextFromMessages
         /\ ~(iteration < MaxToolIterations) /\ UNCHANGED iteration
  BY DEF ReturnResults
<1>3. new \in Message /\ new.role = "user" /\ new.answers = results
  BY <1>1 DEF User, Message, Answer
<1> HIDE DEF new
<1>4. /\ messages' \in Seq(Message) /\ Len(messages') = L + 1
      /\ messages'[L + 1] = new /\ \A i \in 1..L : messages'[i] = messages[i]
  BY <1>0, <1>1, <1>3
<1> HIDE DEF L
<1>5. AnswersTo(results, LastBlocks, iteration) BY <1>0, <1>1 DEF AnswersTo
<1>6. Turns'
  <2> SUFFICES ASSUME NEW t \in Nat \ {0} PROVE Turn(t)' BY DEF Turns
  <2>1. Turn(t) BY <1>1 DEF Turns
  <2>2. CASE t < iteration
    <3>1. 2 * t - 1 \in 1..L /\ 2 * t \in 1..L /\ 2 * t + 1 \in 1..L BY <1>1, <2>2
    <3>2. /\ messages'[2 * t - 1] = messages[2 * t - 1] /\ messages'[2 * t] = messages[2 * t]
          /\ messages'[2 * t + 1] = messages[2 * t + 1]
      BY <1>4, <3>1
    <3>3. 2 * t - 1 <= L /\ 2 * t <= L /\ 2 * t + 1 <= L BY <1>1, <3>1
    <3> QED BY <2>1, <3>2, <3>3 DEF Turn, AnswersTo, L
  <2>3. CASE t = iteration
    <3>1. 2 * t - 1 \in 1..L /\ 2 * t \in 1..L /\ 2 * t + 1 = L + 1 BY <1>1, <2>3
    <3>2. /\ messages'[2 * t - 1] = messages[2 * t - 1] /\ messages'[2 * t] = messages[2 * t]
          /\ messages'[2 * t + 1] = new
      BY <1>4, <3>1
    <3>3. 2 * t - 1 <= L /\ 2 * t <= L BY <1>1, <3>1
    <3>4. AnswersTo(messages'[2 * t + 1].answers, messages'[2 * t].blocks, t)
      BY <1>1, <1>3, <1>5, <2>3, <3>2
    <3> QED BY <1>3, <2>1, <3>2, <3>3, <3>4 DEF Turn, L
  <2>4. CASE t > iteration
    <3>1. ~(2 * t <= L + 1) /\ ~(2 * t + 1 <= L + 1) BY <1>1, <2>4
    <3>2. 2 * t - 1 <= L + 1 => 2 * t - 1 = L + 1 BY <1>1, <2>4
    <3> QED BY <1>3, <1>4, <3>1, <3>2 DEF Turn
  <2> QED BY <1>1, <2>2, <2>3, <2>4
<1>7. Standing'
  <2>1. messages'[2 * iteration] = messages[2 * iteration]
    <3>1. 2 * iteration \in 1..L BY <1>1
    <3> QED BY <1>4, <3>1
  <2>2. CASE iteration' = iteration + 1 /\ phase' = "research"
    <3>1. L + 1 = 2 * (iteration + 1) - 1 BY <1>1
    <3> QED BY <1>0, <1>4, <2>2, <3>1 DEF Standing
  <2>3. CASE phase' = "decide" /\ UNCHANGED iteration
    BY <1>0, <1>1, <1>4, <2>1, <2>3 DEF Standing
  <2> QED BY <1>2, <2>2, <2>3
<1>8. LogIsExact'
  <2>1. ASSUME NEW t \in Nat, NEW k \in Nat PROVE Called(t, k)' <=> Called(t, k)
    <3>1. k \notin 1..Len(results') BY <1>0
    <3>2. Called(t, k)' <=> t # 0 /\ 2 * t < L + 1 /\ k \in 1..Len(messages'[2 * t].blocks)
      BY <1>4, <3>1 DEF Called
    <3>3. CASE t = 0
      <4>1. t # iteration BY <1>1, <3>3
      <4> QED BY <3>2, <3>3, <4>1 DEF Called
    <3>4. CASE t # 0 /\ t < iteration
      <4>1. 2 * t < L + 1 /\ 2 * t < L /\ 2 * t \in 1..L /\ t # iteration BY <1>1, <3>4
      <4> QED BY <1>4, <3>2, <3>4, <4>1 DEF Called, L
    <3>5. CASE t = iteration
      <4>1. 2 * t < L + 1 /\ ~(2 * t < L) /\ 2 * t \in 1..L /\ t # 0 BY <1>1, <3>5
      <4>2. Len(messages'[2 * t].blocks) = Len(results) BY <1>0, <1>1, <1>4, <3>5, <4>1
      <4> QED BY <3>2, <3>5, <4>1, <4>2 DEF Called, L
    <3>6. CASE t > iteration
      <4>1. ~(2 * t < L + 1) /\ ~(2 * t < L) /\ t # iteration BY <1>1, <3>6
      <4> QED BY <3>2, <4>1 DEF Called, L
    <3> QED BY <1>1, <3>3, <3>4, <3>5, <3>6
  <2> QED BY <1>0, <1>1, <2>1 DEF LogIsExact
<1>9. TypeOK'
  <2>1. iteration' \in 1..MaxToolIterations BY <1>1, <1>2
  <2>2. research' \in Texts
    <3>1. TextFromMessages \in Texts BY <1>0, <1>1, TextIsLastSaid DEF Texts
    <3> QED BY <1>1, <1>2, <3>1 DEF TypeOK
  <2>3. results' \in Seq(Answer) BY <1>0
  <2>4. served'.kind = "nothing" BY <1>0 DEF NothingServed
  <2> QED BY <1>0, <1>1, <1>2, <1>4, <2>1, <2>2, <2>3, <2>4 DEF TypeOK, Answer
<1>10. SpendStaysInBudget' BY <1>0, <1>2 DEF Inv, SpendStaysInBudget
<1>11. Honest(served)' BY <1>0 DEF NothingServed, Honest, HonestBars, NewsInside
<1>12. ResearchIsLastSaid'
  <2>1. CASE phase' = "research" BY <2>1 DEF ResearchIsLastSaid
  <2>2. CASE /\ phase' = "decide" /\ research' = TextFromMessages
             /\ ~(iteration < MaxToolIterations) /\ UNCHANGED iteration
    <3>1. iteration' = MaxToolIterations BY <1>1, <2>2
    <3>2. messages'[Len(messages')].role = "user" BY <1>3, <1>4
    <3>3. ASSUME NEW t \in 1..iteration PROVE messages'[2 * t] = messages[2 * t]
      <4>1. 2 * t \in 1..L BY <1>1
      <4> QED BY <1>4, <4>1
    <3> DEFINE r == TextFromMessages
    <3>4. CASE r = NoText /\ \A t \in 1..iteration : messages[2 * t].text = NoText
      BY <2>2, <3>1, <3>2, <3>3, <3>4 DEF ResearchIsLastSaid
    <3>5. CASE /\ r \in 1..iteration /\ messages[2 * r].text = r
               /\ \A t \in (r + 1)..iteration : messages[2 * t].text = NoText
      <4> HIDE DEF r
      <4>1. research' = r /\ r # NoText BY <1>1, <2>2, <3>5, SessionAssumption DEF r
      <4>2. messages'[2 * r].text = r BY <3>3, <3>5
      <4>3. ASSUME NEW t \in (r + 1)..iteration PROVE messages'[2 * t].text = NoText
        <5>1. t \in 1..iteration BY <1>1, <3>5
        <5> QED BY <3>3, <3>5, <5>1
      <4> QED BY <2>2, <3>1, <3>2, <4>1, <4>2, <4>3 DEF ResearchIsLastSaid
    <3> QED BY <1>0, <3>4, <3>5, TextIsLastSaid
  <2> QED BY <1>2, <2>1, <2>2
<1> QED BY <1>0, <1>6, <1>7, <1>8, <1>9, <1>10, <1>11, <1>12 DEF Inv, Conversation

LEMMA NextInv == Inv /\ [Next]_vars => Inv'
<1> SUFFICES ASSUME Inv, [Next]_vars PROVE Inv' OBVIOUS
<1>1. CASE CallBusy \/ CallFatal \/ CostCapExceeded \/ RiskManagerAnswers BY <1>1, CallsInv
<1>2. CASE EndTurn \/ AsksForTools \/ UnexpectedStop BY <1>2, AnswersInv
<1>3. CASE ExecuteTool BY <1>3, ToolInv
<1>4. CASE ReturnResults BY <1>4, ReturnInv
<1>5. CASE UNCHANGED vars
  <2>1. TypeOK' /\ SpendStaysInBudget' BY <1>5 DEF vars, Inv, TypeOK, SpendStaysInBudget
  <2>2. Conversation'
    BY <1>5 DEF vars, Inv, Conversation, Turns, Turn, AnswersTo, Standing, LastBlocks,
                LogIsExact, Called
  <2>3. ResearchIsLastSaid' BY <1>5 DEF vars, Inv, ResearchIsLastSaid
  <2> QED BY <1>5, <2>1, <2>2, <2>3 DEF vars, Inv, Honest, HonestBars, NewsInside
<1> QED BY <1>1, <1>2, <1>3, <1>4, <1>5 DEF Next

-----------------------------------------------------------------------------
(* The inductive invariant holds throughout a session. *)
THEOREM Invariance == Spec => []Inv
BY InitInv, NextInv, PTL DEF Spec

(* The state of a session keeps its type: phases, texts, messages, results *)
(* and log are what run_researcher and run_risk_manager make them.         *)
THEOREM TypeCorrect == Spec => []TypeOK
<1>1. Inv => TypeOK BY DEF Inv
<1> QED BY <1>1, Invariance, PTL

(* Researcher and risk manager together overspend the cap by one call at   *)
(* most, and the session ends there.                                       *)
THEOREM BudgetIsKept == Spec => []SpendStaysInBudget
<1>1. Inv => SpendStaysInBudget BY DEF Inv
<1> QED BY <1>1, Invariance, PTL

(* Prices reach the researcher whole, under the name of the provider they  *)
(* came from, and unmarked only when recent, whichever fallback was taken. *)
THEOREM PricesAreHonest == Spec => []MarketDataIsHonest
<1>1. Inv => MarketDataIsHonest BY DEF Inv, Honest, HonestBars, MarketDataIsHonest
<1> QED BY <1>1, Invariance, PTL

(* News reach the researcher cut to the universe, from either provider.    *)
THEOREM NewsIsInside == Spec => []NewsStaysInUniverse
<1>1. Inv => NewsStaysInUniverse BY DEF Inv, Honest, NewsInside, NewsStaysInUniverse
<1> QED BY <1>1, Invariance, PTL

-----------------------------------------------------------------------------
(* Every time _create_message is called by the researcher, the messages    *)
(* alternate and every tool_use block has its one answer.                  *)
THEOREM ConversationHolds == Spec => []ConversationIsWellFormed
<1>1. ASSUME Inv, phase = "research" PROVE ConversationIsWellFormed
  <2>1. /\ Turns /\ Len(messages) = 2 * iteration - 1
        /\ iteration \in Nat /\ messages \in Seq(Message)
    BY <1>1, SessionAssumption DEF Inv, TypeOK, Conversation, Standing
  <2>2. ASSUME NEW i \in DOMAIN messages
        PROVE  /\ messages[i].role = IF i % 2 = 1 THEN "user" ELSE "assistant"
               /\ messages[i].role = "assistant" =>
                    /\ Len(messages[i + 1].answers) = Len(messages[i].blocks)
                    /\ \A k \in DOMAIN messages[i + 1].answers :
                         messages[i + 1].answers[k].id = <<i \div 2, k>>
    <3>1. i \in Nat \ {0} /\ i <= Len(messages) BY <2>1
    <3>2. PICK t \in Nat \ {0} : \/ i = 2 * t - 1 /\ i % 2 = 1
                                 \/ i = 2 * t /\ i % 2 = 0 /\ i \div 2 = t
      BY <3>1, TurnOf
    <3>3. Turn(t) BY <2>1 DEF Turns
    <3>4. CASE i = 2 * t - 1 /\ i % 2 = 1 BY <3>1, <3>3, <3>4 DEF Turn
    <3>5. CASE i = 2 * t /\ i % 2 = 0 /\ i \div 2 = t
      <4>1. 2 * t + 1 \in 1..Len(messages) /\ i + 1 = 2 * t + 1 BY <2>1, <3>1, <3>5
      <4>2. 2 * t + 1 <= Len(messages) /\ 2 * t <= Len(messages) BY <3>1, <3>5, <4>1
      <4>3. /\ messages[2 * t].role = "assistant" /\ messages[2 * t + 1].role = "user"
            /\ AnswersTo(messages[2 * t + 1].answers, messages[2 * t].blocks, t)
        BY <3>3, <4>2 DEF Turn
      <4>4. messages[2 * t + 1] \in Message BY <2>1, <4>1
      <4>5. messages[2 * t + 1].answers \in Seq(Answer) BY <4>3, <4>4 DEF Message, Answer
      <4>6. DOMAIN messages[2 * t + 1].answers = 1..Len(messages[2 * t + 1].answers)
        BY <4>5
      <4> QED BY <3>5, <4>1, <4>3, <4>6 DEF AnswersTo
    <3> QED BY <3>2, <3>4, <3>5
  <2> QED BY <2>1, <2>2 DEF ConversationIsWellFormed
<1>2. Inv => ConversationIsWellFormed BY <1>1 DEF ConversationIsWellFormed
<1> QED BY <1>2, Invariance, PTL

(* run_risk_manager gets the last thing the researcher said: the final     *)
(* response when the model ended its turn, and otherwise a text with only  *)
(* silent turns after it.                                                  *)
THEOREM LastSaidResearch == Spec => []ResearchIsLastSaid
<1>1. Inv => ResearchIsLastSaid BY DEF Inv
<1> QED BY <1>1, Invariance, PTL

(* The tool log of the decision record is exact in every state: each call  *)
(* of a turn already answered or under way, once, and nothing else.        *)
THEOREM LogHolds == Spec => []ToolLogIsComplete
<1>1. ASSUME Inv PROVE ToolLogIsComplete
  <2> DEFINE asked(m) == {<<m \div 2, k>> : k \in DOMAIN messages[m].blocks}
             answered == UNION {asked(m) : m \in {i \in 2..(Len(messages) - 1) : i % 2 = 0}}
             current  == {results[k].id : k \in DOMAIN results}
             logged   == {tools_used[k] : k \in DOMAIN tools_used}
  <2>1. /\ Turns /\ Standing /\ LogIsExact /\ iteration \in Nat
        /\ messages \in Seq(Message) /\ results \in Seq(Answer)
        /\ tools_used \in Seq((1..MaxToolIterations) \X Nat)
    BY <1>1, SessionAssumption DEF Inv, TypeOK, Conversation, Answer
  <2>2. /\ DOMAIN results = 1..Len(results) /\ DOMAIN tools_used = 1..Len(tools_used)
        /\ Len(messages) \in Nat /\ 1..MaxToolIterations \subseteq Nat
    BY <2>1, SessionAssumption
  <2>3. \A k \in 1..Len(results) : k \in Nat /\ results[k].id = <<iteration, k>>
    BY <2>1 DEF Standing
  <2>4. ASSUME NEW t \in Nat \ {0}, 2 * t < Len(messages)
        PROVE  DOMAIN messages[2 * t].blocks = 1..Len(messages[2 * t].blocks)
    <3>1. 2 * t \in 1..Len(messages) /\ 2 * t <= Len(messages) BY <2>2, <2>4
    <3>2. messages[2 * t].role = "assistant" BY <2>1, <3>1 DEF Turns, Turn
    <3>3. messages[2 * t] \in Message BY <2>1, <3>1
    <3>4. messages[2 * t].blocks \in ToolRequests \cup {<<>>} BY <3>2, <3>3 DEF Message
    <3>5. messages[2 * t].blocks \in Seq(STRING)
      <4>1. <<>> \in Seq(STRING) OBVIOUS
      <4> QED BY <3>4, <4>1, SessionAssumption
    <3> QED BY <3>5
  <2>5. ASSUME NEW t \in Nat, NEW k \in Nat
        PROVE  Called(t, k) <=> <<t, k>> \in answered \cup current
    <3>1. <<t, k>> \in current <=> t = iteration /\ k \in 1..Len(results) BY <2>2, <2>3
    <3>2. ASSUME t # 0, 2 * t < Len(messages), k \in 1..Len(messages[2 * t].blocks)
          PROVE  <<t, k>> \in answered
      <4>1. 2 * t \in 2..(Len(messages) - 1) /\ (2 * t) % 2 = 0 /\ (2 * t) \div 2 = t
        BY <2>2, <3>2
      <4>2. <<t, k>> \in asked(2 * t) BY <2>4, <3>2, <4>1
      <4> QED BY <4>1, <4>2
    <3>3. ASSUME <<t, k>> \in answered
          PROVE  t # 0 /\ 2 * t < Len(messages) /\ k \in 1..Len(messages[2 * t].blocks)
      <4>1. PICK m \in 2..(Len(messages) - 1) : m % 2 = 0 /\ <<t, k>> \in asked(m)
        BY <3>3
      <4>2. m \div 2 = t /\ k \in DOMAIN messages[m].blocks BY <4>1
      <4>3. m = 2 * t /\ t # 0 /\ 2 * t < Len(messages) BY <2>2, <4>1, <4>2
      <4> QED BY <2>4, <4>2, <4>3
    <3> HIDE DEF answered, current
    <3> QED BY <3>1, <3>2, <3>3 DEF Called
  <2>6. ASSUME NEW x \in answered \cup current
        PROVE  \E t \in Nat, k \in Nat : x = <<t, k>>
    <3>1. CASE x \in current BY <2>1, <2>2, <2>3, <3>1
    <3>2. CASE x \in answered
      <4>1. PICK m \in 2..(Len(messages) - 1) : m % 2 = 0 /\ x \in asked(m) BY <3>2
      <4>2. PICK k \in DOMAIN messages[m].blocks : x = <<m \div 2, k>> BY <4>1
      <4>3. m \div 2 \in Nat \ {0} /\ m = 2 * (m \div 2) /\ m < Len(messages) BY <2>2, <4>1
      <4>4. k \in Nat BY <2>4, <4>3
      <4> QED BY <4>2, <4>3, <4>4
    <3> QED BY <3>1, <3>2
  <2>7. ASSUME NEW t \in Nat, NEW k \in Nat
        PROVE  <<t, k>> \in logged <=> <<t, k>> \in answered \cup current
    <3> HIDE DEF answered, current
    <3>1. <<t, k>> \in logged <=> \E j \in 1..Len(tools_used) : tools_used[j] = <<t, k>>
      BY <2>2
    <3> QED BY <2>1, <2>5, <3>1 DEF LogIsExact
  <2>8. ASSUME NEW x \in logged PROVE \E t \in Nat, k \in Nat : x = <<t, k>>
    <3>1. x \in (1..MaxToolIterations) \X Nat BY <2>1, <2>2
    <3> QED BY <2>2, <3>1
  <2>9. logged = answered \cup current
    <3> HIDE DEF answered, current, logged
    <3> QED BY <2>6, <2>7, <2>8
  <2> QED BY <2>1, <2>2, <2>9 DEF ToolLogIsComplete, LogIsExact
<1> QED BY <1>1, Invariance, PTL

-----------------------------------------------------------------------------
(* What a session has before it, the most significant first: turns of the  *)
(* researcher's loop, phases of a turn, and within a phase attempts at the *)
(* API or tool calls.                                                      *)
TurnsAhead == MaxToolIterations - iteration

PhasesAhead ==
  CASE phase = "research" -> 3
    [] phase = "tools"    -> 2
    [] phase = "decide"   -> 1
    [] OTHER              -> 0

CallsAhead ==
  IF phase = "tools" THEN Len(LastBlocks) - Len(results) ELSE MaxAttempts - attempt

Shrinks ==
  \/ TurnsAhead' < TurnsAhead
  \/ TurnsAhead' = TurnsAhead /\ PhasesAhead' < PhasesAhead
  \/ TurnsAhead' = TurnsAhead /\ PhasesAhead' = PhasesAhead /\ CallsAhead' < CallsAhead

LEMMA AheadType ==
  ASSUME Inv PROVE TurnsAhead \in Nat /\ PhasesAhead \in 0..3 /\ CallsAhead \in Nat
<1>1. /\ MaxToolIterations \in Nat /\ iteration \in 1..MaxToolIterations
      /\ MaxAttempts \in Nat /\ attempt \in 1..MaxAttempts
  BY SessionAssumption DEF Inv, TypeOK
<1>2. phase = "tools" => Len(LastBlocks) - Len(results) \in Nat
  <2> SUFFICES ASSUME phase = "tools" PROVE Len(LastBlocks) - Len(results) \in Nat OBVIOUS
  <2>1. Len(LastBlocks) \in Nat BY ToolsPhase
  <2> QED BY <2>1, ToolsPhase
<1> QED BY <1>1, <1>2 DEF TurnsAhead, PhasesAhead, CallsAhead

LEMMA EachStepShrinks == ASSUME Inv, Next PROVE Shrinks
<1>1. /\ MaxToolIterations \in Nat /\ iteration \in Nat /\ MaxAttempts \in Nat
      /\ attempt \in Nat
  BY SessionAssumption DEF Inv, TypeOK
<1>2. ASSUME iteration' = iteration, PhasesAhead' < PhasesAhead PROVE Shrinks
  BY <1>2 DEF Shrinks, TurnsAhead
<1>3. CASE CallBusy
  <2>1. CASE attempt < MaxAttempts
    <3>1. /\ phase' = phase /\ attempt' = attempt + 1 /\ iteration' = iteration
          /\ phase # "tools"
      BY <1>3, <2>1 DEF CallBusy
    <3>2. CallsAhead' < CallsAhead BY <1>1, <3>1 DEF CallsAhead
    <3> QED BY <3>1, <3>2 DEF Shrinks, TurnsAhead, PhasesAhead
  <2>2. CASE ~(attempt < MaxAttempts)
    BY <1>2, <1>3, <2>2 DEF CallBusy, PhasesAhead
  <2> QED BY <2>1, <2>2
<1>4. CASE CallFatal BY <1>2, <1>4 DEF CallFatal, PhasesAhead
<1>5. CASE CostCapExceeded BY <1>2, <1>5 DEF CostCapExceeded, PhasesAhead
<1>6. CASE EndTurn BY <1>2, <1>6 DEF EndTurn, ResearcherAnswers, PhasesAhead
<1>7. CASE AsksForTools BY <1>2, <1>7 DEF AsksForTools, ResearcherAnswers, PhasesAhead
<1>8. CASE UnexpectedStop BY <1>2, <1>8 DEF UnexpectedStop, ResearcherAnswers, PhasesAhead
<1>9. CASE ExecuteTool
  <2>1. /\ phase' = phase /\ phase = "tools" /\ iteration' = iteration
        /\ LastBlocks' = LastBlocks
    BY <1>9 DEF ExecuteTool, LastBlocks
  <2>2. PICK result : results' = Append(results, result) BY <1>9 DEF ExecuteTool, Answered
  <2>3. Len(results') = Len(results) + 1 /\ Len(results) \in Nat
    BY <2>2 DEF Inv, TypeOK
  <2>4. CallsAhead' < CallsAhead
    <3>1. CallsAhead \in Nat BY AheadType
    <3>2. CallsAhead = Len(LastBlocks) - Len(results)
          /\ CallsAhead' = Len(LastBlocks) - Len(results')
      BY <2>1 DEF CallsAhead
    <3>3. Len(LastBlocks) \in Nat BY <2>1, ToolsPhase
    <3> QED BY <2>3, <3>1, <3>2, <3>3
  <2> QED BY <2>1, <2>4 DEF Shrinks, TurnsAhead, PhasesAhead
<1>10. CASE ReturnResults
  <2>1. CASE iteration < MaxToolIterations
    BY <1>1, <1>10, <2>1 DEF ReturnResults, Shrinks, TurnsAhead
  <2>2. CASE ~(iteration < MaxToolIterations)
    BY <1>2, <1>10, <2>2 DEF ReturnResults, PhasesAhead
  <2> QED BY <2>1, <2>2
<1>11. CASE RiskManagerAnswers BY <1>2, <1>11 DEF RiskManagerAnswers, PhasesAhead
<1> QED BY <1>3, <1>4, <1>5, <1>6, <1>7, <1>8, <1>9, <1>10, <1>11 DEF Next

(* Nothing keeps a session going: whatever the model answers and however   *)
(* the API and the tools fail, every step shrinks what is before it, a     *)
(* triple of numbers in lexicographic order.  (That the session does take  *)
(* its next step is fairness and left to TLC.)                             *)
THEOREM SessionRunsDown ==
  Spec => /\ [](TurnsAhead \in Nat /\ PhasesAhead \in 0..3 /\ CallsAhead \in Nat)
          /\ [][Shrinks]_vars
<1>1. Inv => TurnsAhead \in Nat /\ PhasesAhead \in 0..3 /\ CallsAhead \in Nat BY AheadType
<1>2. Inv /\ [Next]_vars => [Shrinks]_vars BY EachStepShrinks
<1> QED BY <1>1, <1>2, Invariance, PTL DEF Spec
=============================================================================
