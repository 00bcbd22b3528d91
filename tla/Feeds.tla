-------------------------------- MODULE Feeds --------------------------------
(***************************************************************************)
(* Market data and news, each from a preferred provider with a second one  *)
(* behind it (tools/data.py, tools/news.py).  Pure operators: a provider's *)
(* reply goes in, what the tool returns comes out.                         *)
(*                                                                         *)
(* A reply "fails" with an error the tool catches (HTTP, a missing key, a  *)
(* wrong type, no data), "breaks" with one it does not (a price that is no *)
(* decimal), or holds data.  A bar is known by its age in minutes when it  *)
(* is fetched, by whether its prices are all there, and by its provider; a *)
(* quote is a single bar; an article by the symbols it cites.              *)
(***************************************************************************)
EXTENDS Integers, Sequences

QuoteStaleAfter == 15
BarsStaleAfter  == 60

Bar(provider) == [age: Nat, whole: BOOLEAN, from: {provider}]

MarketReply(provider) ==
  [kind: {"fails", "breaks"}] \cup [kind: {"data"}, bars: Seq(Bar(provider))]

(* Sonar answers with articles, or with citations that name no symbols.    *)
NewsReply(Symbols) ==
  [kind: {"fails", "breaks"}]
  \cup [kind: {"data"}, style: {"articles", "citations"}, cites: Seq(SUBSET Symbols)]

Raised(kind) == [kind |-> kind]

(* _is_stale, _bars_are_stale: no bar at all is stale. *)
Stale(bars, limit) == bars = <<>> \/ bars[Len(bars)].age > limit

-----------------------------------------------------------------------------
(* Faulty variants of operators below; no specification uses them. *)

DatedBeforeFiltering(reply, limit) ==
  IF reply.kind # "data" THEN Raised(reply.kind)
  ELSE [kind |-> "data", provider |-> "yfinance", limit |-> limit,
        bars |-> SelectSeq(reply.bars, LAMBDA b : b.whole),
        is_stale |-> Stale(reply.bars, limit)]

EverySymbolAccepted(provider, query, cites, allowed) ==
  [kind |-> "data", provider |-> provider, cited |-> cites, rejected |-> query \ allowed]

-----------------------------------------------------------------------------
MarketAnswer(provider, bars, limit) ==
  [kind |-> "data", provider |-> provider, bars |-> bars, limit |-> limit,
   is_stale |-> Stale(bars, limit)]

(* Every price becomes a Decimal: one that is missing raises InvalidOperation. *)
Converted(provider, reply, limit) ==
  IF reply.kind # "data" THEN Raised(reply.kind)
  ELSE IF \E i \in DOMAIN reply.bars : ~reply.bars[i].whole THEN Raised("breaks")
  ELSE MarketAnswer(provider, reply.bars, limit)

(* The bars with all their prices, in order. *)
WholeBars(bars) ==
  LET kept[n \in 0..Len(bars)] ==
        IF n = 0 THEN <<>>
        ELSE IF bars[n].whole THEN Append(kept[n - 1], bars[n]) ELSE kept[n - 1]
  IN  kept[Len(bars)]

(* Yahoo's bars with a missing price are left out first. *)
YahooBars(reply, limit) ==
  IF reply.kind # "data" THEN Raised(reply.kind)
  ELSE MarketAnswer("yfinance", WholeBars(reply.bars), limit)

(* The second provider is asked when the first is not preferred, or fails  *)
(* in a way that is caught: a stale answer is an answer.                   *)
Fallback(preferred, first, second) ==
  IF preferred /\ first.kind # "fails" THEN first ELSE second

FetchQuote(preferFinnhub, finnhub, yahoo) ==
  Fallback(preferFinnhub, Converted("finnhub", finnhub, QuoteStaleAfter),
                          Converted("yfinance", yahoo, QuoteStaleAfter))

FetchBars(preferFinnhub, finnhub, yahoo) ==
  Fallback(preferFinnhub, Converted("finnhub", finnhub, BarsStaleAfter),
                          YahooBars(yahoo, BarsStaleAfter))

(* _output: symbols outside the universe are cut from every article and    *)
(* reported, those of the query among them.                                *)
Output(provider, query, cites, allowed) ==
  [kind |-> "data", provider |-> provider,
   cited    |-> [i \in DOMAIN cites |-> cites[i] \cap allowed],
   rejected |-> (query \cup UNION {cites[i] : i \in DOMAIN cites}) \ allowed]

(* A citation is taken to be about the symbols of the query. *)
SearchSonar(query, reply, allowed) ==
  IF reply.kind # "data" THEN Raised(reply.kind)
  ELSE Output("sonar", query,
              IF reply.style = "articles" THEN reply.cites
              ELSE [i \in DOMAIN reply.cites |-> query], allowed)

SearchTavily(query, reply, allowed) ==
  IF reply.kind # "data" THEN Raised(reply.kind)
  ELSE Output("tavily", query, reply.cites, allowed)

SearchNews(preferSonar, query, sonar, tavily, allowed) ==
  Fallback(preferSonar, SearchSonar(query, sonar, allowed), SearchTavily(query, tavily, allowed))
=============================================================================
