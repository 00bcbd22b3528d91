------------------------------ MODULE MCHarness ------------------------------
(* Tool requests for Harness: none, a read that works, and an order the    *)
(* model has no business placing followed by another read.  Ages are at    *)
(* the limit or one minute over it.                                        *)
EXTENDS Harness

MCToolRequests ==
  {<<>>, <<"data_quote">>, <<"data_bars">>, <<"alpaca_submit_order", "news_search">>}

(* Responses that do ask for a tool, for the trace of stale_research. *)
MCRealRequests == MCToolRequests \ {<<>>}

MCAllowed == {"SPY"}
MCQueries == {{}, {"SPY", "OTC"}}

NoReply == {Raised("fails"), Raised("breaks")}
Data(bars) == [kind |-> "data", bars |-> bars]

MCQuotes == [p \in {"finnhub", "yfinance"} |-> NoReply \cup
  {Data(<<[age |-> a, whole |-> w, from |-> p]>>) : a \in {15, 16}, w \in BOOLEAN}]

MCBars == [p \in {"finnhub", "yfinance"} |->
  LET old  == [age |-> 61, whole |-> TRUE, from |-> p]
      last == [age |-> 60, whole |-> TRUE, from |-> p]
  IN  NoReply \cup {Data(<<>>), Data(<<old>>), Data(<<old, last>>),
                    Data(<<old, [last EXCEPT !.whole = FALSE]>>)}]

MCNews == [p \in {"sonar", "tavily"} |-> NoReply \cup
  {[kind |-> "data", style |-> s, cites |-> c] :
     s \in {"articles"} \cup (IF p = "sonar" THEN {"citations"} ELSE {}),
     c \in {<<{"SPY", "OTC"}>>}}]
=============================================================================
