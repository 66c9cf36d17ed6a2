------------------------------ MODULE Exchange ------------------------------
(***************************************************************************)
(* adapters/: what becomes of a trade between the quote an adapter gives   *)
(* and the result of its execute_trade.  GMX sends an order to the         *)
(* exchange; the order of dYdX is logged and answered with a mock id;      *)
(* Uniswap asks for a second quote and answers with a made-up hash.  The   *)
(* exchange and its price are external.                                    *)
(***************************************************************************)
EXTENDS Integers

CONSTANTS
    Trades,     \* calls of execute_trade of the orchestrator
    Dex,        \* the adapter each one goes to
    MaxPrice    \* bound on the price, for TLC

ASSUME DexAssumption == Dex \in [Trades -> {"gmx", "dydx", "uniswap"}]
ASSUME PriceAssumption == MaxPrice \in Nat \ {0}

VARIABLES
    price,      \* the price at the exchange
    trade,      \* where each trade is and what it holds
    orders,     \* orders of the trade at the exchange
    lost,       \* trades whose order was accepted and the answer lost
    during      \* history: the prices there were since execution began

exchangeVars == <<price, trade, orders, lost, during>>

Prices == 1 .. MaxPrice

\* A price of 0 is the "0" of a QuoteResult that is none, or no price yet.
Trade == [pc : {"idle", "gas", "quoted", "market", "order", "done"},
          quote : {0} \cup Prices,      \* price of get_quote
          market : {0} \cup Prices,     \* price read by execute_trade
          result : {"none", "no quote", "raised", "ok", "failed"},
          executed : {0} \cup Prices]   \* executed_price of the result

\* Types of the state.
ExchangeTypeOK ==
    /\ price \in Prices
    /\ trade \in [Trades -> Trade]
    /\ orders \in [Trades -> Nat]
    /\ lost \in SUBSET Trades
    /\ during \in [Trades -> SUBSET Prices]

ExchangeInit ==
    /\ price = 1
    /\ trade = [t \in Trades |-> [pc |-> "idle", quote |-> 0, market |-> 0,
                                  result |-> "none", executed |-> 0]]
    /\ orders = [t \in Trades |-> 0]
    /\ lost = {}
    /\ during = [t \in Trades |-> {}]

-----------------------------------------------------------------------------
\* Trade t takes the fields of r; the exchange is as it was.
Becomes(t, r) ==
    /\ trade' = [trade EXCEPT ![t] = r]
    /\ UNCHANGED <<price, during>>

Ends(t, result, executed) ==
    Becomes(t, [trade[t] EXCEPT !.pc = "done", !.result = result, !.executed = executed])

\* get_quote of adapter dex has read the price; the trade goes on to pc.
HasPrice(t, dex, pc) ==
    /\ trade[t].pc = "idle" /\ Dex[t] = dex
    /\ Becomes(t, [trade[t] EXCEPT !.pc = pc, !.quote = price])
    /\ UNCHANGED <<orders, lost>>

\* GMX: get_market, and then the gas price.
QuoteOfGmx(t) == HasPrice(t, "gmx", "gas")

\* dYdX: get_market.  The price change of a day is what it calls the price impact.
QuoteOfDydx(t) == HasPrice(t, "dydx", "quoted")

\* Uniswap: one request, and every exception is caught.
QuoteOfUniswap(t) == HasPrice(t, "uniswap", "quoted")

\* The gas price of GMX is a number, or the default "0".
Gas(t) ==
    /\ trade[t].pc = "gas"
    /\ Becomes(t, [trade[t] EXCEPT !.pc = "quoted"])
    /\ UNCHANGED <<orders, lost>>

\* No market, no 200, an exception inside the client: price "0", a QuoteError.
NoQuote(t) ==
    /\ trade[t].pc = "idle"
    /\ Ends(t, "no quote", 0)
    /\ UNCHANGED <<orders, lost>>

\* Decimal, float or int of what the exchange answered raises in get_quote, which
\* only Uniswap catches; the exception leaves execute_trade of the orchestrator.
QuoteRaises(t) ==
    /\ \/ trade[t].pc = "idle" /\ Dex[t] # "uniswap"
       \/ trade[t].pc = "gas"
    /\ Ends(t, "raised", 0)
    /\ UNCHANGED <<orders, lost>>

\* The risk check has passed: the orchestrator calls execute_trade of the adapter.
Execute(t) ==
    /\ trade[t].pc = "quoted"
    /\ trade' = [trade EXCEPT ![t].pc = "market"]
    /\ during' = [during EXCEPT ![t] = {price}]
    /\ UNCHANGED <<price, orders, lost>>

\* Mutant of PriceToReport: the price of the quote.
QuotedPrice(t) == trade[t].quote

\* executed_price: the price that this execute_trade has read.
PriceToReport(t) == trade[t].market

\* execute_trade has read the market.
Read(t) == [trade[t] EXCEPT !.market = price]

\* GMX: get_market, then the order.
ReadMarket(t) ==
    /\ trade[t].pc = "market" /\ Dex[t] = "gmx"
    /\ Becomes(t, [Read(t) EXCEPT !.pc = "order"])
    /\ UNCHANGED <<orders, lost>>

\* Adapter dex reads the price once more and reports the trade as executed; there
\* is no order.
Pretend(t, dex) ==
    /\ trade[t].pc = "market" /\ Dex[t] = dex
    /\ Becomes(t, [Read(t) EXCEPT !.pc = "done", !.result = "ok", !.executed = price])
    /\ UNCHANGED <<orders, lost>>

\* dYdX: get_market, and a mock order id from create_order, which makes no request.
PretendOfDydx(t) == Pretend(t, "dydx")

\* Uniswap: get_quote again, and a hash made of the side and the amount.
PretendOfUniswap(t) == Pretend(t, "uniswap")

\* No market, or no second quote.
NoMarket(t) ==
    /\ trade[t].pc = "market"
    /\ Ends(t, "failed", 0)
    /\ UNCHANGED <<orders, lost>>

\* GMX: the exchange takes the order and its answer has an order id.
OrderAccepted(t) ==
    /\ trade[t].pc = "order"
    /\ orders' = [orders EXCEPT ![t] = @ + 1]
    /\ Ends(t, "ok", PriceToReport(t))
    /\ UNCHANGED lost

\* Mutant of OrderLost: the order is sent again when its answer is lost.
OrderSentAgain(t) ==
    /\ trade[t].pc = "order"
    /\ orders[t] < 2
    /\ orders' = [orders EXCEPT ![t] = @ + 1]
    /\ lost' = lost \cup {t}
    /\ UNCHANGED <<price, trade, during>>

\* GMX: the exchange takes the order, and the answer times out, is no JSON or has
\* no order id: create_order returns {} and the trade has failed.
OrderLost(t) ==
    /\ trade[t].pc = "order"
    /\ orders' = [orders EXCEPT ![t] = @ + 1]
    /\ lost' = lost \cup {t}
    /\ Ends(t, "failed", 0)

\* GMX: the exchange does not take the order.
OrderRefused(t) ==
    /\ trade[t].pc = "order"
    /\ Ends(t, "failed", 0)
    /\ UNCHANGED <<orders, lost>>

\* The price moves.
Move(p) ==
    /\ price' = p
    /\ during' = [t \in Trades |-> IF trade[t].pc \in {"market", "order"}
                                   THEN during[t] \cup {p} ELSE during[t]]
    /\ UNCHANGED <<trade, orders, lost>>

ExchangeNext ==
    \/ \E t \in Trades :
          \/ QuoteOfGmx(t) \/ QuoteOfDydx(t) \/ QuoteOfUniswap(t)
          \/ Gas(t) \/ NoQuote(t) \/ QuoteRaises(t)
          \/ Execute(t)
          \/ ReadMarket(t) \/ PretendOfDydx(t) \/ PretendOfUniswap(t) \/ NoMarket(t)
          \/ OrderAccepted(t) \/ OrderLost(t) \/ OrderRefused(t)
    \/ \E p \in Prices \ {price} : Move(p)

ExchangeSpec == ExchangeInit /\ [][ExchangeNext]_exchangeVars

-----------------------------------------------------------------------------
\* However the answers come, a trade has at most one order at the exchange; a GMX
\* trade that is reported as executed has one, and one that is reported as failed
\* has one only if the answer to the order was lost.
OneOrderATrade ==
    \A t \in Trades :
        /\ orders[t] <= 1
        /\ trade[t].result = "ok" /\ Dex[t] = "gmx" => orders[t] = 1
        /\ trade[t].pc = "done" /\ orders[t] = 1 => trade[t].result = "ok" \/ t \in lost

\* The executed price that is reported is one the market had while the trade was
\* being executed, however old its quote is by then.
ReportedPriceIsCurrent ==
    \A t \in Trades : trade[t].result = "ok" => trade[t].executed \in during[t]
=============================================================================
