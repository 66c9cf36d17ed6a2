--------------------------- MODULE ServicesProofs ---------------------------
(***************************************************************************)
(* Theorems about Exchange, Airdrop, AirdropRules, Sessions and            *)
(* RateLimiter: the five modules share no variable, and each theorem is    *)
(* about one of them.                                                      *)
(***************************************************************************)
EXTENDS Exchange, Airdrop, AirdropRules, Sessions, RateLimiter, FiniteSetTheorems, TLAPS

-----------------------------------------------------------------------------
(* Exchange.                                                               *)

(* What the place of a trade says about its order and the prices it read.  *)
TradeInv(t) ==
    /\ trade[t].pc # "done" => orders[t] = 0 /\ trade[t].result = "none"
    /\ trade[t].pc = "done" => trade[t].result # "none"
    /\ trade[t].pc \in {"market", "order"} => price \in during[t]
    /\ trade[t].pc = "order" => trade[t].market \in during[t] /\ Dex[t] = "gmx"
    /\ orders[t] <= 1
    /\ trade[t].result = "ok" /\ Dex[t] = "gmx" => orders[t] = 1
    /\ trade[t].pc = "done" /\ orders[t] = 1 => trade[t].result = "ok" \/ t \in lost
    /\ trade[t].result = "ok" => trade[t].executed \in during[t]

ExchangeInv == ExchangeTypeOK /\ \A t \in Trades : TradeInv(t)

\* The step of one trade.
TradeStep(t) ==
    \/ QuoteOfGmx(t) \/ QuoteOfDydx(t) \/ QuoteOfUniswap(t)
    \/ Gas(t) \/ NoQuote(t) \/ QuoteRaises(t)
    \/ Execute(t)
    \/ ReadMarket(t) \/ PretendOfDydx(t) \/ PretendOfUniswap(t) \/ NoMarket(t)
    \/ OrderAccepted(t) \/ OrderLost(t) \/ OrderRefused(t)

(* The invariant holds at first.                                            *)
LEMMA ExchangeInitInv == ExchangeInit => ExchangeInv
  BY PriceAssumption
     DEF ExchangeInit, ExchangeInv, ExchangeTypeOK, TradeInv, Trade, Prices

(* What Ends makes of a trade.                                             *)
LEMMA EndsWhat ==
  ASSUME ExchangeTypeOK, NEW t \in Trades, NEW e \in {0} \cup Prices,
         NEW result \in {"no quote", "raised", "ok", "failed"}, Ends(t, result, e)
  PROVE  /\ trade' \in [Trades -> Trade]
         /\ trade'[t].pc = "done" /\ trade'[t].result = result /\ trade'[t].executed = e
         /\ \A u \in Trades : u # t => trade'[u] = trade[u]
         /\ price' = price /\ during' = during
<1> DEFINE r == [trade[t] EXCEPT !.pc = "done", !.result = result, !.executed = e]
<1>1. trade[t] \in Trade
  BY DEF ExchangeTypeOK
<1>2. r \in Trade
  BY <1>1 DEF Trade
<1>3. /\ r.pc = "done" /\ r.result = result /\ r.executed = e
      /\ r.quote = trade[t].quote /\ r.market = trade[t].market
  BY <1>1 DEF Trade
<1>4. Becomes(t, r)
  BY DEF Ends
<1> HIDE DEF r
<1>5. trade' = [trade EXCEPT ![t] = r] /\ price' = price /\ during' = during
  BY <1>4 DEF Becomes
<1>6. trade' \in [Trades -> Trade] /\ trade'[t] = r /\ \A u \in Trades : u # t => trade'[u] = trade[u]
  BY <1>2, <1>5 DEF ExchangeTypeOK
<1> QED
  BY <1>3, <1>5, <1>6

(* A step of a trade keeps the types and leaves the other trades alone.     *)
LEMMA TradeStepType ==
  ASSUME ExchangeInv, NEW t \in Trades, TradeStep(t)
  PROVE  /\ ExchangeTypeOK'
         /\ price' = price
         /\ \A u \in Trades : u # t =>
              /\ trade'[u] = trade[u] /\ orders'[u] = orders[u]
              /\ during'[u] = during[u] /\ (u \in lost' <=> u \in lost)
<1> USE DEF ExchangeInv, ExchangeTypeOK
<1>1. trade[t] \in Trade /\ price \in Prices /\ orders[t] \in Nat
  OBVIOUS
<1>2. CASE QuoteOfGmx(t) \/ QuoteOfDydx(t) \/ QuoteOfUniswap(t)
  <2>1. PICK pc \in {"gas", "quoted"} :
           /\ trade[t].pc = "idle"
           /\ trade' = [trade EXCEPT ![t] = [trade[t] EXCEPT !.pc = pc, !.quote = price]]
           /\ UNCHANGED <<price, during, orders, lost>>
    BY <1>2 DEF QuoteOfGmx, QuoteOfDydx, QuoteOfUniswap, HasPrice, Becomes
  <2> QED
    BY <1>1, <2>1 DEF Trade
<1>3. CASE Gas(t)
  BY <1>1, <1>3 DEF Gas, Becomes, Trade
<1>4. CASE NoQuote(t) \/ QuoteRaises(t) \/ NoMarket(t) \/ OrderRefused(t)
  <2>1. PICK result \in {"no quote", "raised", "failed"} : Ends(t, result, 0)
    BY <1>4 DEF NoQuote, QuoteRaises, NoMarket, OrderRefused
  <2>4. /\ trade' \in [Trades -> Trade] /\ price' = price /\ during' = during
        /\ trade'[t].pc = "done" /\ trade'[t].result = result /\ trade'[t].executed = 0
        /\ \A u \in Trades : u # t => trade'[u] = trade[u]
    BY <1>1, <2>1, EndsWhat
  <2>2. orders' = orders /\ lost' = lost
    BY <1>4 DEF NoQuote, QuoteRaises, NoMarket, OrderRefused
  <2>3. trade[t].pc # "done"
    BY <1>4 DEF NoQuote, QuoteRaises, NoMarket, OrderRefused
  <2> QED
    BY <1>1, <2>2, <2>3, <2>4
<1>5. CASE Execute(t)
  BY <1>1, <1>5 DEF Execute, Trade
<1>6. CASE ReadMarket(t)
  BY <1>1, <1>6 DEF ReadMarket, Read, Becomes, Trade
<1>7. CASE PretendOfDydx(t) \/ PretendOfUniswap(t)
  <2>1. /\ trade[t].pc = "market" /\ Dex[t] \in {"dydx", "uniswap"}
        /\ trade' = [trade EXCEPT ![t] = [Read(t) EXCEPT !.pc = "done", !.result = "ok",
                                                        !.executed = price]]
        /\ UNCHANGED <<price, during, orders, lost>>
    BY <1>7 DEF PretendOfDydx, PretendOfUniswap, Pretend, Becomes
  <2> QED
    BY <1>1, <2>1 DEF Read, Trade
<1>8. CASE OrderAccepted(t)
  <2>1. Ends(t, "ok", trade[t].market) /\ trade[t].market \in {0} \cup Prices
    BY <1>1, <1>8 DEF OrderAccepted, PriceToReport, Trade
  <2>2. /\ trade' \in [Trades -> Trade] /\ price' = price /\ during' = during
        /\ trade'[t].pc = "done" /\ trade'[t].result = "ok" /\ trade'[t].executed = trade[t].market
        /\ \A u \in Trades : u # t => trade'[u] = trade[u]
    BY <1>1, <2>1, EndsWhat
  <2>3. orders' \in [Trades -> Nat] /\ lost' = lost /\ \A u \in Trades : u # t => orders'[u] = orders[u]
    BY <1>1, <1>8 DEF OrderAccepted
  <2> QED
    BY <2>2, <2>3
<1>9. CASE OrderLost(t)
  <2>1. Ends(t, "failed", 0)
    BY <1>9 DEF OrderLost
  <2>2. /\ trade' \in [Trades -> Trade] /\ price' = price /\ during' = during
        /\ trade'[t].pc = "done" /\ trade'[t].result = "failed" /\ trade'[t].executed = 0
        /\ \A u \in Trades : u # t => trade'[u] = trade[u]
    BY <1>1, <2>1, EndsWhat
  <2>3. orders' \in [Trades -> Nat] /\ \A u \in Trades : u # t => orders'[u] = orders[u]
    BY <1>1, <1>9 DEF OrderLost
  <2>4. lost' \in SUBSET Trades /\ \A u \in Trades : u # t => (u \in lost' <=> u \in lost)
    BY <1>9 DEF OrderLost
  <2> QED
    BY <2>2, <2>3, <2>4
<1> QED
  BY <1>2, <1>3, <1>4, <1>5, <1>6, <1>7, <1>8, <1>9 DEF TradeStep

(* For the provers, which take it from no trade's record.                   *)
LEMMA NoneIsAtMostOne == \A n : n = 0 => n <= 1 /\ n # 1
  OBVIOUS

(* A trade that ends without an order fits its place.                       *)
LEMMA EndedWithoutOrder ==
  ASSUME NEW t \in Trades, trade'[t].pc = "done", orders'[t] = 0,
         trade'[t].result \in {"no quote", "raised", "failed"}
  PROVE  TradeInv(t)'
<1>1. orders'[t] <= 1 /\ orders'[t] # 1
  BY NoneIsAtMostOne, Zenon
<1>2. trade'[t].result \notin {"none", "ok"}
  OBVIOUS
<1>3. trade'[t].pc = "done"
  OBVIOUS
<1>4. trade'[t].pc \notin {"market", "order"}
  OBVIOUS
<1> QED
  BY <1>1, <1>2, <1>3, <1>4 DEF TradeInv

(* A step of a trade keeps what its place says of it.                       *)
LEMMA TradeStepInv ==
  ASSUME ExchangeInv, NEW t \in Trades, TradeStep(t)
  PROVE  TradeInv(t)'
<1> USE DEF ExchangeInv, ExchangeTypeOK, TradeInv
<1>1. trade[t] \in Trade /\ price \in Prices /\ orders[t] \in Nat /\ TradeInv(t)
  OBVIOUS
<1>2. CASE QuoteOfGmx(t) \/ QuoteOfDydx(t) \/ QuoteOfUniswap(t)
  <2>1. PICK pc \in {"gas", "quoted"} :
           /\ trade[t].pc = "idle"
           /\ trade' = [trade EXCEPT ![t] = [trade[t] EXCEPT !.pc = pc, !.quote = price]]
           /\ UNCHANGED <<price, during, orders, lost>>
    BY <1>2 DEF QuoteOfGmx, QuoteOfDydx, QuoteOfUniswap, HasPrice, Becomes
  <2> QED
    BY <1>1, <2>1 DEF Trade
<1>3. CASE Gas(t)
  BY <1>1, <1>3 DEF Gas, Becomes, Trade
<1>4. CASE NoQuote(t) \/ QuoteRaises(t) \/ NoMarket(t) \/ OrderRefused(t)
  <2>1. PICK result \in {"no quote", "raised", "failed"} : Ends(t, result, 0)
    BY <1>4 DEF NoQuote, QuoteRaises, NoMarket, OrderRefused
  <2>3. trade'[t].pc = "done" /\ trade'[t].result = result
    BY <1>1, <2>1 DEF Ends, Becomes, Trade
  <2>4. orders' = orders /\ lost' = lost
    BY <1>4 DEF NoQuote, QuoteRaises, NoMarket, OrderRefused
  <2>5. trade[t].pc # "done"
    BY <1>4 DEF NoQuote, QuoteRaises, NoMarket, OrderRefused
  <2>6. orders'[t] = 0
    BY <1>1, <2>4, <2>5
  <2>7. trade'[t].result \in {"no quote", "raised", "failed"}
    BY <2>1, <2>3
  <2> QED
    BY <2>3, <2>6, <2>7, EndedWithoutOrder
<1>5. CASE Execute(t)
  BY <1>1, <1>5 DEF Execute, Trade
<1>6. CASE ReadMarket(t)
  BY <1>1, <1>6 DEF ReadMarket, Read, Becomes, Trade
<1>7. CASE PretendOfDydx(t) \/ PretendOfUniswap(t)
  <2>1. /\ trade[t].pc = "market" /\ Dex[t] \in {"dydx", "uniswap"}
        /\ trade' = [trade EXCEPT ![t] = [Read(t) EXCEPT !.pc = "done", !.result = "ok",
                                                        !.executed = price]]
        /\ UNCHANGED <<price, during, orders, lost>>
    BY <1>7 DEF PretendOfDydx, PretendOfUniswap, Pretend, Becomes
  <2> QED
    BY <1>1, <2>1 DEF Read, Trade
<1>8. CASE OrderAccepted(t)
  <2>1. Ends(t, "ok", trade[t].market) /\ trade[t].market \in {0} \cup Prices
    BY <1>1, <1>8 DEF OrderAccepted, PriceToReport, Trade
  <2>2. /\ trade' \in [Trades -> Trade] /\ price' = price /\ during' = during
        /\ trade'[t].pc = "done" /\ trade'[t].result = "ok" /\ trade'[t].executed = trade[t].market
        /\ \A u \in Trades : u # t => trade'[u] = trade[u]
    BY <1>1, <2>1, EndsWhat
  <2> QED
    BY <1>1, <1>8, <2>2 DEF OrderAccepted
<1>9. CASE OrderLost(t)
  <2>1. Ends(t, "failed", 0)
    BY <1>9 DEF OrderLost
  <2>2. /\ trade' \in [Trades -> Trade] /\ price' = price /\ during' = during
        /\ trade'[t].pc = "done" /\ trade'[t].result = "failed" /\ trade'[t].executed = 0
        /\ \A u \in Trades : u # t => trade'[u] = trade[u]
    BY <1>1, <2>1, EndsWhat
  <2> QED
    BY <1>1, <1>9, <2>2 DEF OrderLost
<1> QED
  BY <1>2, <1>3, <1>4, <1>5, <1>6, <1>7, <1>8, <1>9 DEF TradeStep

(* Every step keeps it: one trade's, or the price's.                        *)
LEMMA ExchangeNextInv == ExchangeInv /\ [ExchangeNext]_exchangeVars => ExchangeInv'
<1> SUFFICES ASSUME ExchangeInv, [ExchangeNext]_exchangeVars PROVE ExchangeInv'
  OBVIOUS
<1>1. ASSUME NEW t \in Trades, TradeStep(t) PROVE ExchangeInv'
  <2>1. ASSUME NEW u \in Trades PROVE TradeInv(u)'
    <3>1. CASE u = t
      BY <1>1, <3>1, TradeStepInv
    <3>2. CASE u # t
      BY <1>1, <3>2, TradeStepType DEF ExchangeInv, TradeInv
    <3> QED
      BY <3>1, <3>2
  <2> QED
    BY <1>1, <2>1, TradeStepType DEF ExchangeInv
<1>2. ASSUME NEW p \in Prices, Move(p) PROVE ExchangeInv'
  BY <1>2 DEF Move, ExchangeInv, ExchangeTypeOK, TradeInv
<1>3. CASE UNCHANGED exchangeVars
  BY <1>3 DEF exchangeVars, ExchangeInv, ExchangeTypeOK, TradeInv
<1> QED
  BY <1>1, <1>2, <1>3 DEF ExchangeNext, TradeStep

(* The places of the trades say of their orders and prices what TradeInv    *)
(* lists.                                                                   *)
THEOREM ExchangeSafety == ExchangeSpec => []ExchangeInv
  BY ExchangeInitInv, ExchangeNextInv, PTL DEF ExchangeSpec

(* The trades, their orders and the prices keep their types.                *)
THEOREM ExchangeTypes == ExchangeSpec => []ExchangeTypeOK
<1>1. ExchangeInv => ExchangeTypeOK
  BY DEF ExchangeInv
<1> QED
  BY <1>1, ExchangeSafety, PTL

(* No trade has two orders, and its result tells whether it has one, except *)
(* when the answer to the order was lost.                                   *)
THEOREM NoTradeOrdersTwice == ExchangeSpec => []OneOrderATrade
<1>1. ExchangeInv => OneOrderATrade
  BY DEF ExchangeInv, TradeInv, OneOrderATrade
<1> QED
  BY <1>1, ExchangeSafety, PTL

(* The executed price reported is one the market had during the execution.  *)
THEOREM ReportsAreCurrent == ExchangeSpec => []ReportedPriceIsCurrent
<1>1. ExchangeInv => ReportedPriceIsCurrent
  BY DEF ExchangeInv, TradeInv, ReportedPriceIsCurrent
<1> QED
  BY <1>1, ExchangeSafety, PTL

-----------------------------------------------------------------------------
(* Airdrop.                                                                 *)

(* What a call in progress still knows of the rows, and what a late list will *)
(* meet.                                                                      *)
ACallInv(c) ==
    /\ acall[c].op \in {"idle", "insert"} => row[c] = NoRow
    /\ acall[c].op \in {"insert", "write"} => acall[c].asked \in Values
    /\ acall[c].op = "insert" => acall[c].campaign \in Campaigns
    /\ acall[c].op = "write" =>
          /\ acall[c].loaded \in Values
          /\ acall[c].id \in AirdropCalls /\ row[acall[c].id] # NoRow
    /\ c \in late => acall[c].op \in {"list", "raised"}
    /\ c \in late /\ acall[c].op = "list" => \E k \in acall[c].left : Duplicated(k)

AirdropInv == AirdropTypeOK /\ RowsAreWhole /\ \A c \in AirdropCalls : ACallInv(c)

(* A row that is none is no row.                                            *)
LEMMA NoRowIsNoRow == NoRow \notin Row
<1> SUFFICES ASSUME NoRow \in Row PROVE FALSE
  OBVIOUS
<1>1. DOMAIN NoRow = {"campaign"}
  BY DEF NoRow
<1>2. DOMAIN NoRow = {"campaign", "values"}
  BY DEF Row
<1> QED
  BY <1>1, <1>2

(* A call whose rows stay where they are keeps what it knows.               *)
LEMMA OthersKeepWhatTheyKnow ==
  ASSUME AirdropInv, NEW c \in AirdropCalls,
         acall'[c] = acall[c], c \in late' <=> c \in late,
         \A r \in AirdropCalls : row[r] # NoRow => row'[r] # NoRow /\ row'[r].campaign = row[r].campaign,
         acall[c].op \in {"idle", "insert"} => row'[c] = row[c]
  PROVE  ACallInv(c)'
<1>1. ACallInv(c)
  BY DEF AirdropInv
<1>2. \A k : Duplicated(k) => Duplicated(k)'
  BY DEF Duplicated, RowsOf
<1> QED
  BY <1>1, <1>2 DEF ACallInv

(* The step of one call.                                                    *)
AirdropStep(c) ==
    \/ \E k \in Campaigns, v \in Values : UpdateRead(c, k, v)
    \/ CommitInsert(c) \/ CommitWrite(c) \/ CommitRaises(c)
    \/ ListBegin(c)
    \/ \E k \in Campaigns : ListRead(c, k)

(* A step of one call keeps the invariant of all.                           *)
LEMMA AirdropStepInv ==
  ASSUME AirdropInv, NEW c \in AirdropCalls, AirdropStep(c)
  PROVE  AirdropInv'
<1>1. ACallInv(c) /\ acall[c] \in ACall /\ AirdropTypeOK /\ RowsAreWhole
  BY DEF AirdropInv, AirdropTypeOK
<1>2. CASE \E k \in Campaigns, v \in Values : UpdateRead(c, k, v)
  <2>1. PICK k \in Campaigns, v \in Values : UpdateRead(c, k, v)
    BY <1>2
  <2>2. UNCHANGED <<row, last, contested>> /\ acall[c].op = "idle" /\ c \notin late
    BY <1>1, <2>1 DEF UpdateRead, ACallInv
  <2>3. PICK new :
          /\ acall' = [acall EXCEPT ![c] = new]
          /\ \/ /\ ~Duplicated(k) /\ \E r \in RowsOf(k) :
                     new = [NoCall EXCEPT !.op = "write", !.campaign = k, !.id = r,
                                          !.asked = v, !.loaded = row[r].values]
             \/ /\ RowsOf(k) = {}
                /\ new = [NoCall EXCEPT !.op = "insert", !.campaign = k, !.asked = v]
             \/ new = [NoCall EXCEPT !.op = "raised"]
    BY <2>1 DEF UpdateRead, Unreadable
  <2>4. late' = IF Duplicated(k) THEN late \cup {c} ELSE late
    BY <2>1 DEF UpdateRead, NoteLate
  <2>5. \A r \in RowsOf(k) : r \in AirdropCalls /\ row[r] # NoRow /\ row[r].values \in Values
    BY <1>1 DEF RowsOf, AirdropTypeOK, Row
  <2>6. /\ new \in ACall
        /\ new.op \in {"write", "insert", "raised"}
        /\ new.op \in {"insert", "write"} => new.asked \in Values /\ ~Duplicated(k)
        /\ new.op = "insert" => new.campaign \in Campaigns
        /\ new.op = "write" => /\ new.loaded \in Values
                               /\ new.id \in AirdropCalls /\ row[new.id] # NoRow
    BY <2>3, <2>5 DEF NoCall, ACall, Duplicated
  <2>7. AirdropTypeOK' /\ RowsAreWhole'
    BY <1>1, <2>2, <2>3, <2>4, <2>6 DEF AirdropTypeOK, RowsAreWhole
  <2>8. \A u \in AirdropCalls : u # c => ACallInv(u)'
    BY <1>1, <2>2, <2>3, <2>4, OthersKeepWhatTheyKnow DEF AirdropTypeOK
  <2>9. acall'[c] = new
    BY <1>1, <2>3 DEF AirdropTypeOK
  <2>10. ACallInv(c)'
    BY <1>1, <2>2, <2>4, <2>6, <2>9 DEF ACallInv
  <2> QED
    BY <2>7, <2>8, <2>10 DEF AirdropInv
<1>3. CASE CommitInsert(c)
  <2> DEFINE new == [campaign |-> acall[c].campaign, values |-> acall[c].asked]
  <2>1. /\ row' = [row EXCEPT ![c] = new] /\ last' = [last EXCEPT ![c] = acall[c].asked]
        /\ acall' = [acall EXCEPT ![c] = [NoCall EXCEPT !.op = "done"]]
        /\ UNCHANGED <<contested, late>>
        /\ acall[c].op = "insert"
    BY <1>3 DEF CommitInsert, End
  <2>2. row[c] = NoRow /\ new \in Row /\ acall[c].asked \in Values /\ new.values = acall[c].asked
    BY <1>1, <2>1 DEF ACallInv, Row
  <2>3. [NoCall EXCEPT !.op = "done"] \in ACall
    BY DEF NoCall, ACall
  <2> HIDE DEF new
  <2>4. AirdropTypeOK' /\ RowsAreWhole'
    BY <1>1, <2>1, <2>2, <2>3 DEF AirdropTypeOK, RowsAreWhole
  <2>5. \A u \in AirdropCalls : u # c => ACallInv(u)'
    BY <1>1, <2>1, <2>2, NoRowIsNoRow, OthersKeepWhatTheyKnow DEF AirdropTypeOK
  <2>6. ACallInv(c)'
    BY <1>1, <2>1 DEF ACallInv, AirdropTypeOK, NoCall
  <2> QED
    BY <2>4, <2>5, <2>6 DEF AirdropInv
<1>4. CASE CommitWrite(c)
  <2> DEFINE r == acall[c].id
             merged == Merged(acall[c].asked, acall[c].loaded, row[r].values)
  <2>1. /\ row' = [row EXCEPT ![r].values = merged] /\ last' = [last EXCEPT ![r] = acall[c].asked]
        /\ contested' = IF row[r].values = acall[c].loaded THEN contested \ {r}
                        ELSE contested \cup {r}
        /\ acall' = [acall EXCEPT ![c] = [NoCall EXCEPT !.op = "done"]]
        /\ late' = late
        /\ acall[c].op = "write"
    BY <1>4 DEF CommitWrite, End
  <2>2. /\ r \in AirdropCalls /\ row[r] # NoRow
        /\ acall[c].asked \in Values /\ acall[c].loaded \in Values
    BY <1>1, <2>1 DEF ACallInv
  <2>3. row[r] \in Row /\ row[r].values \in Values
    BY <1>1, <2>2 DEF AirdropTypeOK, Row
  <2>4. merged \in Values /\ (row[r].values = acall[c].loaded => merged = acall[c].asked)
    BY <2>2, <2>3 DEF Merged, Values
  <2> HIDE DEF r, merged
  <2>5. /\ row' \in [AirdropCalls -> Row \cup {NoRow}]
        /\ row'[r] \in Row /\ row'[r].values = merged /\ row'[r].campaign = row[r].campaign
        /\ \A u \in AirdropCalls : u # r => row'[u] = row[u]
    BY <1>1, <2>1, <2>2, <2>3, <2>4 DEF AirdropTypeOK, Row
  <2>6. [NoCall EXCEPT !.op = "done"] \in ACall
    BY DEF NoCall, ACall
  <2>7. AirdropTypeOK'
    BY <1>1, <2>1, <2>2, <2>5, <2>6 DEF AirdropTypeOK
  <2>8. RowsAreWhole'
    BY <1>1, <2>1, <2>2, <2>4, <2>5 DEF AirdropTypeOK, RowsAreWhole
  <2>9. \A u \in AirdropCalls : u # c => ACallInv(u)'
    <3>1. \A u \in AirdropCalls : u # c => acall'[u] = acall[u] /\ (u \in late' <=> u \in late)
      BY <1>1, <2>1 DEF AirdropTypeOK
    <3>2. \A u \in AirdropCalls :
             row[u] # NoRow => row'[u] # NoRow /\ row'[u].campaign = row[u].campaign
      BY <2>5, NoRowIsNoRow
    <3>3. \A u \in AirdropCalls : acall[u].op \in {"idle", "insert"} => row'[u] = row[u]
      BY <2>2, <2>5 DEF AirdropInv, ACallInv
    <3> QED
      BY <3>1, <3>2, <3>3, OthersKeepWhatTheyKnow
  <2>10. ACallInv(c)'
    BY <1>1, <2>1 DEF ACallInv, AirdropTypeOK, NoCall
  <2> QED
    BY <2>7, <2>8, <2>9, <2>10 DEF AirdropInv
<1>5. CASE CommitRaises(c)
  <2>1. acall' = [acall EXCEPT ![c] = [NoCall EXCEPT !.op = "raised"]]
    BY <1>5 DEF CommitRaises, End
  <2>2. UNCHANGED <<row, last, contested, late>>
    BY <1>5 DEF CommitRaises
  <2>3. [NoCall EXCEPT !.op = "raised"] \in ACall
    BY DEF NoCall, ACall
  <2>4. AirdropTypeOK' /\ RowsAreWhole'
    BY <1>1, <2>1, <2>2, <2>3 DEF AirdropTypeOK, RowsAreWhole
  <2>5. \A u \in AirdropCalls : u # c => ACallInv(u)'
    BY <1>1, <2>1, <2>2, OthersKeepWhatTheyKnow DEF AirdropTypeOK
  <2>6. ACallInv(c)'
    BY <1>1, <2>1, <2>2 DEF ACallInv, AirdropTypeOK, NoCall
  <2> QED
    BY <2>4, <2>5, <2>6 DEF AirdropInv
<1>6. CASE ListBegin(c)
  <2> DEFINE new == [NoCall EXCEPT !.op = "list", !.left = Campaigns]
  <2>1. /\ acall' = [acall EXCEPT ![c] = new] /\ UNCHANGED <<row, last, contested>>
        /\ late' = IF \E k \in Campaigns : Duplicated(k) THEN late \cup {c} ELSE late
        /\ acall[c].op = "idle"
    BY <1>6 DEF ListBegin, NoteLate
  <2>2. new \in ACall /\ new.op = "list" /\ new.left = Campaigns
    BY DEF NoCall, ACall
  <2> HIDE DEF new
  <2>3. AirdropTypeOK' /\ RowsAreWhole'
    BY <1>1, <2>1, <2>2 DEF AirdropTypeOK, RowsAreWhole
  <2>4. \A u \in AirdropCalls : u # c => ACallInv(u)'
    BY <1>1, <2>1, OthersKeepWhatTheyKnow DEF AirdropTypeOK
  <2>5. acall'[c] = new /\ c \notin late /\ (c \in late' => \E k \in Campaigns : Duplicated(k))
    BY <1>1, <2>1 DEF AirdropTypeOK, ACallInv
  <2>6. \A k : Duplicated(k)' <=> Duplicated(k)
    BY <2>1 DEF Duplicated, RowsOf
  <2>7. ACallInv(c)'
    BY <2>2, <2>5, <2>6 DEF ACallInv
  <2> QED
    BY <2>3, <2>4, <2>7 DEF AirdropInv
<1>7. CASE \E k \in Campaigns : ListRead(c, k)
  <2>1. PICK k \in Campaigns : ListRead(c, k)
    BY <1>7
  <2>2. UNCHANGED <<row, last, contested, late>> /\ acall[c].op = "list" /\ k \in acall[c].left
    BY <2>1 DEF ListRead
  <2>3. PICK new :
          /\ acall' = [acall EXCEPT ![c] = new]
          /\ \/ new = [NoCall EXCEPT !.op = "raised"]
             \/ /\ ~Duplicated(k) /\ acall[c].left = {k}
                /\ new = [NoCall EXCEPT !.op = "done"]
             \/ /\ ~Duplicated(k)
                /\ new = [acall[c] EXCEPT !.left = acall[c].left \ {k}]
    BY <1>1, <2>1 DEF ListRead, End, Unreadable, AirdropTypeOK
  <2>4. new \in ACall /\ new.op \in {"raised", "done", "list"}
    BY <1>1, <2>2, <2>3 DEF NoCall, ACall
  <2>5. c \in late => /\ new.op \in {"list", "raised"}
                      /\ new.op = "list" => \E m \in new.left : Duplicated(m)
    BY <1>1, <2>2, <2>3 DEF ACallInv, NoCall, ACall
  <2>6. AirdropTypeOK' /\ RowsAreWhole'
    BY <1>1, <2>2, <2>3, <2>4 DEF AirdropTypeOK, RowsAreWhole
  <2>7. \A u \in AirdropCalls : u # c => ACallInv(u)'
    BY <1>1, <2>2, <2>3, OthersKeepWhatTheyKnow DEF AirdropTypeOK
  <2>8. acall'[c] = new
    BY <1>1, <2>3 DEF AirdropTypeOK
  <2>9. \A m : Duplicated(m)' <=> Duplicated(m)
    BY <2>2 DEF Duplicated, RowsOf
  <2>10. ACallInv(c)'
    BY <2>2, <2>4, <2>5, <2>8, <2>9 DEF ACallInv
  <2> QED
    BY <2>6, <2>7, <2>10 DEF AirdropInv
<1> QED
  BY <1>2, <1>3, <1>4, <1>5, <1>6, <1>7 DEF AirdropStep

(* Every step of a call, and a stutter, keeps the invariant.                *)
LEMMA AirdropNextInv == AirdropInv /\ [AirdropNext]_airdropVars => AirdropInv'
<1>1. AirdropInv /\ UNCHANGED airdropVars => AirdropInv'
  BY DEF airdropVars, AirdropInv, AirdropTypeOK, RowsAreWhole, ACallInv, Duplicated, RowsOf
<1>2. AirdropNext <=> \E c \in AirdropCalls : AirdropStep(c)
  BY DEF AirdropNext, AirdropStep
<1> QED
  BY <1>1, <1>2, AirdropStepInv

(* What the calls know of the rows, and what the rows hold.                 *)
THEOREM AirdropSafety == AirdropSpec => []AirdropInv
<1>1. AirdropInit => AirdropInv
  BY DEF AirdropInit, AirdropInv, AirdropTypeOK, RowsAreWhole, ACallInv, ACall, NoCall
<1> QED
  BY <1>1, AirdropNextInv, PTL DEF AirdropSpec

(* The rows and the calls keep their types.                                 *)
THEOREM AirdropTypes == AirdropSpec => []AirdropTypeOK
<1>1. AirdropInv => AirdropTypeOK
  BY DEF AirdropInv
<1> QED
  BY <1>1, AirdropSafety, PTL

(* Two rows of a campaign end every later update of it and every later list. *)
THEOREM DuplicatesAreForGood == AirdropSpec => []LateCallsRaise
<1>1. AirdropInv => LateCallsRaise
  BY DEF AirdropInv, AirdropTypeOK, ACallInv, LateCallsRaise
<1> QED
  BY <1>1, AirdropSafety, PTL

(* A row mixes two calls only when the one that wrote last had read before   *)
(* the other wrote.                                                          *)
THEOREM OnlyContestedRowsAreMixed == AirdropSpec => []RowsAreWhole
<1>1. AirdropInv => RowsAreWhole
  BY DEF AirdropInv
<1> QED
  BY <1>1, AirdropSafety, PTL

-----------------------------------------------------------------------------
(* AirdropRules.                                                            *)

RulesInv == RulesTypeOK /\ EligibleStays

(* Thresholds are lower limits, and an unknown or optional rule counts never. *)
LEMMA RulesNextInv == RulesInv /\ [RulesNext]_rulesVars => RulesInv'
<1> SUFFICES ASSUME RulesInv, [RulesNext]_rulesVars PROVE RulesInv'
  OBVIOUS
<1> USE DEF RulesInv, RulesTypeOK
<1>1. ASSUME NEW k \in DOMAIN Rules, CheckEligibility(k) PROVE RulesInv'
  BY <1>1 DEF CheckEligibility, EligibleStays, EvaluateRules, Check
<1>2. ASSUME NEW t \in KnownTypes, Grow(t) PROVE RulesInv'
  <2>1. RulesTypeOK'
    BY <1>2 DEF Grow
  <2>2. \A s \in KnownTypes : number'[s] >= number[s]
    BY <1>2 DEF Grow
  <2>3. ASSUME NEW k \in eligible, NEW i \in 1 .. Len(Rules[k]),
               Created(Rules[k][i]), Check(Rules[k][i], number)
        PROVE  Check(Rules[k][i], number')
    <3>1. Rules[k][i] \in Rule
      BY RulesAssumption
    <3>2. Rules[k][i].least \in Nat /\ Rules[k][i].type \in KnownTypes
      BY <2>3, <3>1 DEF Rule, Created
    <3> QED
      BY <1>2, <2>2, <2>3, <3>2 DEF Check, Grow
  <2> QED
    BY <1>2, <2>1, <2>3 DEF Grow, EligibleStays, EvaluateRules
<1>3. CASE UNCHANGED rulesVars
  BY <1>3 DEF rulesVars, EligibleStays, EvaluateRules, Check
<1> QED
  BY <1>1, <1>2, <1>3 DEF RulesNext

(* Growing numbers never cost a user its eligibility, whatever the rules.   *)
THEOREM EligibilityIsKept == RulesSpec => []EligibleStays
<1>1. RulesInit => RulesInv
  BY DEF RulesInit, RulesInv, RulesTypeOK, EligibleStays
<1>2. RulesInv => EligibleStays
  BY DEF RulesInv
<1> QED
  BY <1>1, <1>2, RulesNextInv, PTL DEF RulesSpec

-----------------------------------------------------------------------------
(* Sessions.                                                                *)

Works == {r \in Requests : stage[r] = "works"}

Plans == {<<>>, <<"read">>, <<"lapse">>, <<"write", "read">>, <<"verify", "read">>}

(* How far a request is: nothing done, its refresh to do, all done, or raised *)
(* after its commit.                                                         *)
SessionInv(r) ==
    LET plan == Transactions(Route[r]) IN
    \/ /\ todo[r] = plan /\ r \notin stored
       /\ stage[r] = "answered" => plan = <<>>
       /\ stage[r] \in {"waits", "works"} => plan # <<>>
    \/ /\ todo[r] = <<"read">> /\ r \in stored
       /\ plan \in {<<"write", "read">>, <<"verify", "read">>}
       /\ stage[r] \in {"waits", "works", "failed"}
    \/ /\ todo[r] = <<>> /\ stage[r] = "answered"
       /\ plan \in {<<"write", "read">>, <<"verify", "read">>} => r \in stored
    \/ /\ Route[r] = "verify" /\ r \in stored /\ stage[r] = "failed"
       /\ todo[r] = <<"verify", "read">>

SessionsInv ==
    /\ stage \in [Requests -> {"new", "waits", "works", "answered", "failed"}]
    /\ todo \in [Requests -> Plans]
    /\ free \in Nat
    /\ stored \in SUBSET Requests
    /\ NothingLeaks
    /\ \A r \in Requests : SessionInv(r)

(* The plans of the routes, and the only route that verifies.               *)
LEMMA PlanOfRoute ==
  ASSUME NEW q \in Routes
  PROVE  /\ Transactions(q) \in Plans
         /\ Transactions(q) = <<"verify", "read">> <=> q = "verify"
<1> USE DEF Plans, Transactions, ReadOnly, Store, MayLapse, Verify
<1>1. CASE q \in DOMAIN SubscriptionRoutes
  BY <1>1 DEF SubscriptionRoutes
<1>2. CASE q \in DOMAIN PaymentRoutes
  BY <1>2 DEF SubscriptionRoutes, PaymentRoutes
<1>3. CASE q \in DOMAIN TradingRoutes
  BY <1>3 DEF SubscriptionRoutes, PaymentRoutes, TradingRoutes
<1>4. CASE q \in DOMAIN AirdropRoutes
  BY <1>4 DEF SubscriptionRoutes, PaymentRoutes, TradingRoutes, AirdropRoutes
<1>5. CASE q \in DOMAIN DashboardRoutes
  BY <1>5 DEF SubscriptionRoutes, PaymentRoutes, TradingRoutes, AirdropRoutes, DashboardRoutes
<1> QED
  BY <1>1, <1>2, <1>3, <1>4, <1>5 DEF Routes

(* What the current transaction of a plan is, and what comes after it.      *)
LEMMA HeadsAndTails ==
  ASSUME NEW p \in Plans, p # <<>>
  PROVE  /\ Tail(p) \in Plans
         /\ Head(p) \in {"write", "verify"} =>
               p \in {<<"write", "read">>, <<"verify", "read">>} /\ Tail(p) = <<"read">>
         /\ Head(p) \in {"read", "lapse"} => p \in {<<"read">>, <<"lapse">>} /\ Tail(p) = <<>>
         /\ Head(p) = "verify" => p = <<"verify", "read">>
         /\ Head(p) \in {"read", "lapse", "write", "verify"}
         /\ Head(p) = "read" => p = <<"read">>
<1> USE DEF Plans
<1>1. CASE p = <<"read">>
  <2>1. Head(p) = "read" /\ Tail(p) = <<>>
    BY <1>1
  <2> QED
    BY <1>1, <2>1
<1>2. CASE p = <<"lapse">>
  <2>1. Head(p) = "lapse" /\ Tail(p) = <<>>
    BY <1>2
  <2> QED
    BY <1>2, <2>1
<1>3. CASE p = <<"write", "read">>
  <2>1. Head(p) = "write" /\ Tail(p) = <<"read">>
    BY <1>3
  <2> QED
    BY <1>3, <2>1
<1>4. CASE p = <<"verify", "read">>
  <2>1. Head(p) = "verify" /\ Tail(p) = <<"read">>
    BY <1>4
  <2> QED
    BY <1>4, <2>1
<1> QED
  BY <1>1, <1>2, <1>3, <1>4

(* A connection goes to a request, or comes back from it.                    *)
LEMMA ConnectionsAreCounted ==
  ASSUME NothingLeaks, free \in Nat, NEW r \in Requests,
         \/ r \notin Works /\ Works' = Works \cup {r} /\ free > 0 /\ free' = free - 1
         \/ r \in Works /\ Works' = Works \ {r} /\ free' = free + 1
         \/ Works' = Works /\ free' = free
  PROVE  NothingLeaks' /\ free' \in Nat
<1>1. IsFiniteSet(Works) /\ Cardinality(Works) \in Nat
  BY ConnectionsAssumption, FS_Subset, FS_CardinalityType DEF Works
<1>2. free + Cardinality(Works) = Connections
  BY DEF NothingLeaks, Works
<1>3. Cardinality(Works \cup {r}) = IF r \in Works THEN Cardinality(Works) ELSE Cardinality(Works) + 1
  BY <1>1, FS_AddElement
<1>4. Cardinality(Works \ {r}) = IF r \in Works THEN Cardinality(Works) - 1 ELSE Cardinality(Works)
  BY <1>1, FS_RemoveElement
<1>5. free' + Cardinality(Works') = Connections /\ free' \in Nat
  BY <1>1, <1>2, <1>3, <1>4
<1> QED
  BY <1>5 DEF NothingLeaks, Works

(* At first every connection is free and nothing is done.                   *)
LEMMA SessionsInitInv == SessionsInit => SessionsInv
<1> SUFFICES ASSUME SessionsInit PROVE SessionsInv
  OBVIOUS
<1>1. {r \in Requests : stage[r] = "works"} = {}
  BY DEF SessionsInit
<1>2. NothingLeaks
  BY <1>1, FS_EmptySet, ConnectionsAssumption DEF NothingLeaks, SessionsInit
<1>3. \A r \in Requests : Route[r] \in Routes
  BY RouteAssumption
<1>4. \A r \in Requests : Transactions(Route[r]) \in Plans
  BY <1>3, PlanOfRoute
<1> QED
  BY <1>2, <1>4, ConnectionsAssumption DEF SessionsInit, SessionsInv, SessionInv

(* The step of one request.                                                 *)
SessionStep(r) ==
    \/ Arrive(r) \/ CheckOut(r) \/ TimeOut(r)
    \/ Commit(r) \/ CommitAndRaise(r) \/ Finish(r) \/ Abort(r)

(* A step of one request keeps the invariant of all.                        *)
LEMMA SessionStepInv ==
  ASSUME SessionsInv, NEW r \in Requests, SessionStep(r)
  PROVE  SessionsInv'
<1> DEFINE plan == Transactions(Route[r])
<1>1. plan \in Plans /\ (plan = <<"verify", "read">> <=> Route[r] = "verify")
  BY RouteAssumption, PlanOfRoute
<1> HIDE DEF plan
<1>2. stage[r] \in {"new", "waits", "works", "answered", "failed"} /\ todo[r] \in Plans
  BY DEF SessionsInv
<1>3. \A u \in Requests : u # r => SessionInv(u)' 
  <2>1. \A u \in Requests : u # r =>
           stage'[u] = stage[u] /\ todo'[u] = todo[u] /\ (u \in stored' <=> u \in stored)
    BY DEF SessionsInv, SessionStep, Arrive, CheckOut, TimeOut, Commit, CommitAndRaise, Finish, Abort
  <2> QED
    BY <2>1 DEF SessionsInv, SessionInv
<1>4. /\ stage' \in [Requests -> {"new", "waits", "works", "answered", "failed"}]
      /\ stored' \in SUBSET Requests
  BY DEF SessionsInv, SessionStep, Arrive, CheckOut, TimeOut, Commit, CommitAndRaise, Finish,
         Abort, Onward
<1>5. stage[r] = "works" => todo[r] # <<>>
  BY DEF SessionsInv, SessionInv
<1>6. Arrive(r) \/ CheckOut(r) \/ TimeOut(r) \/ CommitAndRaise(r) \/ Abort(r) => todo' = todo
  BY DEF Arrive, CheckOut, TimeOut, CommitAndRaise, Abort
<1>7. Commit(r) \/ Finish(r) => stage[r] = "works" /\ todo' = [todo EXCEPT ![r] = Tail(todo[r])]
  BY DEF Commit, Finish
<1>8. todo' \in [Requests -> Plans]
  <2>1. stage[r] = "works" => Tail(todo[r]) \in Plans
    BY <1>2, <1>5, HeadsAndTails
  <2> QED
    BY <1>6, <1>7, <2>1 DEF SessionsInv, SessionStep
<1>9. NothingLeaks' /\ free' \in Nat
  <2>1. \/ r \notin Works /\ Works' = Works \cup {r} /\ free > 0 /\ free' = free - 1
        \/ r \in Works /\ Works' = Works \ {r} /\ free' = free + 1
        \/ Works' = Works /\ free' = free
    BY DEF SessionsInv, SessionStep, Works, Arrive, CheckOut, TimeOut, Commit, CommitAndRaise,
           Finish, Abort, Onward
  <2> QED
    BY <2>1, ConnectionsAreCounted DEF SessionsInv
<1>10. SessionInv(r)'
  <2>1. SessionInv(r)
    BY DEF SessionsInv
  <2>2. CASE Arrive(r)
    BY <2>1, <2>2, <1>2 DEF SessionsInv, SessionInv, Arrive, Onward
  <2>3. CASE CheckOut(r) \/ TimeOut(r)
    BY <2>1, <2>3, <1>2 DEF SessionsInv, SessionInv, CheckOut, TimeOut
  <2>4. CASE Commit(r)
    <3>1. stage[r] = "works" /\ Head(todo[r]) # "read" /\ todo[r] # <<>>
      BY <2>4, <1>5 DEF Commit
    <3>2. \/ todo[r] = <<"lapse">> /\ Tail(todo[r]) = <<>>
          \/ /\ todo[r] \in {<<"write", "read">>, <<"verify", "read">>}
             /\ Tail(todo[r]) = <<"read">>
      <4>1. todo[r] # <<"read">>
        <5>1. Head(<<"read">>) = "read"
          OBVIOUS
        <5> QED
          BY <3>1, <5>1
      <4>2. CASE Head(todo[r]) \in {"read", "lapse"}
        BY <3>1, <1>2, <4>1, <4>2, HeadsAndTails
      <4>3. CASE Head(todo[r]) \in {"write", "verify"}
        BY <3>1, <1>2, <4>3, HeadsAndTails
      <4> QED
        BY <3>1, <1>2, <4>2, <4>3, HeadsAndTails
    <3>3. todo[r] = plan
      BY <2>1, <3>1, <3>2 DEF SessionInv, plan
    <3>4. /\ stage'[r] = Onward(Tail(todo[r])) /\ todo'[r] = Tail(todo[r]) /\ r \in stored'
      BY <2>4 DEF Commit, SessionsInv
    <3>5. Onward(<<>>) = "answered" /\ Onward(<<"read">>) = "waits"
      BY DEF Onward
    <3>6. CASE Tail(todo[r]) = <<>>
      BY <3>2, <3>3, <3>4, <3>5, <3>6 DEF SessionInv, plan
    <3>7. CASE Tail(todo[r]) = <<"read">>
      BY <3>2, <3>3, <3>4, <3>5, <3>7 DEF SessionInv, plan
    <3> QED
      BY <3>2, <3>6, <3>7
  <2>5. CASE CommitAndRaise(r)
    <3>1. stage[r] = "works" /\ Head(todo[r]) = "verify" /\ todo[r] # <<>>
      BY <2>5, <1>5 DEF CommitAndRaise
    <3>2. todo[r] = <<"verify", "read">>
      BY <3>1, <1>2, HeadsAndTails
    <3>3. Route[r] = "verify"
      BY <2>1, <3>1, <3>2, <1>1 DEF SessionInv, plan
    <3>4. stage'[r] = "failed" /\ todo'[r] = todo[r] /\ r \in stored'
      BY <2>5 DEF CommitAndRaise, SessionsInv
    <3> QED
      BY <3>2, <3>3, <3>4 DEF SessionInv
  <2>6. CASE Finish(r)
    <3>1. stage[r] = "works" /\ Head(todo[r]) \in {"read", "lapse"} /\ todo[r] # <<>>
      BY <2>6, <1>5 DEF Finish
    <3>2. todo[r] \in {<<"read">>, <<"lapse">>} /\ Tail(todo[r]) = <<>>
      BY <3>1, <1>2, HeadsAndTails
    <3>3. plan \in {<<"write", "read">>, <<"verify", "read">>} => r \in stored
      BY <2>1, <3>1, <3>2 DEF SessionInv, plan
    <3>4. stage'[r] = "answered" /\ todo'[r] = <<>> /\ stored' = stored
      BY <2>6, <3>2 DEF Finish, SessionsInv, Onward
    <3> QED
      BY <3>3, <3>4 DEF SessionInv, plan
  <2>7. CASE Abort(r)
    BY <2>1, <2>7, <1>2 DEF SessionsInv, SessionInv, Abort
  <2> QED
    BY <2>2, <2>3, <2>4, <2>5, <2>6, <2>7 DEF SessionStep
<1> QED
  BY <1>3, <1>4, <1>8, <1>9, <1>10 DEF SessionsInv

(* Every step of a request, and a stutter, keeps the invariant.             *)
LEMMA SessionsNextInv == SessionsInv /\ [SessionsNext]_sessionsVars => SessionsInv'
<1>1. SessionsInv /\ UNCHANGED sessionsVars => SessionsInv'
  BY DEF sessionsVars, SessionsInv, SessionInv, NothingLeaks
<1>2. SessionsNext <=> \E r \in Requests : SessionStep(r)
  BY DEF SessionsNext, SessionStep
<1> QED
  BY <1>1, <1>2, SessionStepInv

(* The pool's count and the progress of every request.                      *)
THEOREM SessionsSafety == SessionsSpec => []SessionsInv
  BY SessionsInitInv, SessionsNextInv, PTL DEF SessionsSpec

(* Stages, plans and the pool keep their types.                             *)
THEOREM SessionsTypes == SessionsSpec => []SessionsTypeOK
<1>1. SessionsInv => SessionsTypeOK
  <2> SUFFICES ASSUME SessionsInv PROVE SessionsTypeOK
    OBVIOUS
  <2>1. Plans \subseteq Seq({"write", "read", "lapse", "verify"})
    BY DEF Plans
  <2>2. free \in Nat /\ free + Cardinality(Works) = Connections
    BY DEF SessionsInv, NothingLeaks, Works
  <2>3. Cardinality(Works) \in Nat
    BY ConnectionsAssumption, FS_Subset, FS_CardinalityType DEF Works
  <2>4. free \in 0 .. Connections
    BY <2>2, <2>3, ConnectionsAssumption
  <2> QED
    BY <2>1, <2>4 DEF SessionsInv, SessionsTypeOK
<1> QED
  BY <1>1, SessionsSafety, PTL

(* However requests end, what the pool lacks is with the requests that work. *)
THEOREM ConnectionsComeBack == SessionsSpec => []NothingLeaks
<1>1. SessionsInv => NothingLeaks
  BY DEF SessionsInv
<1> QED
  BY <1>1, SessionsSafety, PTL

(* Who is answered has stored; who fails has not, but for the two cases that *)
(* AnswersAreTrue names.                                                     *)
THEOREM AnswersTell == SessionsSpec => []AnswersAreTrue
<1>1. SessionsInv => AnswersAreTrue
  <2> SUFFICES ASSUME SessionsInv, NEW r \in Requests
               PROVE  /\ stage[r] = "answered" /\ Len(Transactions(Route[r])) = 2 => r \in stored
                      /\ stage[r] = "failed" /\ r \in stored =>
                            todo[r] = <<"read">> \/ Route[r] = "verify"
    BY DEF AnswersAreTrue
  <2>1. SessionInv(r)
    BY DEF SessionsInv
  <2>2. Transactions(Route[r]) \in Plans
    BY RouteAssumption, PlanOfRoute
  <2>3. ASSUME NEW p \in Plans, Len(p) = 2
        PROVE  p \in {<<"write", "read">>, <<"verify", "read">>}
    <3>1. Len(<<>>) # 2 /\ Len(<<"read">>) # 2 /\ Len(<<"lapse">>) # 2
      OBVIOUS
    <3>2. p # <<>> /\ p # <<"read">> /\ p # <<"lapse">>
      BY <2>3, <3>1, Zenon
    <3> QED
      BY <3>2, Zenon DEF Plans
  <2> QED
    BY <2>1, <2>2, <2>3 DEF SessionInv
<1> QED
  BY <1>1, SessionsSafety, PTL

-----------------------------------------------------------------------------
(* RateLimiter.                                                            *)

(* What the history says of the i-th request of a key: it came within its   *)
(* window and went through if its number allows, and the requests before it *)
(* that its number counts fell in the same window.                          *)
Fits(p, i) ==
    /\ log[p][i].at <= clock
    /\ log[p][i].window - Window <= log[p][i].at /\ log[p][i].at <= log[p][i].window
    /\ log[p][i].through <=> log[p][i].number <= Limit
    /\ log[p][i].number \in 1 .. i
    /\ log[p][i].window <= reset[p]
    /\ log[p][i].window = reset[p] => log[p][i].number <= count[p]
    /\ \A j \in (i - log[p][i].number + 1) .. i : log[p][j].window = log[p][i].window

(* Of two requests the later one came no earlier; it has a higher number in *)
(* the same window, or a window that begins after the other's is over.      *)
Follows(p, i, j) ==
    /\ log[p][i].at <= log[p][j].at
    /\ \/ /\ log[p][i].window = log[p][j].window
          /\ log[p][i].number < log[p][j].number
       \/ log[p][i].window < log[p][j].window - Window

(* The counter is that of the last request.                                 *)
Counts(p) ==
    IF log[p] = <<>> THEN reset[p] = 0
    ELSE /\ log[p][Len(log[p])].window = reset[p]
         /\ log[p][Len(log[p])].number = count[p]

KeyInv(p) ==
    /\ Counts(p)
    /\ \A i \in DOMAIN log[p] : Fits(p, i)
    /\ \A i, j \in DOMAIN log[p] : i < j => Follows(p, i, j)

LimiterInv == LimiterTypeOK /\ \A p \in Paths : KeyInv(p)

(* At first no key has a request.                                           *)
LEMMA LimiterInitInv == LimiterInit => LimiterInv
  BY LimiterAssumption DEF LimiterInit, LimiterInv, LimiterTypeOK, KeyInv, Counts

(* A request is appended to the history of its key, and the counter is set  *)
(* to what the history says of it.                                          *)
LEMMA RequestAppends ==
  ASSUME LimiterInv, NEW p \in Paths, Request(p)
  PROVE  /\ LimiterTypeOK' /\ clock' = clock
         /\ \A q \in Paths : q # p => /\ count'[q] = count[q] /\ reset'[q] = reset[q]
                                      /\ log'[q] = log[q]
         /\ count'[p] = Counted(p) /\ reset'[p] = WindowEnd(p)
         /\ Len(log'[p]) = Len(log[p]) + 1 /\ log'[p] # <<>>
         /\ \A i \in DOMAIN log[p] : log'[p][i] = log[p][i]
         /\ log'[p][Len(log[p]) + 1].at = clock
         /\ log'[p][Len(log[p]) + 1].window = WindowEnd(p)
         /\ log'[p][Len(log[p]) + 1].number = Counted(p)
         /\ log'[p][Len(log[p]) + 1].through <=> Counted(p) <= Limit
<1> DEFINE e == [at |-> clock, window |-> WindowEnd(p), number |-> Counted(p),
                 through |-> ~(Counted(p) > Limit)]
<1>1. /\ clock \in Nat /\ count[p] \in Nat /\ reset[p] \in Nat /\ log[p] \in Seq(Arrival)
      /\ Window \in Nat /\ Limit \in Nat
  BY LimiterAssumption DEF LimiterInv, LimiterTypeOK
<1>2. WindowEnd(p) \in Nat /\ Counted(p) \in Nat
  BY <1>1 DEF WindowEnd, Counted
<1>3. e \in Arrival
  BY <1>1, <1>2 DEF Arrival
<1>4. /\ e.at = clock /\ e.window = WindowEnd(p) /\ e.number = Counted(p)
      /\ e.through <=> Counted(p) <= Limit
  <2>1. e.at = clock /\ e.window = WindowEnd(p) /\ e.number = Counted(p)
    OBVIOUS
  <2>2. e.through = ~(Counted(p) > Limit)
    OBVIOUS
  <2>3. Counted(p) <= Limit <=> ~(Counted(p) > Limit)
    BY <1>1, <1>2
  <2> QED
    BY <2>1, <2>2, <2>3
<1>5. /\ count' = [count EXCEPT ![p] = Counted(p)]
      /\ reset' = [reset EXCEPT ![p] = WindowEnd(p)]
      /\ log' = [log EXCEPT ![p] = Append(log[p], e)]
      /\ clock' = clock
  BY DEF Request
<1> HIDE DEF e
<1>6. Append(log[p], e) \in Seq(Arrival)
  BY <1>1, <1>3
<1>7. LimiterTypeOK' /\ log'[p] = Append(log[p], e)
  BY <1>2, <1>5, <1>6 DEF LimiterInv, LimiterTypeOK
<1>8. /\ Len(log'[p]) = Len(log[p]) + 1 /\ log'[p] # <<>>
      /\ \A i \in DOMAIN log[p] : log'[p][i] = log[p][i]
      /\ log'[p][Len(log[p]) + 1] = e
  BY <1>1, <1>3, <1>7
<1>9. /\ \A q \in Paths : q # p => /\ count'[q] = count[q] /\ reset'[q] = reset[q]
                                   /\ log'[q] = log[q]
      /\ count'[p] = Counted(p) /\ reset'[p] = WindowEnd(p)
  BY <1>5 DEF LimiterInv, LimiterTypeOK
<1> QED
  BY <1>4, <1>5, <1>7, <1>8, <1>9

(* A request keeps what the history says of its key.                        *)
LEMMA RequestKeepsKey ==
  ASSUME LimiterInv, NEW p \in Paths, Request(p)
  PROVE  KeyInv(p)'
<1> DEFINE n == Len(log[p])
<1>1. /\ clock \in Nat \ {0} /\ count[p] \in Nat /\ reset[p] \in Nat /\ log[p] \in Seq(Arrival)
      /\ Window \in Nat \ {0} /\ Limit \in Nat \ {0} /\ n \in Nat /\ DOMAIN log[p] = 1 .. n
      /\ DOMAIN log'[p] = 1 .. n + 1
      /\ \A i \in 1 .. n : log[p][i].at \in Nat /\ log[p][i].window \in Nat /\ log[p][i].number \in Nat
  <2>1. log[p] \in Seq(Arrival) /\ log'[p] \in Seq(Arrival)
    BY RequestAppends DEF LimiterInv, LimiterTypeOK
  <2>2. DOMAIN log'[p] = 1 .. n + 1
    BY <2>1, RequestAppends
  <2>3. \A i \in 1 .. n : log[p][i] \in Arrival
    BY <2>1
  <2>4. clock \in 1 .. MaxClock + 1 /\ count[p] \in Nat /\ reset[p] \in Nat
    BY DEF LimiterInv, LimiterTypeOK
  <2>5. clock \in Nat \ {0}
    BY <2>4, LimiterAssumption
  <2>6. n \in Nat /\ DOMAIN log[p] = 1 .. n
    BY <2>1
  <2>7. \A i \in 1 .. n :
          log[p][i].at \in Nat /\ log[p][i].window \in Nat /\ log[p][i].number \in Nat
    BY <2>3 DEF Arrival
  <2> QED
    BY <2>1, <2>2, <2>4, <2>5, <2>6, <2>7, LimiterAssumption
<1>2. /\ clock' = clock /\ count'[p] = Counted(p) /\ reset'[p] = WindowEnd(p)
      /\ Len(log'[p]) = n + 1 /\ log'[p] # <<>>
      /\ \A i \in 1 .. n : log'[p][i] = log[p][i]
      /\ log'[p][n + 1].at = clock
      /\ log'[p][n + 1].window = WindowEnd(p)
      /\ log'[p][n + 1].number = Counted(p)
      /\ log'[p][n + 1].through <=> Counted(p) <= Limit
  BY <1>1, RequestAppends
<1>3. /\ n = 0 => reset[p] = 0
      /\ n > 0 => log[p][n].window = reset[p] /\ log[p][n].number = count[p]
      /\ \A i \in 1 .. n : Fits(p, i)
      /\ \A i, j \in 1 .. n : i < j => Follows(p, i, j)
  BY <1>1 DEF LimiterInv, KeyInv, Counts
<1> HIDE DEF n
<1>4. /\ clock <= WindowEnd(p) /\ WindowEnd(p) - Window <= clock
      /\ \/ Over(p) /\ Counted(p) = 1 /\ WindowEnd(p) > reset[p] + Window
         \/ ~Over(p) /\ n > 0 /\ Counted(p) = count[p] + 1 /\ WindowEnd(p) = reset[p]
      /\ WindowEnd(p) \in Nat /\ Counted(p) \in Nat
  <2>1. CASE Over(p)
    BY <1>1, <2>1 DEF Over, WindowEnd, Counted
  <2>2. CASE ~Over(p)
    <3>1. clock <= reset[p] /\ n > 0
      BY <1>1, <1>3, <2>2 DEF Over
    <3>2. reset[p] - Window <= log[p][n].at /\ log[p][n].at <= clock
      BY <1>1, <1>3, <3>1 DEF Fits
    <3> QED
      BY <1>1, <2>2, <3>1, <3>2 DEF WindowEnd, Counted
  <2> QED
    BY <2>1, <2>2
<1>5. Counts(p)'
  BY <1>2 DEF Counts
<1>6. ASSUME NEW i \in 1 .. n + 1 PROVE Fits(p, i)'
  <2>1. CASE i \in 1 .. n
    <3>1. Fits(p, i) /\ log'[p][i] = log[p][i]
      BY <1>2, <1>3, <2>1
    <3>2. reset[p] <= reset'[p] /\ (reset'[p] = reset[p] => count[p] <= count'[p])
      BY <1>1, <1>2, <1>4
    <3>3. \A j \in (i - log[p][i].number + 1) .. i : j \in 1 .. n
      BY <1>1, <2>1, <3>1 DEF Fits
    <3>4. \A j \in (i - log[p][i].number + 1) .. i : log'[p][j].window = log[p][i].window
      BY <1>2, <3>1, <3>3 DEF Fits
    <3>5. log[p][i].at \in Nat /\ log[p][i].window \in Nat /\ log[p][i].number \in Nat
      BY <1>1, <2>1
    <3>6. /\ log[p][i].window <= reset'[p]
          /\ log[p][i].window = reset'[p] => log[p][i].number <= count'[p]
      <4>1. log[p][i].window <= reset[p] /\ (log[p][i].window = reset[p] => log[p][i].number <= count[p])
        BY <3>1 DEF Fits
      <4>2. reset'[p] \in Nat /\ count'[p] \in Nat /\ reset[p] \in Nat /\ count[p] \in Nat
        BY <1>1, <1>2, <1>4
      <4> QED
        BY <3>2, <3>5, <4>1, <4>2
    <3> QED
      BY <1>2, <3>1, <3>4, <3>6 DEF Fits
  <2>2. CASE i = n + 1
    <3>1. \A j \in (i - Counted(p) + 1) .. i : log'[p][j].window = WindowEnd(p)
      <4>1. CASE Over(p)
        BY <1>1, <1>2, <1>4, <2>2, <4>1
      <4>2. CASE ~Over(p)
        <5>1. Fits(p, n) /\ log[p][n].number = count[p] /\ log[p][n].window = reset[p]
          BY <1>1, <1>3, <1>4, <4>2
        <5>2. count[p] \in 1 .. n
          BY <5>1 DEF Fits
        <5>3. \A j \in (n - count[p] + 1) .. n : j \in 1 .. n /\ log[p][j].window = reset[p]
          BY <1>1, <5>1, <5>2 DEF Fits
        <5>4. ASSUME NEW j \in (i - Counted(p) + 1) .. i
              PROVE  j = n + 1 \/ j \in (n - count[p] + 1) .. n
          <6>1. Counted(p) = count[p] + 1
            BY <1>4, <4>2
          <6>2. j \in (i - Counted(p) + 1) .. i /\ Counted(p) \in Nat
            BY <1>4
          <6>3. j \in Int /\ i - Counted(p) + 1 <= j /\ j <= i
            BY <1>1, <6>2
          <6> QED
            BY <1>1, <2>2, <6>1, <6>3
        <5> QED
          BY <1>2, <1>4, <4>2, <5>3, <5>4
      <4> QED
        BY <4>1, <4>2
    <3>2. Counted(p) \in 1 .. i
      <4>1. CASE Over(p)
        BY <1>1, <1>4, <2>2, <4>1
      <4>2. CASE ~Over(p)
        <5>1. Fits(p, n) /\ log[p][n].number = count[p]
          BY <1>1, <1>3, <1>4, <4>2
        <5>2. count[p] \in 1 .. n
          BY <5>1 DEF Fits
        <5> QED
          BY <1>1, <1>4, <2>2, <4>2, <5>2
      <4> QED
        BY <4>1, <4>2
    <3>3. /\ log'[p][i].at = clock /\ log'[p][i].window = WindowEnd(p)
          /\ log'[p][i].number = Counted(p)
      BY <1>2, <2>2
    <3>4. log'[p][i].through <=> log'[p][i].number <= Limit
      BY <1>2, <2>2
    <3>5. /\ log'[p][i].at <= clock' /\ log'[p][i].window <= reset'[p]
          /\ log'[p][i].number <= count'[p] /\ log'[p][i].number \in 1 .. i
          /\ log'[p][i].window - Window <= log'[p][i].at /\ log'[p][i].at <= log'[p][i].window
      BY <1>1, <1>2, <1>4, <3>2, <3>3
    <3>6. \A j \in (i - log'[p][i].number + 1) .. i : log'[p][j].window = log'[p][i].window
      BY <3>1, <3>3
    <3> QED
      BY <3>4, <3>5, <3>6 DEF Fits
  <2> QED
    BY <1>1, <2>1, <2>2
<1>7. ASSUME NEW i \in 1 .. n + 1, NEW j \in 1 .. n + 1, i < j PROVE Follows(p, i, j)'
  <2>1. i \in 1 .. n
    BY <1>1, <1>7
  <2>2. CASE j \in 1 .. n
    BY <1>2, <1>3, <1>7, <2>1, <2>2 DEF Follows
  <2>3. CASE j = n + 1
    <3>1. Fits(p, i) /\ log'[p][i] = log[p][i]
      BY <1>2, <1>3, <2>1
    <3>2. log[p][i].at \in Nat /\ log[p][i].window \in Nat /\ log[p][i].number \in Nat
      BY <1>1, <2>1
    <3>3. /\ log[p][i].at <= clock
          /\ \/ log[p][i].window = WindowEnd(p) /\ log[p][i].number < Counted(p)
             \/ log[p][i].window < WindowEnd(p) - Window
      <4>1. CASE Over(p)
        BY <1>1, <1>4, <3>1, <3>2, <4>1 DEF Fits
      <4>2. CASE ~Over(p) /\ log[p][i].window = reset[p]
        BY <1>1, <1>4, <3>1, <3>2, <4>2 DEF Fits
      <4>3. CASE ~Over(p) /\ log[p][i].window # reset[p]
        <5>1. i < n
          BY <1>1, <1>3, <2>1, <4>3
        <5>2. Follows(p, i, n) /\ log[p][n].window = reset[p]
          BY <1>1, <1>3, <2>1, <5>1
        <5> QED
          BY <1>4, <3>1, <4>3, <5>2 DEF Fits, Follows
      <4> QED
        BY <4>1, <4>2, <4>3
    <3> QED
      BY <1>2, <2>3, <3>1, <3>3 DEF Follows
  <2> QED
    BY <1>1, <2>2, <2>3
<1> QED
  BY <1>1, <1>5, <1>6, <1>7 DEF KeyInv

(* The passage of time moves no request out of its place.                   *)
LEMMA PassTimeInv ==
  ASSUME LimiterInv, PassTime
  PROVE  LimiterInv'
<1>1. LimiterTypeOK' /\ clock <= clock' /\ UNCHANGED <<count, reset, log>>
  BY LimiterAssumption DEF LimiterInv, LimiterTypeOK, PassTime
<1>2. ASSUME NEW p \in Paths PROVE KeyInv(p)'
  <2>1. KeyInv(p)
    BY DEF LimiterInv
  <2>2. ASSUME NEW i \in DOMAIN log[p] PROVE log[p][i].at <= clock'
    <3>1. log[p][i] \in Arrival /\ clock \in 1 .. MaxClock + 1 /\ clock' \in 1 .. MaxClock + 1
      BY <1>1 DEF LimiterInv, LimiterTypeOK
    <3>2. log[p][i].at \in Nat /\ clock \in Int /\ clock' \in Int
      BY <3>1 DEF Arrival
    <3>3. log[p][i].at <= clock
      BY <2>1 DEF KeyInv, Fits
    <3> QED
      BY <1>1, <3>2, <3>3
  <2> QED
    BY <1>1, <2>1, <2>2 DEF KeyInv, Counts, Fits, Follows
<1> QED
  BY <1>1, <1>2 DEF LimiterInv

(* Every step keeps the history's account of every key.                     *)
LEMMA LimiterNextInv == LimiterInv /\ [LimiterNext]_limiterVars => LimiterInv'
<1>1. LimiterInv /\ UNCHANGED limiterVars => LimiterInv'
  BY DEF limiterVars, LimiterInv, LimiterTypeOK, KeyInv, Counts, Fits, Follows
<1>2. ASSUME LimiterInv, NEW p \in Paths, Request(p) PROVE LimiterInv'
  <2>1. ASSUME NEW q \in Paths, q # p PROVE KeyInv(q)'
    <3>1. /\ clock' = clock /\ count'[q] = count[q] /\ reset'[q] = reset[q]
          /\ log'[q] = log[q]
      BY <1>2, <2>1, RequestAppends
    <3>2. KeyInv(q)
      BY <1>2 DEF LimiterInv
    <3> QED
      BY <3>1, <3>2 DEF KeyInv, Counts, Fits, Follows
  <2> QED
    BY <1>2, <2>1, RequestAppends, RequestKeepsKey DEF LimiterInv
<1> QED
  BY <1>1, <1>2, PassTimeInv DEF LimiterNext

(* What the counter and the window of a key say of the requests it had.     *)
THEOREM LimiterSafety == LimiterSpec => []LimiterInv
  BY LimiterInitInv, LimiterNextInv, PTL DEF LimiterSpec

(* The counters and the history keep their types.                           *)
THEOREM LimiterTypes == LimiterSpec => []LimiterTypeOK
<1>1. LimiterInv => LimiterTypeOK
  BY DEF LimiterInv
<1> QED
  BY <1>1, LimiterSafety, PTL

(* The types of what the history keeps of a request, for the provers.       *)
LEMMA ArrivalTypes ==
  ASSUME LimiterInv, NEW p \in Paths, NEW i \in DOMAIN log[p]
  PROVE  /\ log[p][i].at \in Nat /\ log[p][i].window \in Nat /\ log[p][i].number \in Nat
         /\ i \in Nat \ {0} /\ DOMAIN log[p] = 1 .. Len(log[p]) /\ Len(log[p]) \in Nat
<1>1. log[p] \in Seq(Arrival)
  BY DEF LimiterInv, LimiterTypeOK
<1>2. log[p][i] \in Arrival /\ DOMAIN log[p] = 1 .. Len(log[p]) /\ Len(log[p]) \in Nat
  BY <1>1
<1> QED
  BY <1>2 DEF Arrival

(* The numbers of a window are those of different requests, so no more than *)
(* the limit of them go through.                                            *)
Through(p, w) == {i \in DOMAIN log[p] : log[p][i].window = w /\ log[p][i].through}
(* See above: an injection into the numbers up to the limit.               *)
LEMMA AWindowAdmitsLimit ==
  ASSUME LimiterInv, NEW p \in Paths, NEW w
  PROVE  /\ IsFiniteSet(Through(p, w)) /\ Cardinality(Through(p, w)) \in Nat
         /\ Cardinality(Through(p, w)) <= Limit
<1> DEFINE f == [i \in Through(p, w) |-> log[p][i].number]
<1>1. ASSUME NEW i \in Through(p, w) PROVE log[p][i].number \in 1 .. Limit
  <2>1. i \in DOMAIN log[p] /\ log[p][i].through
    BY DEF Through
  <2>2. log[p][i].number <= Limit /\ log[p][i].number \in 1 .. i
    BY <2>1 DEF LimiterInv, KeyInv, Fits
  <2> QED
    BY <2>1, <2>2, ArrivalTypes, LimiterAssumption
<1>2. ASSUME NEW i \in Through(p, w), NEW j \in Through(p, w),
             log[p][i].number = log[p][j].number
      PROVE  i = j
  <2>1. /\ i \in DOMAIN log[p] /\ j \in DOMAIN log[p]
        /\ log[p][i].window = log[p][j].window
    BY DEF Through
  <2>2. /\ i \in Nat /\ j \in Nat /\ log[p][i].number \in Nat
        /\ log[p][i].window \in Nat /\ Window \in Nat
    BY <2>1, ArrivalTypes, LimiterAssumption
  <2>3. (i < j => Follows(p, i, j)) /\ (j < i => Follows(p, j, i))
    BY <2>1 DEF LimiterInv, KeyInv
  <2>4. ~Follows(p, i, j) /\ ~Follows(p, j, i)
    BY <1>2, <2>1, <2>2 DEF Follows
  <2> QED
    BY <2>2, <2>3, <2>4
<1>3. f \in Injection(Through(p, w), 1 .. Limit)
  BY <1>1, <1>2 DEF Injection, IsInjective
<1>4. IsFiniteSet(1 .. Limit) /\ Cardinality(1 .. Limit) = Limit
  BY FS_Interval, LimiterAssumption
<1>5. IsFiniteSet(Through(p, w)) /\ Cardinality(Through(p, w)) <= Limit
  BY <1>3, <1>4, FS_Injection
<1> QED
  BY <1>5, FS_CardinalityType

(* Requests no further apart than a window fall in two windows at most.     *)
LEMMA TwoWindows ==
  ASSUME LimiterInv, NEW p \in Paths, NEW a \in Nat,
         NEW i \in Between(p, a, a + Window), NEW j \in Between(p, a, a + Window),
         NEW k \in Between(p, a, a + Window), log[p][i].window # log[p][j].window
  PROVE  log[p][k].window \in {log[p][i].window, log[p][j].window}
<1>1. Window \in Nat
  BY LimiterAssumption
<1>2. ASSUME NEW x \in Between(p, a, a + Window)
      PROVE  /\ x \in DOMAIN log[p] /\ log[p][x].window \in Nat /\ x \in Nat
             /\ a <= log[p][x].window /\ log[p][x].window <= a + Window + Window
  <2>1. x \in DOMAIN log[p] /\ a <= log[p][x].at /\ log[p][x].at <= a + Window
    BY DEF Between
  <2>2. log[p][x].window - Window <= log[p][x].at /\ log[p][x].at <= log[p][x].window
    BY <2>1 DEF LimiterInv, KeyInv, Fits
  <2>3. log[p][x].window \in Nat /\ log[p][x].at \in Nat /\ x \in Nat
    BY <2>1, ArrivalTypes
  <2> QED
    BY <1>1, <2>1, <2>2, <2>3
<1>3. ASSUME NEW x \in Between(p, a, a + Window), NEW y \in Between(p, a, a + Window),
             log[p][x].window # log[p][y].window
      PROVE  \/ log[p][x].window < log[p][y].window - Window
             \/ log[p][y].window < log[p][x].window - Window
  <2>1. x < y \/ y < x
    BY <1>2, <1>3
  <2>2. Follows(p, x, y) \/ Follows(p, y, x)
    BY <1>2, <2>1 DEF LimiterInv, KeyInv
  <2> QED
    BY <1>3, <2>2 DEF Follows
<1> SUFFICES ASSUME log[p][k].window # log[p][i].window, log[p][k].window # log[p][j].window
             PROVE  FALSE
  OBVIOUS
<1> DEFINE u == log[p][i].window
           v == log[p][j].window
           w == log[p][k].window
<1>4. /\ u < v - Window \/ v < u - Window
      /\ u < w - Window \/ w < u - Window
      /\ v < w - Window \/ w < v - Window
  BY <1>3
<1>5. /\ u \in Nat /\ a <= u /\ u <= a + Window + Window
      /\ v \in Nat /\ a <= v /\ v <= a + Window + Window
      /\ w \in Nat /\ a <= w /\ w <= a + Window + Window
  BY <1>2
<1> QED
  <2> HIDE DEF u, v, w
  <2> QED
    BY <1>1, <1>4, <1>5

(* Any stretch of the length of a window lets twice the limit through at    *)
(* most, for every window, limit and number of requests.                    *)
THEOREM TwoWindowsAtMost == LimiterSpec => []TwiceTheLimitAtMost
<1>1. LimiterInv => TwiceTheLimitAtMost
  <2> SUFFICES ASSUME LimiterInv, NEW p \in Paths, NEW a \in 1 .. clock
               PROVE  Cardinality({i \in Between(p, a, a + Window) : log[p][i].through})
                        <= 2 * Limit
    BY DEF TwiceTheLimitAtMost
  <2> DEFINE S == {i \in Between(p, a, a + Window) : log[p][i].through}
  <2>1. a \in Nat /\ Limit \in Nat
    BY LimiterAssumption
  <2>2. \E v, w : S \subseteq Through(p, v) \cup Through(p, w)
    <3>1. CASE \E i, j \in S : log[p][i].window # log[p][j].window
      <4>1. PICK i \in S, j \in S : log[p][i].window # log[p][j].window
        BY <3>1
      <4>2. \A k \in S : log[p][k].window \in {log[p][i].window, log[p][j].window}
        BY <2>1, <4>1, TwoWindows
      <4>3. S \subseteq Through(p, log[p][i].window) \cup Through(p, log[p][j].window)
        BY <4>2 DEF Through, Between
      <4> QED
        BY <4>3
    <3>2. CASE \A i, j \in S : log[p][i].window = log[p][j].window
      <4>1. CASE S = {}
        BY <4>1
      <4>2. CASE S # {}
        <5>1. PICK i \in S : TRUE
          BY <4>2
        <5>2. S \subseteq Through(p, log[p][i].window)
          BY <3>2 DEF Through, Between
        <5> QED
          BY <5>2
      <4> QED
        BY <4>1, <4>2
    <3> QED
      BY <3>1, <3>2
  <2>3. PICK v, w : S \subseteq Through(p, v) \cup Through(p, w)
    BY <2>2
  <2> HIDE DEF S
  <2> DEFINE V == Through(p, v)
             W == Through(p, w)
  <2>4. /\ IsFiniteSet(V) /\ Cardinality(V) \in Nat /\ Cardinality(V) <= Limit
        /\ IsFiniteSet(W) /\ Cardinality(W) \in Nat /\ Cardinality(W) <= Limit
    BY AWindowAdmitsLimit
  <2>5. S \subseteq V \cup W
    BY <2>3
  <2> HIDE DEF V, W
  <2>6. /\ IsFiniteSet(V \cup W)
        /\ Cardinality(V \cup W) = Cardinality(V) + Cardinality(W) - Cardinality(V \cap W)
    BY <2>4, FS_Union
  <2>7. Cardinality(V \cap W) \in Nat
    BY <2>4, FS_Intersection, FS_CardinalityType
  <2>8. Cardinality(S) \in Nat /\ Cardinality(S) <= Cardinality(V \cup W)
    BY <2>5, <2>6, FS_Subset, FS_CardinalityType
  <2>9. Cardinality(S) <= 2 * Limit
    BY <2>1, <2>4, <2>6, <2>7, <2>8
  <2> QED
    BY <2>9 DEF S
<1> QED
  BY <1>1, LimiterSafety, PTL

(* Who is refused has sent more than the limit within the last window: the  *)
(* requests that the counter counts are all of that window.                 *)
THEOREM RefusedSentMore == LimiterSpec => []PoliteAreServed
<1>1. LimiterInv => PoliteAreServed
  <2> SUFFICES ASSUME LimiterInv, NEW p \in Paths, NEW i \in DOMAIN log[p],
                      ~log[p][i].through
               PROVE  Cardinality({j \in Between(p, log[p][i].at - Window, log[p][i].at) :
                                     j <= i}) > Limit
    BY DEF PoliteAreServed
  <2> DEFINE n == log[p][i].number
             S == {j \in Between(p, log[p][i].at - Window, log[p][i].at) : j <= i}
  <2>1. Fits(p, i)
    BY DEF LimiterInv, KeyInv
  <2>2. /\ n \in Nat /\ i \in Nat /\ log[p][i].at \in Nat /\ log[p][i].window \in Nat
        /\ DOMAIN log[p] = 1 .. Len(log[p]) /\ Len(log[p]) \in Nat
        /\ Limit \in Nat /\ Window \in Nat
    BY ArrivalTypes, LimiterAssumption
  <2>3. n > Limit /\ n \in 1 .. i
    BY <2>1, <2>2 DEF Fits
  <2>4. ASSUME NEW j \in (i - n + 1) .. i PROVE j \in S
    <3>1. j \in DOMAIN log[p] /\ j <= i /\ j \in Nat
      BY <2>2, <2>3
    <3>2. log[p][j].window = log[p][i].window
      BY <2>1 DEF Fits
    <3>3. log[p][j].window - Window <= log[p][j].at /\ log[p][i].at <= log[p][i].window
      BY <2>1, <3>1 DEF LimiterInv, KeyInv, Fits
    <3>4. log[p][j].at \in Nat
      BY <3>1, ArrivalTypes
    <3>5. log[p][j].at <= log[p][i].at
      <4>1. CASE j = i
        BY <2>2, <4>1
      <4>2. CASE j # i
        <5>1. j < i
          BY <2>2, <3>1, <4>2
        <5> QED
          BY <3>1, <5>1 DEF LimiterInv, KeyInv, Follows
      <4> QED
        BY <4>1, <4>2
    <3>6. log[p][i].at - Window <= log[p][j].at
      <4> DEFINE e == log[p][i].window
                 x == log[p][i].at
                 y == log[p][j].at
      <4>1. e - Window <= y /\ x <= e /\ e \in Nat /\ x \in Nat /\ y \in Nat /\ Window \in Nat
        BY <2>2, <3>2, <3>3, <3>4
      <4> HIDE DEF e, x, y
      <4>2. x - Window <= y
        BY <4>1
      <4> QED
        BY <4>2 DEF x, y
    <3> QED
      BY <3>1, <3>5, <3>6 DEF Between
  <2>5. IsFiniteSet(S)
    <3>1. S \subseteq 1 .. Len(log[p])
      BY <2>2 DEF Between
    <3>2. IsFiniteSet(1 .. Len(log[p]))
      <4> DEFINE m == Len(log[p])
      <4>1. m \in Int
        BY <2>2
      <4> HIDE DEF m
      <4>2. IsFiniteSet(1 .. m)
        BY <4>1, FS_Interval
      <4> QED
        BY <4>2 DEF m
    <3> HIDE DEF S
    <3> QED
      BY <3>1, <3>2, FS_Subset
  <2> HIDE DEF n, S
  <2>6. Cardinality((i - n + 1) .. i) = n
    <3>1. i - n + 1 \in Int /\ i \in Int /\ i - n + 1 <= i
      BY <2>2, <2>3
    <3>2. Cardinality((i - n + 1) .. i) = i - (i - n + 1) + 1
      BY <3>1, FS_Interval
    <3> QED
      BY <2>2, <3>2
  <2>7. (i - n + 1) .. i \subseteq S
    BY <2>4
  <2>8. n <= Cardinality(S) /\ Cardinality(S) \in Nat
    BY <2>5, <2>6, <2>7, FS_Subset, FS_CardinalityType
  <2> QED
    BY <2>2, <2>3, <2>8 DEF S
<1> QED
  BY <1>1, LimiterSafety, PTL
=============================================================================
