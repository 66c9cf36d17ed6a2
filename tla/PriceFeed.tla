----------------------------- MODULE PriceFeed -----------------------------
(***************************************************************************)
(* trading/price_feed.py on top of the cache: CoinGeckoPriceFeed.get_price *)
(* reads the cache, asks the source on a miss and writes the cache;        *)
(* PriceFeedService.get_quote_for_trade is two such calls one after the    *)
(* other.  A price is the time at which the source named it.  A command    *)
(* takes effect at Redis in one step and its caller goes on in a later     *)
(* one: in between come steps of other calls, and time, without a bound.   *)
(***************************************************************************)
EXTENDS Cache, Sequences

CONSTANTS
    Calls,      \* calls of get_price and get_quote_for_trade
    Quotes      \* those of get_quote_for_trade

ASSUME QuotesAssumption == Quotes \subseteq Calls

VARIABLES
    call,       \* where each call is, what it asks for and what it got
    seen,       \* history: the newest price of a token any call got
    unsaved,    \* history: tokens whose write to the cache has failed
    longest     \* history: the longest time that a get_price has taken till now

vars == <<now, store, call, seen, unsaved, longest>>

Pcs == {"idle", "get", "hit", "fetch", "set", "saved", "done"}

\* A get_price is under way.
Waiting == {"get", "hit", "fetch", "set", "saved"}

\* A price is a Decimal when it was fetched and a str when it was cached.
Price == [kind : {"number", "text", "none"}, value : Int]
None == [kind |-> "none", value |-> -1]

Call == [pc : Pcs, asks : Seq(Keys), got : Seq(Price),
         begun : Nat,       \* when the call began
         since : Nat,       \* when its current get_price began
         knew : Int,        \* history: seen of its token at that moment
         value : Int]       \* the answer of the cache or of the source it will return

\* Types of the state.
TypeOK ==
    /\ CacheTypeOK
    /\ call \in [Calls -> Call]
    /\ seen \in [Keys -> Int]
    /\ unsaved \in SUBSET Keys
    /\ longest \in Nat

Init ==
    /\ CacheInit
    /\ call = [c \in Calls |-> [pc |-> "idle", asks |-> <<>>, got |-> <<>>,
                                begun |-> 0, since |-> 0, knew |-> -1, value |-> -1]]
    /\ seen = [k \in Keys |-> -1]
    /\ unsaved = {}
    /\ longest = 0

-----------------------------------------------------------------------------
\* get_price(t), or get_quote_for_trade(t, u), is called.
Begin(c, tokens) ==
    /\ call[c].pc = "idle"
    /\ Len(tokens) = IF c \in Quotes THEN 2 ELSE 1
    /\ call' = [call EXCEPT ![c] = [@ EXCEPT !.pc = "get", !.asks = tokens,
                                             !.begun = now, !.since = now,
                                             !.knew = seen[tokens[1]]]]
    /\ UNCHANGED <<now, store, seen, unsaved, longest>>

\* The token of the get_price that call c is in.
Token(c) == call[c].asks[Len(call[c].got) + 1]

\* What seen becomes when price p of token k is returned.
Seen(k, p) ==
    IF p.kind # "none" /\ seen[k] < p.value THEN [seen EXCEPT ![k] = p.value] ELSE seen

\* Call r after one get_price of it returned p: it is over, or a quote goes on with
\* its second token, of which the newest price is then known.
After(r, p, known) ==
    LET more == Len(r.got) + 1 < Len(r.asks)
    IN [pc |-> IF more THEN "get" ELSE "done",
        asks |-> r.asks, got |-> Append(r.got, p), begun |-> r.begun,
        since |-> IF more THEN now ELSE r.begun,
        knew |-> IF more THEN known[r.asks[Len(r.got) + 2]] ELSE -1,
        value |-> -1]

Return(c, p) ==
    /\ seen' = Seen(Token(c), p)
    /\ call' = [call EXCEPT ![c] = After(call[c], p, seen')]
    /\ UNCHANGED <<now, store, unsaved, longest>>

\* Redis finds the token and answers with the entry; the answer is on its way.
Find(c) ==
    /\ call[c].pc = "get"
    /\ Live(Token(c))
    /\ call' = [call EXCEPT ![c] = [@ EXCEPT !.pc = "hit", !.value = store[Token(c)].value]]
    /\ UNCHANGED <<now, store, seen, unsaved, longest>>

\* Mutant of Cached: the text is made a Decimal again.
CachedNumber(v) == [kind |-> "number", value |-> v]

\* What PriceData(**cached) holds: the price as the str that json gave back.
Cached(v) == [kind |-> "text", value |-> v]

\* The answer of Redis has come, and get_price returns it.
Hit(c) ==
    /\ call[c].pc = "hit"
    /\ Return(c, Cached(call[c].value))

\* The cache does not have the token, or Redis raises or its answer is lost, and
\* get answers None.
Miss(c) ==
    /\ call[c].pc = "get"
    /\ call' = [call EXCEPT ![c].pc = "fetch"]
    /\ UNCHANGED <<now, store, seen, unsaved, longest>>

\* The source answers with its price of this moment.
Answer(c) ==
    /\ call[c].pc = "fetch"
    /\ call' = [call EXCEPT ![c] = [@ EXCEPT !.pc = "set", !.value = now]]
    /\ UNCHANGED <<now, store, seen, unsaved, longest>>

\* Another status, an unknown token, an exception: get_price returns None.
NoAnswer(c) ==
    /\ call[c].pc = "fetch"
    /\ Return(c, None)

\* Redis writes the answer of the source, or the write fails.
Save(c, stored) ==
    /\ call[c].pc = "set"
    /\ Set(Token(c), call[c].value, stored)
    /\ unsaved' = IF stored THEN unsaved ELSE unsaved \cup {Token(c)}
    /\ call' = [call EXCEPT ![c].pc = "saved"]
    /\ UNCHANGED <<now, seen, longest>>

\* cache.set is back, whatever became of the write: what was fetched is returned.
Fetched(c) ==
    /\ call[c].pc = "saved"
    /\ Return(c, [kind |-> "number", value |-> call[c].value])

\* Time passes, however many calls are under way.
Tick ==
    /\ Pass
    /\ longest' = IF \E c \in Calls : call[c].pc \in Waiting /\ now - call[c].since >= longest
                  THEN longest + 1 ELSE longest
    /\ UNCHANGED <<call, seen, unsaved>>

Next ==
    \/ \E c \in Calls :
          \/ \E t \in Keys : Begin(c, <<t>>)
          \/ \E t, u \in Keys : Begin(c, <<t, u>>)
          \/ Find(c)
          \/ Hit(c)
          \/ Miss(c)
          \/ Answer(c)
          \/ NoAnswer(c)
          \/ \E stored \in BOOLEAN : Save(c, stored)
          \/ Fetched(c)
    \/ Tick

Spec == Init /\ [][Next]_vars

-----------------------------------------------------------------------------
\* This step returns a price to call c.
Returns(c) ==
    /\ Len(call'[c].got) = Len(call[c].got) + 1
    /\ call'[c].got[Len(call'[c].got)].kind # "none"

Returned(c) == call'[c].got[Len(call'[c].got)]

\* Nothing in the code bounds the time of a get_price (httpx's timeout is one of
\* each phase, the client of Redis has none), so the age of a price can only be told
\* by the time that calls did take.  A price that get_price returns was, when that
\* get_price began, younger than the ttl of 60 seconds and the longest call till then
\* together: its entry was there after that moment, had been written less than the
\* ttl before, and that by a call that had asked the source itself.
FreshWhenAsked ==
    [][\A c \in Calls : Returns(c) => call[c].since - Returned(c).value < TTL + longest]_vars

\* Calls that miss together may write in either order, so that an older price
\* replaces a newer one in the cache, and a caller is told an older price than one
\* that was returned before its get_price began.  But unless Redis refused a write of
\* this token, older by no more than the longest call took: the writer of the older
\* price was under way all the time in between.
StepsBackAreShort ==
    [][\A c \in Calls : Returns(c) /\ Token(c) \notin unsaved =>
          Returned(c).value >= call[c].knew - longest]_vars

\* What get_quote_for_trade makes of its two prices: None without both, an
\* exception from Decimal * str if one of them came from the cache.
QuoteOf(got) ==
    IF \E i \in 1 .. Len(got) : got[i].kind = "none" THEN "none"
    ELSE IF \E i \in 1 .. Len(got) : got[i].kind = "text" THEN "raised" ELSE "quote"

\* A quote never rests on a price that is older than the call that asked for it,
\* although every price of the service goes through the cache: a cached price is
\* a str, and get_quote_for_trade cannot compute with it.
QuotesAreFetched ==
    \A c \in Calls :
        c \in Quotes /\ call[c].pc = "done" /\ QuoteOf(call[c].got) = "quote" =>
            \A i \in 1 .. Len(call[c].got) : call[c].got[i].value >= call[c].begun

\* PriceData declares price_usd a Decimal.  Refuted by the run prices_text: the
\* price of a cached entry is a str.
PricesAreNumbers ==
    \A c \in Calls : \A i \in 1 .. Len(call[c].got) : call[c].got[i].kind # "text"
=============================================================================
