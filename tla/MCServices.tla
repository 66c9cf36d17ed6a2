----------------------------- MODULE MCServices -----------------------------
(***************************************************************************)
(* Small instances of the services that share no state with each other.    *)
(* part says which of them a behaviour is about: the behaviours of all of  *)
(* them are the behaviours of each, checked in one run.                    *)
(***************************************************************************)
EXTENDS PriceFeed, Exchange, Airdrop, AirdropRules, RateLimiter, Sessions, TLC

CONSTANTS t1, t2, t3, w1, w2, w3, w4, w5, w6

VARIABLE part

Parts == {"prices", "exchange", "airdrop", "rules", "limiter", "sessions"}

MCDex == t1 :> "gmx" @@ t2 :> "dydx" @@ t3 :> "uniswap"

\* Two campaigns: required rules of two types; a misspelled and an optional rule.
MCRules ==
    LET rule(type, least, required) == [type |-> type, least |-> least, required |-> required]
    IN <<<<rule("min_volume", 2, TRUE), rule("holding_duration", 1, TRUE)>>,
         <<rule("misspelled", 2, TRUE), rule("min_trades", 2, FALSE),
           rule("network_activity", 1, TRUE)>>>>

MCRoute ==
    w1 :> "subscribe" @@ w2 :> "invoice" @@ w3 :> "verify" @@ w4 :> "access"
        @@ w5 :> "history" @@ w6 :> "execute"

\* Tokens are alike, and so are the calls of get_price.
Symmetric == Permutations(Keys) \cup Permutations(Calls \ Quotes)

ServicesInit ==
    /\ part \in Parts
    /\ Init /\ ExchangeInit /\ AirdropInit /\ RulesInit /\ LimiterInit /\ SessionsInit

ServicesNext ==
    /\ UNCHANGED part
    /\ \/ /\ part = "prices" /\ Next
          /\ UNCHANGED <<exchangeVars, airdropVars, rulesVars, limiterVars, sessionsVars>>
       \/ /\ part = "exchange" /\ ExchangeNext
          /\ UNCHANGED <<vars, airdropVars, rulesVars, limiterVars, sessionsVars>>
       \/ /\ part = "airdrop" /\ AirdropNext
          /\ UNCHANGED <<vars, exchangeVars, rulesVars, limiterVars, sessionsVars>>
       \/ /\ part = "rules" /\ RulesNext
          /\ UNCHANGED <<vars, exchangeVars, airdropVars, limiterVars, sessionsVars>>
       \/ /\ part = "limiter" /\ LimiterNext
          /\ UNCHANGED <<vars, exchangeVars, airdropVars, rulesVars, sessionsVars>>
       \/ /\ part = "sessions" /\ SessionsNext
          /\ UNCHANGED <<vars, exchangeVars, airdropVars, rulesVars, limiterVars>>

ServicesSpec == ServicesInit /\ [][ServicesNext]_<<part, vars, exchangeVars, airdropVars,
                                                   rulesVars, limiterVars, sessionsVars>>
=============================================================================
