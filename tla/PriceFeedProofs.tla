-------------------------- MODULE PriceFeedProofs --------------------------
(***************************************************************************)
(* Theorems about PriceFeed for every set of tokens and calls, every ttl   *)
(* and however long the calls take.                                        *)
(***************************************************************************)
EXTENDS PriceFeed, SequenceTheorems, TLAPS

USE DEF vars

(* The token of the get_price that a call r is in.                          *)
TokenOf(r) == r.asks[Len(r.got) + 1]

(* A get_price in progress: longest covers it, and it knew at its begin     *)
(* what has been seen since.                                               *)
UnderWay(r) ==
    /\ Len(r.got) < Len(r.asks)
    /\ r.begun <= r.since
    /\ r.since <= now
    /\ now <= r.since + longest
    /\ r.knew <= r.since
    /\ r.knew <= seen[TokenOf(r)]

(* An answer of the source is no older than the get_price that asked for    *)
(* it; once Redis was told of it, the entry is not much older than it.      *)
HoldsFetched(r) ==
    /\ r.since <= r.value
    /\ r.value <= now
    /\ r.pc = "saved" /\ TokenOf(r) \notin unsaved =>
          r.value <= store[TokenOf(r)].value + longest

(* An answer of Redis on its way: its entry was there when the get_price    *)
(* had begun, and neither what was known then nor what the cache has now    *)
(* is far from it.                                                         *)
HoldsCached(r) ==
    /\ r.since < r.value + longest + TTL
    /\ r.value <= now
    /\ TokenOf(r) \notin unsaved =>
          /\ r.knew <= r.value + longest
          /\ r.value <= store[TokenOf(r)].value + longest

(* What a call r has, wherever it is.                                       *)
CallInv(r) ==
    /\ r.pc = "idle" => r.got = <<>>
    /\ r.pc \in Waiting => UnderWay(r)
    /\ r.pc \in {"set", "saved"} => HoldsFetched(r)
    /\ r.pc = "hit" => HoldsCached(r)
    /\ \A i \in 1 .. Len(r.got) : r.got[i].kind = "number" => r.got[i].value >= r.begun

(* What the cache holds, and how far behind the newest known price it is.   *)
StoreInv(k) ==
    /\ store[k].value <= now
    /\ store[k].until <= store[k].value + longest + TTL
    /\ seen[k] <= now
    /\ k \notin unsaved => seen[k] <= store[k].value + longest

Inv ==
    /\ TypeOK
    /\ \A c \in Calls : CallInv(call[c])
    /\ \A k \in Keys : StoreInv(k)

(* At first the cache is empty and no call is under way.                    *)
LEMMA InitInv == Init => Inv
  BY TTLAssumption
     DEF Init, CacheInit, Inv, TypeOK, CacheTypeOK, Call, Price, Pcs, Entry, Absent,
         CallInv, StoreInv, Waiting

(* The types of a call that is under way.                                   *)
LEMMA CallTypes ==
  ASSUME TypeOK, NEW r \in Call
  PROVE  /\ r.asks \in Seq(Keys) /\ r.got \in Seq(Price)
         /\ Len(r.got) \in Nat /\ Len(r.asks) \in Nat
         /\ r.begun \in Nat /\ r.since \in Nat /\ r.knew \in Int /\ r.value \in Int
         /\ now \in Nat /\ longest \in Nat /\ TTL \in Nat
         /\ Len(r.got) < Len(r.asks) => TokenOf(r) \in Keys
<1>1. /\ r.asks \in Seq(Keys) /\ r.got \in Seq(Price)
      /\ r.begun \in Nat /\ r.since \in Nat /\ r.knew \in Int /\ r.value \in Int
  BY DEF Call
<1>2. Len(r.got) \in Nat /\ Len(r.asks) \in Nat
  BY <1>1, LenProperties
<1>3. ASSUME Len(r.got) < Len(r.asks) PROVE TokenOf(r) \in Keys
  <2>1. Len(r.got) + 1 \in 1 .. Len(r.asks)
    BY <1>2, <1>3
  <2> QED
    BY <1>1, <2>1 DEF TokenOf
<1> QED
  BY <1>1, <1>2, <1>3, TTLAssumption DEF TypeOK, CacheTypeOK

(* A step of call c that returns nothing and leaves the cache alone: only   *)
(* its own record is to be looked at.                                      *)
LEMMA QuietKeeps ==
  ASSUME Inv, NEW c \in Calls, NEW d \in Call, call' = [call EXCEPT ![c] = d],
         UNCHANGED <<now, store, seen, unsaved, longest>>, CallInv(d)
  PROVE  Inv'
<1>1. call'[c] = d /\ \A b \in Calls \ {c} : call'[b] = call[b]
  BY DEF Inv, TypeOK
<1>2. TypeOK'
  BY DEF Inv, TypeOK, CacheTypeOK
<1>3. ASSUME NEW b \in Calls PROVE CallInv(call[b])'
  <2>1. PICK q \in Call : q = call'[b] /\ CallInv(q)
    BY <1>1 DEF Inv, TypeOK
  <2>2. CallInv(q)'
    BY <2>1 DEF CallInv, UnderWay, HoldsFetched, HoldsCached, TokenOf
  <2> QED
    BY <2>1, <2>2 DEF CallInv, UnderWay, HoldsFetched, HoldsCached, TokenOf
<1>4. \A k \in Keys : StoreInv(k)'
  BY DEF Inv, StoreInv
<1> QED
  BY <1>2, <1>3, <1>4 DEF Inv

(* A call that begins knows what was seen till then.                        *)
LEMMA BeginInv ==
  ASSUME Inv, NEW c \in Calls, NEW tokens \in Seq(Keys), Begin(c, tokens)
  PROVE  Inv'
<1> DEFINE d == [call[c] EXCEPT !.pc = "get", !.asks = tokens, !.begun = now, !.since = now,
                                !.knew = seen[tokens[1]]]
<1>1. /\ call[c] \in Call /\ call[c].got = <<>> /\ now \in Nat /\ longest \in Nat
      /\ Len(tokens) \in Nat /\ Len(tokens) > 0
  BY LenProperties DEF Begin, Inv, TypeOK, CacheTypeOK, CallInv
<1>2. tokens[1] \in Keys
  BY <1>1
<1>3. seen[tokens[1]] \in Int /\ seen[tokens[1]] <= now
  BY <1>2 DEF Inv, TypeOK, StoreInv
<1>4. d \in Call /\ d.pc = "get" /\ d.asks = tokens /\ d.got = <<>>
      /\ d.begun = now /\ d.since = now /\ d.knew = seen[tokens[1]]
  BY <1>1, <1>3 DEF Call, Pcs
<1>5. call' = [call EXCEPT ![c] = d] /\ UNCHANGED <<now, store, seen, unsaved, longest>>
  BY DEF Begin
<1> HIDE DEF d
<1>6. Len(d.got) = 0 /\ TokenOf(d) = tokens[1]
  BY <1>4 DEF TokenOf
<1>7. UnderWay(d)
  BY <1>1, <1>3, <1>4, <1>6 DEF UnderWay
<1>8. CallInv(d)
  BY <1>4, <1>6, <1>7 DEF CallInv
<1> QED
  BY <1>4, <1>5, <1>8, QuietKeeps

(* Call d is where call c goes on with the get_price that it is in.          *)
SameCall(c, d) ==
    /\ d.asks = call[c].asks /\ d.got = call[c].got /\ d.begun = call[c].begun
    /\ d.since = call[c].since /\ d.knew = call[c].knew

(* What a call in progress takes along from one place to the next.          *)
LEMMA MovesOn ==
  ASSUME Inv, NEW c \in Calls, call[c].pc \in Waiting,
         NEW d \in Call, d.pc \in Waiting, SameCall(c, d)
  PROVE  /\ UnderWay(d) /\ TokenOf(d) = Token(c) /\ Token(c) \in Keys
         /\ d.pc \in {"set", "saved"} => (HoldsFetched(d) => CallInv(d))
         /\ d.pc = "hit" => (HoldsCached(d) => CallInv(d))
         /\ d.pc = "fetch" => CallInv(d)
<1>1. call[c] \in Call /\ CallInv(call[c])
  BY DEF Inv, TypeOK
<1>2. TokenOf(d) = TokenOf(call[c]) /\ TokenOf(d) = Token(c)
  BY DEF TokenOf, Token, SameCall
<1>3. UnderWay(call[c]) /\ UnderWay(d)
  BY <1>1, <1>2 DEF CallInv, UnderWay, SameCall
<1>4. Token(c) \in Keys
  BY <1>1, <1>2, <1>3, CallTypes DEF UnderWay, Inv
<1>5. \A i \in 1 .. Len(d.got) : d.got[i].kind = "number" => d.got[i].value >= d.begun
  BY <1>1 DEF CallInv, SameCall
<1> QED
  BY <1>2, <1>3, <1>4, <1>5 DEF CallInv, Waiting

(* An answer of Redis is of an entry that is there after the call began.    *)
LEMMA FindInv == ASSUME Inv, NEW c \in Calls, Find(c) PROVE Inv'
<1> DEFINE v == store[Token(c)].value
           d == [call[c] EXCEPT !.pc = "hit", !.value = v]
<1>1. call[c] \in Call /\ call[c].pc = "get" /\ "get" \in Waiting /\ "hit" \in Waiting
  BY DEF Find, Inv, TypeOK, Waiting
<1>2. UnderWay(call[c]) /\ Token(c) = TokenOf(call[c])
  BY <1>1 DEF Inv, CallInv, Token, TokenOf
<1>3. Token(c) \in Keys
  BY <1>1, <1>2, CallTypes DEF UnderWay, Inv
<1>4. /\ v \in Int /\ store[Token(c)].until \in Int /\ seen[Token(c)] \in Int
      /\ StoreInv(Token(c))
  BY <1>3 DEF Inv, TypeOK, CacheTypeOK, Entry
<1>5. call' = [call EXCEPT ![c] = d] /\ UNCHANGED <<now, store, seen, unsaved, longest>>
      /\ now < store[Token(c)].until
  BY DEF Find, Live
<1>6. /\ v = store[Token(c)].value /\ d \in Call /\ d.pc = "hit" /\ d.value = v
      /\ SameCall(c, d)
  BY <1>1, <1>4 DEF Call, Pcs, SameCall
<1> HIDE DEF d, v
<1>7. UnderWay(d) /\ TokenOf(d) = Token(c) /\ (HoldsCached(d) => CallInv(d))
  BY <1>1, <1>6, MovesOn
<1>8. HoldsCached(d)
  <2>1. /\ d.since \in Int /\ d.knew \in Int /\ now \in Int /\ longest \in Int /\ TTL \in Int
    BY <1>6, CallTypes DEF Inv
  <2>2. d.since <= now /\ d.knew <= seen[Token(c)]
    BY <1>7 DEF UnderWay
  <2> QED
    <3>1. /\ v <= now /\ store[Token(c)].until <= v + longest + TTL
          /\ Token(c) \notin unsaved => seen[Token(c)] <= v + longest
      BY <1>4, <1>6 DEF StoreInv
    <3>2. d.since < v + longest + TTL
      BY <1>4, <1>5, <2>1, <2>2, <3>1
    <3>3. Token(c) \notin unsaved => d.knew <= v + longest /\ v <= store[Token(c)].value + longest
      <4>1. v <= v + longest
        BY <1>4, <2>1, CallTypes DEF Inv, TypeOK
      <4> QED
        BY <1>4, <1>6, <2>1, <2>2, <3>1, <4>1
    <3> QED
      BY <1>6, <1>7, <3>1, <3>2, <3>3 DEF HoldsCached
<1> QED
  BY <1>5, <1>6, <1>7, <1>8, QuietKeeps

(* A miss leaves cache and answers alone.                                   *)
LEMMA MissInv == ASSUME Inv, NEW c \in Calls, Miss(c) PROVE Inv'
<1> DEFINE d == [call[c] EXCEPT !.pc = "fetch"]
<1>1. /\ call[c] \in Call /\ call[c].pc = "get" /\ "get" \in Waiting /\ "fetch" \in Waiting
  BY DEF Miss, Inv, TypeOK, Waiting
<1>2. call' = [call EXCEPT ![c] = d] /\ UNCHANGED <<now, store, seen, unsaved, longest>>
  BY DEF Miss
<1>3. d \in Call /\ d.pc = "fetch" /\ SameCall(c, d)
  BY <1>1 DEF Call, Pcs, SameCall
<1> HIDE DEF d
<1>4. CallInv(d)
  BY <1>1, <1>3, MovesOn
<1> QED
  BY <1>2, <1>3, <1>4, QuietKeeps

(* An answer of the source is of this very moment.                          *)
LEMMA AnswerInv == ASSUME Inv, NEW c \in Calls, Answer(c) PROVE Inv'
<1> DEFINE d == [call[c] EXCEPT !.pc = "set", !.value = now]
<1>1. /\ call[c] \in Call /\ call[c].pc = "fetch" /\ "fetch" \in Waiting /\ "set" \in Waiting
      /\ now \in Int
  BY DEF Answer, Inv, TypeOK, CacheTypeOK, Waiting
<1>2. call' = [call EXCEPT ![c] = d] /\ UNCHANGED <<now, store, seen, unsaved, longest>>
  BY DEF Answer
<1>3. d \in Call /\ d.pc = "set" /\ d.value = now /\ SameCall(c, d)
  BY <1>1 DEF Call, Pcs, SameCall
<1> HIDE DEF d
<1>4. UnderWay(d) /\ (HoldsFetched(d) => CallInv(d))
  BY <1>1, <1>3, MovesOn
<1>5. HoldsFetched(d)
  BY <1>1, <1>3, <1>4 DEF UnderWay, HoldsFetched
<1> QED
  BY <1>2, <1>3, <1>4, <1>5, QuietKeeps

(* A returned price becomes the newest seen or is older than that.          *)
LEMMA SeenGrows ==
  ASSUME Inv, NEW c \in Calls, NEW p \in Price, Return(c, p), Token(c) \in Keys,
         p.value <= now
  PROVE  /\ seen' \in [Keys -> Int]
         /\ \A k \in Keys : seen[k] <= seen'[k] /\ seen'[k] <= now
         /\ \A k \in Keys : seen'[k] = seen[k] \/ (k = Token(c) /\ p.kind # "none" /\ seen'[k] = p.value)
<1>1. seen' = Seen(Token(c), p) /\ seen \in [Keys -> Int] /\ p.value \in Int
  BY DEF Return, Inv, TypeOK, Price
<1>2. \A k \in Keys : seen[k] <= now /\ seen[k] \in Int
  BY DEF Inv, TypeOK, StoreInv
<1> QED
  BY <1>1, <1>2 DEF Seen

(* Returning a price that is no newer than now and not far ahead of the     *)
(* cache: the call goes on or is over, and the others see more at most.     *)
LEMMA ReturnInv ==
  ASSUME Inv, NEW c \in Calls, NEW p \in Price, Return(c, p),
         call[c].pc \in Waiting, p.value <= now,
         p.kind = "number" => p.value >= call[c].begun,
         p.kind # "none" /\ Token(c) \notin unsaved =>
            p.value <= store[Token(c)].value + longest
  PROVE  Inv'
<1> DEFINE r == call[c]
<1>1. /\ r \in Call /\ UnderWay(r) /\ TypeOK
      /\ \A i \in 1 .. Len(r.got) : r.got[i].kind = "number" => r.got[i].value >= r.begun
  BY DEF Inv, TypeOK, CallInv
<1>2. /\ r.asks \in Seq(Keys) /\ r.got \in Seq(Price)
      /\ r.begun \in Nat /\ now \in Nat /\ longest \in Nat /\ r.begun <= now
      /\ Len(r.got) \in Nat /\ Len(r.asks) \in Nat /\ Len(r.got) < Len(r.asks)
      /\ Token(c) \in Keys
  BY <1>1, CallTypes DEF UnderWay, Token, TokenOf
<1>3. /\ call' = [call EXCEPT ![c] = After(r, p, seen')]
      /\ UNCHANGED <<now, store, unsaved, longest>>
  BY DEF Return
<1>4. /\ seen' \in [Keys -> Int]
      /\ \A k \in Keys : seen[k] <= seen'[k] /\ seen'[k] <= now /\ seen[k] \in Int
      /\ \A k \in Keys : seen'[k] = seen[k] \/ (k = Token(c) /\ p.kind # "none" /\ seen'[k] = p.value)
  BY <1>2, SeenGrows DEF Inv, TypeOK
<1>5. /\ Append(r.got, p) \in Seq(Price) /\ Len(Append(r.got, p)) = Len(r.got) + 1
      /\ \A i \in 1 .. Len(r.got) : Append(r.got, p)[i] = r.got[i]
      /\ Append(r.got, p)[Len(r.got) + 1] = p
  BY <1>2, AppendProperties
<1>6. ASSUME Len(r.got) + 1 < Len(r.asks) PROVE r.asks[Len(r.got) + 2] \in Keys
  <2>1. Len(r.got) + 2 \in 1 .. Len(r.asks)
    BY <1>2, <1>6
  <2> QED
    BY <1>2, <2>1
<1>7. After(r, p, seen') \in Call
  <2>1. CASE Len(r.got) + 1 < Len(r.asks)
    BY <1>2, <1>4, <1>5, <1>6, <2>1 DEF After, Call, Pcs
  <2>2. CASE ~(Len(r.got) + 1 < Len(r.asks))
    BY <1>2, <1>5, <2>2 DEF After, Call, Pcs
  <2> QED
    BY <2>1, <2>2
<1>8. PICK d \in Call :
         /\ d = After(r, p, seen')
         /\ d.asks = r.asks /\ d.got = Append(r.got, p) /\ d.begun = r.begun
         /\ Len(r.got) + 1 < Len(r.asks) =>
               d.pc = "get" /\ d.since = now /\ d.knew = seen'[r.asks[Len(r.got) + 2]]
         /\ ~(Len(r.got) + 1 < Len(r.asks)) => d.pc = "done"
  BY <1>7 DEF After
<1>9. call'[c] = d /\ \A b \in Calls \ {c} : call'[b] = call[b]
  BY <1>3, <1>8 DEF Inv, TypeOK
<1>10. TypeOK'
  BY <1>3, <1>4, <1>7 DEF Inv, TypeOK, CacheTypeOK
<1>11. \A i \in 1 .. Len(d.got) : d.got[i].kind = "number" => d.got[i].value >= d.begun
  <2> SUFFICES ASSUME NEW i \in 1 .. Len(d.got), d.got[i].kind = "number"
               PROVE  d.got[i].value >= d.begun
    OBVIOUS
  <2>1. CASE i = Len(r.got) + 1
    BY <2>1, <1>5, <1>8
  <2>2. CASE i \in 1 .. Len(r.got)
    BY <2>2, <1>1, <1>5, <1>8
  <2> QED
    BY <2>1, <2>2, <1>2, <1>5, <1>8
<1>12. d.pc \in Waiting => UnderWay(d)'
  <2> SUFFICES ASSUME d.pc \in Waiting PROVE UnderWay(d)'
    OBVIOUS
  <2>1. Len(r.got) + 1 < Len(r.asks)
    BY <1>8 DEF Waiting
  <2>2. Len(d.got) = Len(r.got) + 1 /\ TokenOf(d) = r.asks[Len(r.got) + 2]
    <3>1. Len(d.got) = Len(r.got) + 1
      BY <1>5, <1>8
    <3>2. Len(d.got) + 1 = Len(r.got) + 2
      BY <1>2, <3>1
    <3> QED
      BY <1>8, <3>1, <3>2 DEF TokenOf
  <2>3. seen'[TokenOf(d)] <= now /\ d.knew = seen'[TokenOf(d)] /\ d.knew \in Int
    BY <1>4, <1>6, <1>8, <2>1, <2>2
  <2>4. /\ Len(d.got) < Len(d.asks) /\ d.begun <= d.since /\ d.since = now
        /\ d.knew <= d.since
    BY <1>2, <1>8, <2>1, <2>2, <2>3
  <2> QED
    BY <1>2, <1>3, <2>3, <2>4 DEF UnderWay, TokenOf
<1>13. CallInv(call[c])'
  <2>1. d.pc \notin {"idle", "set", "saved", "hit"}
    BY <1>8
  <2> QED
    BY <1>9, <1>11, <1>12, <2>1 DEF CallInv, UnderWay, TokenOf
<1>14. ASSUME NEW b \in Calls \ {c} PROVE CallInv(call[b])'
  <2>1. PICK q \in Call : CallInv(q) /\ call'[b] = q
    BY <1>9 DEF Inv, TypeOK
  <2>2. q.pc \in Waiting => UnderWay(q)'
    <3> SUFFICES ASSUME q.pc \in Waiting PROVE UnderWay(q)'
      OBVIOUS
    <3>1. UnderWay(q) /\ TokenOf(q) \in Keys /\ q.knew \in Int
      BY <1>1, <2>1, CallTypes DEF CallInv, UnderWay
    <3>2. q.knew <= seen'[TokenOf(q)]
      BY <1>4, <3>1 DEF UnderWay
    <3> QED
      BY <1>3, <2>1, <3>1, <3>2 DEF UnderWay, TokenOf
  <2>3. CallInv(q)'
    BY <1>3, <2>1, <2>2 DEF CallInv, HoldsFetched, HoldsCached, TokenOf
  <2> QED
    BY <2>1, <2>3 DEF CallInv, UnderWay, HoldsFetched, HoldsCached, TokenOf
<1>15. ASSUME NEW k \in Keys PROVE StoreInv(k)'
  <2>1. StoreInv(k) /\ store[k].value \in Int
    BY DEF Inv, TypeOK, CacheTypeOK, Entry
  <2> QED
    BY <1>3, <1>4, <1>15, <2>1 DEF StoreInv
<1> QED
  BY <1>10, <1>13, <1>14, <1>15 DEF Inv

(* A price from the cache is not far ahead of what the cache has now.       *)
LEMMA HitInv == ASSUME Inv, NEW c \in Calls, Hit(c) PROVE Inv'
<1> DEFINE p == Cached(call[c].value)
<1>1. /\ call[c] \in Call /\ call[c].pc = "hit" /\ call[c].pc \in Waiting
      /\ HoldsCached(call[c]) /\ Return(c, p)
  BY DEF Hit, Inv, TypeOK, CallInv, Waiting
<1>2. p \in Price /\ p.kind = "text" /\ p.value = call[c].value
  BY <1>1 DEF Cached, Price, Call
<1> HIDE DEF p
<1>3. /\ p.value <= now /\ (p.kind = "number" => p.value >= call[c].begun)
      /\ (p.kind # "none" /\ Token(c) \notin unsaved =>
             p.value <= store[Token(c)].value + longest)
  BY <1>1, <1>2 DEF HoldsCached, Token, TokenOf
<1> QED
  BY <1>1, <1>2, <1>3, ReturnInv

(* A fetched price is of the time of the call and, if it was written, not   *)
(* far ahead of what the cache has now.                                    *)
LEMMA FetchedInv == ASSUME Inv, NEW c \in Calls, Fetched(c) PROVE Inv'
<1> DEFINE p == [kind |-> "number", value |-> call[c].value]
<1>1. /\ call[c] \in Call /\ call[c].pc = "saved" /\ call[c].pc \in Waiting
      /\ HoldsFetched(call[c]) /\ UnderWay(call[c]) /\ Return(c, p)
  BY DEF Fetched, Inv, TypeOK, CallInv, Waiting
<1>2. p \in Price /\ p.kind = "number" /\ p.value = call[c].value
  BY <1>1 DEF Price, Call
<1>3. call[c].begun \in Nat /\ call[c].since \in Nat /\ call[c].value \in Int
  BY <1>1 DEF Call
<1> HIDE DEF p
<1>4. /\ p.value <= now /\ (p.kind = "number" => p.value >= call[c].begun)
      /\ (p.kind # "none" /\ Token(c) \notin unsaved =>
             p.value <= store[Token(c)].value + longest)
  BY <1>1, <1>2, <1>3 DEF HoldsFetched, UnderWay, Token, TokenOf
<1> QED
  BY <1>1, <1>2, <1>4, ReturnInv

(* A failed fetch returns no price.                                         *)
LEMMA NoAnswerInv == ASSUME Inv, NEW c \in Calls, NoAnswer(c) PROVE Inv'
<1>1. /\ call[c].pc \in Waiting /\ Return(c, None)
      /\ None \in Price /\ None.kind = "none" /\ None.value <= now
  BY DEF NoAnswer, None, Price, Waiting, Inv, TypeOK, CacheTypeOK
<1> QED
  BY <1>1, ReturnInv

(* A write: what anyone has seen or holds by now is newer than the written  *)
(* price by less than the call of the writer has taken.                     *)
LEMMA SaveInv ==
  ASSUME Inv, NEW c \in Calls, NEW stored \in BOOLEAN, Save(c, stored)
  PROVE  Inv'
<1>0. PICK k \in {Token(c)}, v \in {call[c].value} : TRUE
  OBVIOUS
<1>1. /\ call[c] \in Call /\ call[c].pc = "set" /\ "set" \in Waiting /\ "saved" \in Waiting
      /\ UnderWay(call[c]) /\ HoldsFetched(call[c]) /\ TypeOK
      /\ k = Token(c) /\ v = call[c].value
  BY <1>0 DEF Save, Inv, TypeOK, CallInv, Waiting
<1>2. /\ v \in Int /\ v <= now /\ now <= v + longest /\ call[c].since <= v
      /\ now \in Nat /\ longest \in Nat /\ TTL \in Nat
  BY <1>1, CallTypes DEF UnderWay, HoldsFetched
<1>3. /\ unsaved' = (IF stored THEN unsaved ELSE unsaved \cup {k})
      /\ store' = (IF stored THEN [store EXCEPT ![k] = [value |-> v, until |-> now + TTL]]
                   ELSE store)
      /\ UNCHANGED <<now, seen, longest>>
  BY <1>1 DEF Save, Set, Setex
<1>4. PICK d \in Call :
         /\ call' = [call EXCEPT ![c] = d]
         /\ d.pc = "saved" /\ d.value = v /\ SameCall(c, d)
  <2>1. [call[c] EXCEPT !.pc = "saved"] \in Call
    BY <1>1 DEF Call, Pcs
  <2>2. SameCall(c, [call[c] EXCEPT !.pc = "saved"])
    BY <1>1 DEF Call, SameCall
  <2> QED
    BY <1>1, <2>1, <2>2 DEF Save, Call
<1>6. /\ UnderWay(d) /\ TokenOf(d) = k /\ k \in Keys /\ d.since = call[c].since
      /\ HoldsFetched(d) => CallInv(d)
  BY <1>1, <1>4, MovesOn DEF SameCall
<1>7. /\ unsaved \subseteq unsaved' /\ unsaved' \in SUBSET Keys /\ store' \in [Keys -> Entry]
  BY <1>1, <1>2, <1>3, <1>6 DEF TypeOK, CacheTypeOK, Entry
<1>8. TypeOK'
  BY <1>1, <1>3, <1>4, <1>7 DEF TypeOK, CacheTypeOK
<1>9. /\ \A j \in Keys : j # k => store'[j] = store[j]
      /\ k \notin unsaved' => store'[k].value = v /\ store'[k].until = now + TTL
      /\ store'[k] = store[k] \/ (store'[k].value = v /\ store'[k].until = now + TTL)
  BY <1>1, <1>3, <1>6 DEF TypeOK, CacheTypeOK
<1>10. ASSUME NEW j \in Keys, NEW x \in Int, x <= now, j \notin unsaved',
              j \notin unsaved => x <= store[j].value + longest
       PROVE  x <= store'[j].value + longest
  <2>1. CASE j = k
    BY <1>2, <1>9, <1>10, <2>1
  <2>2. CASE j # k
    BY <1>7, <1>9, <1>10, <2>2
  <2> QED
    BY <2>1, <2>2
<1>11. ASSUME NEW j \in Keys PROVE StoreInv(j)'
  <2>1. StoreInv(j) /\ store[j] \in Entry /\ seen[j] \in Int /\ seen[j] <= now
    BY DEF Inv, TypeOK, CacheTypeOK, StoreInv
  <2>2. j \notin unsaved' => seen[j] <= store'[j].value + longest
    BY <1>10, <2>1 DEF StoreInv
  <2>3. store'[j].value <= now /\ store'[j].until <= store'[j].value + longest + TTL
    BY <1>2, <1>9, <2>1 DEF StoreInv, Entry
  <2> QED
    BY <1>3, <2>1, <2>2, <2>3 DEF StoreInv
<1>12. CallInv(d)'
  <2>1. HoldsFetched(d)'
    <3>1. k \notin unsaved' => v <= store'[k].value + longest
      BY <1>2, <1>9
    <3> QED
      BY <1>2, <1>3, <1>4, <1>6, <3>1 DEF HoldsFetched, TokenOf
  <2>2. UnderWay(d)'
    BY <1>3, <1>6 DEF UnderWay, TokenOf
  <2>3. \A i \in 1 .. Len(d.got) : d.got[i].kind = "number" => d.got[i].value >= d.begun
    <3>1. d.got = call[c].got /\ d.begun = call[c].begun
      BY <1>4 DEF SameCall
    <3> QED
      BY <3>1 DEF Inv, CallInv
  <2> QED
    BY <1>4, <2>1, <2>2, <2>3 DEF CallInv
<1>13. ASSUME NEW b \in Calls, b # c PROVE CallInv(call[b])'
  <2>1. PICK q \in Call : CallInv(q) /\ call'[b] = q
    BY <1>1, <1>4, <1>13 DEF Inv, TypeOK
  <2>2. q.pc \in Waiting => UnderWay(q)'
    BY <1>3, <2>1 DEF CallInv, UnderWay, TokenOf
  <2>3. ASSUME q.pc \in Waiting, q.value <= now, TokenOf(q) \notin unsaved',
               TokenOf(q) \notin unsaved => q.value <= store[TokenOf(q)].value + longest
        PROVE  q.value <= store'[TokenOf(q)].value + longest
    <3>1. TokenOf(q) \in Keys /\ q.value \in Int
      BY <1>1, <2>1, <2>3, CallTypes DEF CallInv, UnderWay
    <3> QED
      BY <1>10, <2>3, <3>1
  <2>4. q.pc \in {"set", "saved"} => HoldsFetched(q)'
    <3> SUFFICES ASSUME q.pc \in {"set", "saved"} PROVE HoldsFetched(q)'
      OBVIOUS
    <3>1. HoldsFetched(q) /\ q.pc \in Waiting
      BY <2>1 DEF CallInv, Waiting
    <3>2. q.pc = "saved" /\ TokenOf(q) \notin unsaved' => q.value <= store'[TokenOf(q)].value + longest
      BY <2>3, <3>1 DEF HoldsFetched
    <3> QED
      BY <1>3, <2>1, <3>1, <3>2 DEF HoldsFetched, TokenOf
  <2>5. q.pc = "hit" => HoldsCached(q)'
    <3> SUFFICES ASSUME q.pc = "hit" PROVE HoldsCached(q)'
      OBVIOUS
    <3>1. HoldsCached(q) /\ q.pc \in Waiting
      BY <2>1 DEF CallInv, Waiting
    <3>2. TokenOf(q) \notin unsaved' =>
             q.knew <= q.value + longest /\ q.value <= store'[TokenOf(q)].value + longest
      BY <1>7, <2>3, <3>1 DEF HoldsCached
    <3> QED
      BY <1>3, <2>1, <3>1, <3>2 DEF HoldsCached, TokenOf
  <2> QED
    BY <2>1, <2>2, <2>4, <2>5 DEF CallInv, UnderWay, HoldsFetched, HoldsCached, TokenOf
<1>14. CallInv(call[c])'
  <2>1. call'[c] = d
    BY <1>1, <1>4 DEF TypeOK
  <2> QED
    BY <1>12, <2>1 DEF CallInv, UnderWay, HoldsFetched, HoldsCached, TokenOf
<1> QED
  BY <1>8, <1>11, <1>13, <1>14 DEF Inv

(* Time passes: longest keeps up with every get_price under way.            *)
LEMMA TickInv == Inv /\ Tick => Inv'
<1> SUFFICES ASSUME Inv, Tick PROVE Inv'
  OBVIOUS
<1>1. /\ now \in Nat /\ longest \in Nat /\ now' = now + 1
      /\ UNCHANGED <<store, call, seen, unsaved>>
      /\ longest' \in {longest, longest + 1}
  BY DEF Tick, Pass, Inv, TypeOK, CacheTypeOK
<1>2. TypeOK'
  BY <1>1 DEF Inv, TypeOK, CacheTypeOK
<1>3. ASSUME NEW c \in Calls PROVE CallInv(call[c])'
  <2>1. PICK q \in Call : CallInv(q) /\ q = call[c] /\ call'[c] = q
    BY <1>1 DEF Inv, TypeOK
  <2>2. q.since \in Nat /\ q.value \in Int /\ q.knew \in Int /\ TTL \in Nat
    BY <2>1, CallTypes DEF Inv
  <2>3. q.pc \in Waiting => now + 1 <= q.since + longest'
    <3> SUFFICES ASSUME q.pc \in Waiting PROVE now + 1 <= q.since + longest'
      OBVIOUS
    <3>1. now <= q.since + longest
      BY <2>1 DEF CallInv, UnderWay
    <3>2. CASE now - q.since >= longest
      <4>1. longest' = longest + 1
        BY <2>1, <3>2 DEF Tick
      <4> QED
        BY <1>1, <2>2, <3>1, <4>1
    <3>3. CASE ~(now - q.since >= longest)
      BY <1>1, <2>2, <3>3
    <3> QED
      BY <3>2, <3>3
  <2>4. q.pc \in Waiting => TokenOf(q) \in Keys
    BY <2>1, CallTypes DEF Inv, CallInv, UnderWay
  <2>5. q.pc \in Waiting => store[TokenOf(q)].value \in Int
    BY <2>4 DEF Inv, TypeOK, CacheTypeOK, Entry
  <2>7. q.pc \in Waiting => UnderWay(q)'
    BY <1>1, <2>1, <2>2, <2>3, <2>4 DEF CallInv, UnderWay, TokenOf
  <2>6. /\ now <= now' /\ longest <= longest' /\ longest' \in Nat /\ now' \in Nat
        /\ store' = store /\ unsaved' = unsaved
    BY <1>1
  <2>8. q.pc \in {"set", "saved"} => HoldsFetched(q)'
    <3> SUFFICES ASSUME q.pc \in {"set", "saved"} PROVE HoldsFetched(q)'
      OBVIOUS
    <3>1. HoldsFetched(q) /\ store[TokenOf(q)].value \in Int
      BY <2>1, <2>5 DEF CallInv, Waiting
    <3> QED
      BY <1>1, <2>2, <2>6, <3>1 DEF HoldsFetched, TokenOf
  <2>9. q.pc = "hit" => HoldsCached(q)'
    <3> SUFFICES ASSUME q.pc = "hit" PROVE HoldsCached(q)'
      OBVIOUS
    <3>1. HoldsCached(q) /\ store[TokenOf(q)].value \in Int
      BY <2>1, <2>5 DEF CallInv, Waiting
    <3> DEFINE u == store[TokenOf(q)].value
    <3>2. q.since < q.value + longest' + TTL /\ q.value <= now'
      BY <1>1, <2>2, <2>6, <3>1 DEF HoldsCached
    <3>3. TokenOf(q) \notin unsaved => q.knew <= q.value + longest' /\ q.value <= u + longest'
      <4> SUFFICES ASSUME TokenOf(q) \notin unsaved
                   PROVE  q.knew <= q.value + longest' /\ q.value <= u + longest'
        OBVIOUS
      <4>1. q.knew <= q.value + longest /\ q.value <= u + longest /\ u \in Int
        BY <3>1 DEF HoldsCached
      <4> HIDE DEF u
      <4> QED
        BY <1>1, <2>2, <2>6, <4>1
    <3> QED
      BY <2>6, <3>2, <3>3 DEF HoldsCached, TokenOf
  <2>10. CallInv(q)'
    BY <2>1, <2>7, <2>8, <2>9 DEF CallInv
  <2> QED
    BY <2>1, <2>10 DEF CallInv, UnderWay, HoldsFetched, HoldsCached, TokenOf
<1>4. \A k \in Keys : StoreInv(k)'
  BY <1>1, TTLAssumption DEF Inv, TypeOK, CacheTypeOK, Entry, StoreInv
<1> QED
  BY <1>2, <1>3, <1>4 DEF Inv

(* Every step keeps the bounds on the ages.                                 *)
LEMMA StepInv == Inv /\ [Next]_vars => Inv'
<1> SUFFICES ASSUME Inv, [Next]_vars PROVE Inv'
  OBVIOUS
<1>1. CASE UNCHANGED vars
  BY <1>1 DEF Inv, TypeOK, CacheTypeOK, CallInv, UnderWay, HoldsFetched, HoldsCached,
              TokenOf, StoreInv
<1>2. CASE Tick
  BY <1>2, TickInv
<1>3. ASSUME NEW c \in Calls, NEW t \in Keys, NEW u \in Keys,
             Begin(c, <<t>>) \/ Begin(c, <<t, u>>)
      PROVE  Inv'
  <2>1. <<t>> \in Seq(Keys) /\ <<t, u>> \in Seq(Keys)
    OBVIOUS
  <2> QED
    BY <1>3, <2>1, BeginInv
<1>4. ASSUME NEW c \in Calls, NEW stored \in BOOLEAN,
             \/ Find(c) \/ Hit(c) \/ Miss(c) \/ Answer(c) \/ NoAnswer(c)
             \/ Save(c, stored) \/ Fetched(c)
      PROVE  Inv'
  BY <1>4, FindInv, HitInv, MissInv, AnswerInv, NoAnswerInv, SaveInv, FetchedInv
<1> QED
  BY <1>1, <1>2, <1>3, <1>4 DEF Next

(* Entries and answers are never further behind than the longest call, for  *)
(* every lifetime, number of calls and time they take.                      *)
THEOREM Safety == Spec => []Inv
  BY InitInv, StepInv, PTL DEF Spec

(* The types of the feed's state hold for all tokens, calls and times.      *)
THEOREM TypeCorrect == Spec => []TypeOK
<1>1. Inv => TypeOK
  BY DEF Inv
<1> QED
  BY <1>1, Safety, PTL

(* Whatever quote get_quote_for_trade returns, both of its prices were       *)
(* fetched after the call began.                                           *)
THEOREM QuotesRestOnFetches == Spec => []QuotesAreFetched
<1>1. Inv => QuotesAreFetched
  <2> SUFFICES ASSUME Inv, NEW c \in Calls, QuoteOf(call[c].got) = "quote",
                      NEW i \in 1 .. Len(call[c].got)
               PROVE  call[c].got[i].value >= call[c].begun
    BY DEF QuotesAreFetched
  <2>1. call[c].got[i] \in Price
    BY DEF Inv, TypeOK, Call
  <2>2. call[c].got[i].kind = "number"
    BY <2>1 DEF QuoteOf, Price
  <2> QED
    BY <2>2 DEF Inv, CallInv
<1> QED
  BY <1>1, Safety, PTL

(* The step that returns a price: a hit or the end of a fetch, with the     *)
(* price it holds.                                                         *)
LEMMA ReturnsWhat ==
  ASSUME Inv, Next, NEW c \in Calls, Returns(c)
  PROVE  \/ Hit(c) /\ Returned(c) = Cached(call[c].value)
         \/ Fetched(c) /\ Returned(c) = [kind |-> "number", value |-> call[c].value]
<1>1. call[c].got \in Seq(Price) /\ Len(call[c].got) \in Nat /\ call \in [Calls -> Call]
  BY LenProperties DEF Inv, TypeOK, Call
<1>2. call'[c].got # call[c].got
  BY <1>1 DEF Returns
<1>3. ASSUME NEW p, Return(c, p)
      PROVE  Returned(c) = p
  <2>1. call'[c].got = Append(call[c].got, p)
    BY <1>1, <1>3 DEF Return, After
  <2>2. Len(call'[c].got) = Len(call[c].got) + 1
    BY DEF Returns
  <2> QED
    BY <1>1, <2>1, <2>2 DEF Returned
<1>4. ASSUME Tick PROVE FALSE
  BY <1>2, <1>4 DEF Tick
<1>5. ASSUME NEW b \in Calls, NEW t \in Seq(Keys), Begin(b, t) PROVE FALSE
  BY <1>1, <1>2, <1>5 DEF Begin, Call
<1>6. ASSUME NEW b \in Calls, NEW stored \in BOOLEAN,
             Find(b) \/ Miss(b) \/ Answer(b) \/ Save(b, stored)
      PROVE  FALSE
  <2>1. call[b] \in Call
    BY <1>1 DEF Inv, TypeOK
  <2>2. CASE Find(b)
    BY <1>1, <1>2, <2>1, <2>2 DEF Find, Call
  <2>3. CASE Miss(b)
    BY <1>1, <1>2, <2>1, <2>3 DEF Miss, Call
  <2>4. CASE Answer(b)
    BY <1>1, <1>2, <2>1, <2>4 DEF Answer, Call
  <2>5. CASE Save(b, stored)
    BY <1>1, <1>2, <2>1, <2>5 DEF Save, Call
  <2> QED
    BY <1>6, <2>2, <2>3, <2>4, <2>5
<1>7. ASSUME NEW b \in Calls, NEW p, Return(b, p) PROVE b = c
  BY <1>1, <1>2, <1>7 DEF Return
<1>8. ASSUME NEW b \in Calls, NoAnswer(b) PROVE FALSE
  <2>1. b = c /\ Return(c, None)
    BY <1>7, <1>8 DEF NoAnswer
  <2>2. Returned(c) = None
    BY <2>1, <1>3
  <2> QED
    BY <2>2 DEF None, Returns, Returned
<1>9. ASSUME NEW b \in Calls, Hit(b) PROVE Hit(c) /\ Returned(c) = Cached(call[c].value)
  <2>1. Return(b, Cached(call[b].value))
    BY <1>9 DEF Hit
  <2>2. b = c
    BY <2>1, <1>7
  <2> QED
    BY <1>3, <1>9, <2>1, <2>2
<1>10. ASSUME NEW b \in Calls, Fetched(b)
       PROVE  Fetched(c) /\ Returned(c) = [kind |-> "number", value |-> call[c].value]
  <2>1. Return(b, [kind |-> "number", value |-> call[b].value])
    BY <1>10 DEF Fetched
  <2>2. b = c
    BY <2>1, <1>7
  <2> QED
    BY <1>3, <1>10, <2>1, <2>2
<1>11. ASSUME NEW b \in Calls, NEW t \in Keys, NEW u \in Keys,
              Begin(b, <<t>>) \/ Begin(b, <<t, u>>)
       PROVE  FALSE
  <2>1. <<t>> \in Seq(Keys) /\ <<t, u>> \in Seq(Keys)
    OBVIOUS
  <2> QED
    BY <1>5, <1>11, <2>1
<1> QED
  BY <1>4, <1>6, <1>8, <1>9, <1>10, <1>11 DEF Next

(* The price of a step that returns one, against the begin of its get_price *)
(* and what was known then.                                                *)
LEMMA ReturnedAge ==
  ASSUME Inv, Next, NEW c \in Calls, Returns(c)
  PROVE  /\ call[c].since - Returned(c).value < TTL + longest
         /\ Token(c) \notin unsaved => Returned(c).value >= call[c].knew - longest
<1>1. call[c] \in Call /\ CallInv(call[c]) /\ TypeOK /\ Token(c) = TokenOf(call[c])
  BY DEF Inv, TypeOK, Token, TokenOf
<1>2. /\ call[c].since \in Nat /\ call[c].knew \in Int /\ call[c].value \in Int
      /\ longest \in Nat /\ TTL \in Nat
  BY <1>1, CallTypes
<1>3. CASE Hit(c) /\ Returned(c) = Cached(call[c].value)
  <2>1. HoldsCached(call[c]) /\ Returned(c).value = call[c].value
    BY <1>1, <1>3 DEF Hit, CallInv, Cached
  <2> QED
    BY <1>1, <1>2, <2>1 DEF HoldsCached
<1>4. CASE Fetched(c) /\ Returned(c) = [kind |-> "number", value |-> call[c].value]
  <2>1. /\ HoldsFetched(call[c]) /\ UnderWay(call[c]) /\ Returned(c).value = call[c].value
    BY <1>1, <1>4 DEF Fetched, CallInv, Waiting
  <2> QED
    BY <1>2, <2>1, TTLAssumption DEF HoldsFetched, UnderWay
<1> QED
  BY <1>3, <1>4, ReturnsWhat

(* When a get_price begins, the price it will return is younger than the    *)
(* ttl and the longest call, or not even named.                             *)
THEOREM PricesAreFresh == Spec => FreshWhenAsked
<1>1. Inv /\ [Next]_vars =>
        [\A c \in Calls : Returns(c) => call[c].since - Returned(c).value < TTL + longest]_vars
  BY ReturnedAge
<1> QED
  BY <1>1, Safety, PTL DEF Spec, FreshWhenAsked

(* Concurrent misses put prices into the cache out of order, and a caller   *)
(* sees a price go back, but by less than the longest call has taken.       *)
THEOREM PricesGoBackLittle == Spec => StepsBackAreShort
<1>1. Inv /\ [Next]_vars =>
        [\A c \in Calls : Returns(c) /\ Token(c) \notin unsaved =>
           Returned(c).value >= call[c].knew - longest]_vars
  BY ReturnedAge
<1> QED
  BY <1>1, Safety, PTL DEF Spec, StepsBackAreShort
=============================================================================
