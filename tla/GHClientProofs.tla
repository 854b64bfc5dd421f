---------------------------- MODULE GHClientProofs ----------------------------
(***************************************************************************)
(* Proofs about GHClient, for any installations and resources, lifetimes,  *)
(* limits of the caches and header values.  The argument: a token found in *)
(* the cache was issued for the installation it is kept under, and is kept *)
(* for TokenTTL from its answer (TokensOK); the caller's token is its      *)
(* installation's (CallerOK), and what is cached under a token is of that  *)
(* token's installation (CacheOK); and whoever has been told to wait, and  *)
(* should still, has a cooldown armed, which ends early by the time that   *)
(* the refusal took (LimitsOK).  Two more invariants                       *)
(* stand on these: nothing is in the order of eviction twice, and what is  *)
(* in it is what is cached (OrderOK); and an entry is quiet for no longer  *)
(* than the longest interval after its version ended (FreshOK).            *)
(***************************************************************************)
EXTENDS GHClient, SequenceTheorems, FiniteSetTheorems, TLAPS

Known == 1..Len(issued)

TokensOK == \A k \in Key : tokens[k] # NoValue =>
  /\ tokens[k].value \in Known
  /\ issued[tokens[k].value].key = k
  /\ tokens[k].expiresAt = issued[tokens[k].value].answered + TokenTTL

CallerOK ==
  /\ pc \in {"ready", "sent"} => tok \in Known /\ issued[tok].key = key
  /\ pc \in {"auth", "sent"} => call \in Call
  /\ pc = "auth" => key \in Key

CacheOK == \A u \in Url, t \in Token : respCache[<<u, t>>] # NoValue =>
  /\ t \in Known
  /\ respCache[<<u, t>>].body.key = issued[t].key

LimitsOK == \A t \in Token :
  \/ told[t].until <= now + told[t].taken
  \/ cooldowns[t] # NoValue /\ told[t].until = cooldowns[t] + told[t].taken

Inv == TypeOK /\ TokensOK /\ CallerOK /\ CacheOK /\ LimitsOK /\ OwnBodies

-----------------------------------------------------------------------------
(* The order of eviction, cut to its limit.                                *)
LEMMA CutType ==
  ASSUME NEW S, NEW s \in Seq(S), NEW max \in Nat
  PROVE  /\ Cut(s, max) \in Seq(S)
         /\ Len(s) <= max + 1 => Len(Cut(s, max)) <= max
<1>1. CASE Len(s) > max
  <2>1. s # <<>> /\ Len(s) \in Nat
    BY <1>1
  <2>2. Tail(s) \in Seq(S) /\ Len(Tail(s)) = Len(s) - 1
    BY <2>1
  <2> QED
    BY <1>1, <2>1, <2>2 DEF Cut
<1>2. CASE ~(Len(s) > max)
  BY <1>2 DEF Cut
<1> QED
  BY <1>1, <1>2

LEMMA IssuedType ==
  ASSUME TypeOK
  PROVE  /\ Len(issued) \in Nat /\ Known \subseteq Token
         /\ \A t \in Known : /\ issued[t].key \in Key
                            /\ issued[t].at \in Time /\ issued[t].answered \in Time
<1>1. issued \in Seq(Issue) /\ Len(issued) \in Nat
  BY DEF TypeOK
<1>2. \A t \in Known : issued[t] \in Issue
  BY <1>1, ElementOfSeq DEF Known
<1>3. Known \subseteq Token
  BY <1>1, GHClientAssumption DEF Known, Token, TypeOK
<1> QED
  BY <1>1, <1>2, <1>3 DEF Issue

(* The caller has a token that was issued, for its installation.           *)
LEMMA CallerType ==
  ASSUME Inv, pc \in {"ready", "sent"}
  PROVE  tok \in Token /\ tok \in Known /\ key \in Key /\ issued[tok].key = key
BY IssuedType DEF Inv, CallerOK

LEMMA InitInv == Init => Inv
<1> SUFFICES ASSUME Init PROVE Inv
  OBVIOUS
<1> USE GHClientAssumption
<1>1. issued \in Seq(Issue) /\ Len(issued) <= MaxIssued
  BY EmptySeq DEF Init
<1>2. order \in Seq(Key) /\ Len(order) <= TokenMax /\ respOrder \in Seq(Url \X Token)
  BY EmptySeq DEF Init
<1>3. <<0>> \in Seq(Time) /\ Len(<<0>>) \in Version
  BY DEF Time, Version
<1>4. TypeOK
  BY <1>1, <1>2, <1>3 DEF Init, TypeOK, Time, Wait, Token
<1>5. TokensOK /\ CallerOK /\ CacheOK /\ OwnBodies
  BY DEF Init, TokensOK, CallerOK, CacheOK, OwnBodies, Token
<1>6. LimitsOK
  BY DEF Init, LimitsOK
<1> QED
  BY <1>4, <1>5, <1>6 DEF Inv

-----------------------------------------------------------------------------
(* AuthenticateApp.                                                        *)

LEMMA WorldInv ==
  ASSUME Inv, Tick \/ \E u \in Url : Changes(u)
  PROVE  Inv'
<1> USE GHClientAssumption
<1>1. TypeOK
  BY DEF Inv
<1>2. CASE Tick
  <2>1. /\ now' = now + 1 /\ now' \in Time /\ now \in Nat
        /\ UNCHANGED <<issued, changed, told, tokens, order, respCache, respOrder, cooldowns,
                       pc, key, tok, call, got>>
    BY <1>1, <1>2 DEF Tick, TypeOK, Time, github, caches
  <2>2. TypeOK'
    BY <1>1, <2>1 DEF TypeOK
  <2>3. \A t \in Token : told[t].until \in Nat /\ told[t].taken \in Nat
    BY <1>1 DEF TypeOK, Wait
  <2>4. LimitsOK'
    BY <2>1, <2>3 DEF Inv, LimitsOK
  <2> QED
    BY <2>1, <2>2, <2>4 DEF Inv, TokensOK, CallerOK, CacheOK, OwnBodies, Known
<1>3. ASSUME NEW u \in Url, Changes(u) PROVE Inv'
  <2>1. /\ changed' = [changed EXCEPT ![u] = Append(@, now)] /\ Len(changed[u]) < MaxVersion
        /\ UNCHANGED <<now, issued, told, tokens, order, respCache, respOrder, cooldowns,
                       pc, key, tok, call, got>>
    BY <1>3 DEF Changes, caches
  <2>2. /\ Append(changed[u], now) \in Seq(Time)
        /\ Len(Append(changed[u], now)) = Len(changed[u]) + 1
        /\ Len(changed[u]) \in Version
    BY <1>1, AppendProperties DEF TypeOK
  <2>3. Len(Append(changed[u], now)) \in Version
    BY <2>1, <2>2 DEF Version
  <2>4. TypeOK'
    BY <1>1, <2>1, <2>2, <2>3 DEF TypeOK
  <2> QED
    BY <2>1, <2>4 DEF Inv, TokensOK, CallerOK, CacheOK, LimitsOK, OwnBodies, Known
<1> QED
  BY <1>2, <1>3

(* What TokenStillValid says of the caller's token when it gets it.        *)
ValidNow ==
  /\ issued[tok].key = key
  /\ Prompt(issued[tok]) => now < issued[tok].at + Lifetime

LEMMA IssuedInv ==
  ASSUME Inv, Issued
  PROVE  Inv' /\ ValidNow'
<1> USE GHClientAssumption
<1> DEFINE n == Len(issued) + 1
           longer == Append(order, key)
           new(at) == [key |-> key, at |-> at, answered |-> now]
<1>1. /\ TypeOK /\ key \in Key /\ pc = "auth" /\ Len(issued) < MaxIssued /\ now \in Nat
      /\ UNCHANGED <<now, changed, told, respCache, respOrder, cooldowns, key, got>>
      /\ pc' = "ready" /\ call' = NoValue /\ tok' = n /\ order' = Cut(longer, TokenMax)
  BY SMTT(60) DEF Inv, Issued, CallerOK, TypeOK, Time, Returns
<1>2. PICK at \in Time : issued' = Append(issued, new(at))
  <2>1. call.start \in Time /\ now \in Time
    BY <1>1 DEF Inv, CallerOK, Call, TypeOK
  <2>2. PICK at \in call.start..now : issued' = Append(issued, new(at))
    BY DEF Issued
  <2>3. at \in Time
    BY <2>1, <2>2 DEF Time
  <2> QED
    BY <2>2, <2>3
<1>3. \A k \in Key : tokens'[k] = NoValue \/ (k # key /\ tokens'[k] = tokens[k])
                       \/ (k = key /\ tokens'[k] = [value |-> n, expiresAt |-> now + TokenTTL])
  BY <1>1 DEF Issued, TypeOK, Expiry
<1>4. tokens' \in [Key -> [value : Token, expiresAt : Nat] \union {NoValue}]
  <2>1. n \in Token /\ now + TokenTTL \in Nat
    BY <1>1, IssuedType DEF Token
  <2>2. tokens' = [k \in Key |-> tokens'[k]]
    BY DEF Issued
  <2> QED
    BY <1>1, <1>3, <2>1, <2>2 DEF TypeOK
<1>5. /\ issued' \in Seq(Issue) /\ Len(issued') = n /\ n \in Nat
      /\ \A t \in Known : issued'[t] = issued[t]
      /\ issued'[n] = new(at)
      /\ n <= MaxIssued /\ n \in Known' /\ Known \subseteq Known'
  <2>1. new(at) \in Issue
    BY <1>1, <1>2 DEF Issue, TypeOK
  <2>2. issued \in Seq(Issue) /\ Len(issued) \in Nat
    BY <1>1 DEF TypeOK
  <2>3. /\ issued' \in Seq(Issue) /\ Len(issued') = n
        /\ \A t \in 1..Len(issued) : issued'[t] = issued[t]
        /\ issued'[n] = new(at)
    BY <1>2, <2>1, <2>2, AppendProperties
  <2> QED
    BY SMTT(60), <1>1, <2>2, <2>3 DEF Known
<1>6. order' \in Seq(Key) /\ Len(order') <= TokenMax
  <2>1. longer \in Seq(Key) /\ Len(longer) = Len(order) + 1 /\ Len(order) \in Nat
    BY <1>1, AppendProperties DEF TypeOK
  <2>2. Len(longer) <= TokenMax + 1
    BY <1>1, <2>1 DEF TypeOK
  <2> HIDE DEF longer
  <2> QED
    BY <1>1, <2>1, <2>2, CutType
<1>7. TypeOK'
  <2>1. tok' \in Token
    BY <1>1, <1>5 DEF Token
  <2> QED
    BY <1>1, <1>4, <1>5, <1>6, <2>1 DEF TypeOK
<1>8. issued'[n].at = at /\ issued'[n].key = key /\ issued'[n].answered = now
  BY <1>5
<1>9. TokensOK'
  <2> SUFFICES ASSUME NEW k \in Key, tokens'[k] # NoValue
               PROVE  /\ tokens'[k].value \in Known'
                      /\ issued'[tokens'[k].value].key = k
                      /\ tokens'[k].expiresAt = issued'[tokens'[k].value].answered + TokenTTL
    BY DEF TokensOK
  <2>1. CASE k = key /\ tokens'[k] = [value |-> n, expiresAt |-> now + TokenTTL]
    BY <2>1, <1>5, <1>8
  <2>2. CASE k # key /\ tokens'[k] = tokens[k]
    <3>1. /\ tokens[k].value \in Known /\ issued[tokens[k].value].key = k
          /\ tokens[k].expiresAt = issued[tokens[k].value].answered + TokenTTL
      BY <2>2 DEF Inv, TokensOK
    <3> QED
      BY <2>2, <3>1, <1>5
  <2> QED
    BY <1>3, <2>1, <2>2
<1>10. CallerOK' /\ CacheOK'
  BY <1>1, <1>5, <1>8, IssuedType DEF Inv, CallerOK, CacheOK
<1>11. LimitsOK' /\ OwnBodies'
  BY <1>1 DEF Inv, LimitsOK, OwnBodies
<1>12. ValidNow'
  BY <1>1, <1>2, <1>8 DEF ValidNow, Prompt, Time
<1> QED
  BY <1>7, <1>9, <1>10, <1>11, <1>12 DEF Inv

LEMMA CachedInv ==
  ASSUME Inv, NEW k \in Key, Cached(k)
  PROVE  Inv' /\ ValidNow'
<1>1. /\ TypeOK /\ tokens[k] # NoValue /\ now < tokens[k].expiresAt
      /\ pc' = "ready" /\ key' = k /\ tok' = tokens[k].value
      /\ UNCHANGED <<now, issued, changed, told, tokens, order, respCache, respOrder,
                     cooldowns, call, got>>
  BY DEF Cached, Fresh, Inv, github, caches
<1>2. /\ tokens[k].value \in Known /\ issued[tokens[k].value].key = k
      /\ tokens[k].expiresAt = issued[tokens[k].value].answered + TokenTTL
      /\ tokens[k] \in [value : Token, expiresAt : Nat]
  BY <1>1 DEF Inv, TokensOK, TypeOK
<1>3. now \in Nat /\ issued[tokens[k].value].at \in Nat /\ Lifetime \in Nat
      /\ issued[tokens[k].value].answered \in Nat /\ TokenTTL \in Nat
  <2>1. Lifetime \in Nat /\ TokenTTL \in Nat /\ MaxTime \in Nat
    BY GHClientAssumption
  <2> QED
    BY <1>1, <1>2, <2>1, IssuedType DEF TypeOK, Time
<1>4. TypeOK'
  BY <1>1, <1>2 DEF TypeOK
<1>5. CallerOK'
  BY <1>1, <1>2 DEF CallerOK, Known
<1>6. TokensOK' /\ CacheOK' /\ LimitsOK' /\ OwnBodies'
  BY <1>1 DEF Inv, TokensOK, CacheOK, LimitsOK, OwnBodies, Known
<1>7. ValidNow'
  BY <1>1, <1>2, <1>3 DEF ValidNow, Prompt
<1> QED
  BY <1>4, <1>5, <1>6, <1>7 DEF Inv

(* Whoever is not cooling down has waited, but for the call.               *)
LEMMA EarlyBy ==
  ASSUME Inv, tok \in Token, ~Cooling
  PROVE  told[tok].until <= now + told[tok].taken
<1>1. /\ told[tok].until \in Nat /\ told[tok].taken \in Nat /\ now \in Nat
      /\ cooldowns[tok] \in Nat \union {NoValue}
  BY DEF Inv, TypeOK, Wait, Time
<1>2. cooldowns[tok] = NoValue \/ now >= cooldowns[tok]
  BY <1>1 DEF Cooling
<1> QED
  BY <1>1, <1>2 DEF Inv, LimitsOK

(* Steps that change neither GitHub nor a cache.                           *)
LEMMA CallerStep ==
  ASSUME Inv, TypeOK', CallerOK', OwnBodies',
         UNCHANGED <<now, issued, changed, told, tokens, order, respCache, respOrder>>,
         UNCHANGED cooldowns \/ (tok \in Token /\ ~Cooling /\ cooldowns' = Over(cooldowns))
  PROVE  Inv'
<1>1. TokensOK' /\ CacheOK'
  BY DEF Inv, TokensOK, CacheOK, Known
<1>2. LimitsOK'
  <2>1. CASE UNCHANGED cooldowns
    BY <2>1 DEF Inv, LimitsOK
  <2>2. CASE tok \in Token /\ ~Cooling /\ cooldowns' = Over(cooldowns)
    <3>1. told[tok].until <= now + told[tok].taken
      BY <2>2, EarlyBy
    <3>2. \A t \in Token : t # tok => cooldowns'[t] = cooldowns[t]
      BY <2>2 DEF Over, Inv, TypeOK
    <3> QED
      BY <3>1, <3>2 DEF Inv, LimitsOK
  <2> QED
    BY <2>1, <2>2
<1> QED
  BY <1>1, <1>2 DEF Inv

LEMMA AuthInv ==
  ASSUME Inv, NotIssued \/ Done \/ \E k \in Key : Requests(k)
  PROVE  Inv'
<1>1. TypeOK /\ CallerOK /\ OwnBodies
  BY DEF Inv
<1>2. CASE NotIssued \/ Done
  <2>1. /\ pc' = "idle" /\ key' = NoValue /\ tok' \in {tok, NoValue} /\ got' \in {got, NoValue}
        /\ call' \in {call, NoValue}
        /\ UNCHANGED <<now, issued, changed, told, tokens, order, respCache, respOrder,
                       cooldowns>>
    BY <1>2 DEF NotIssued, Done, github, caches
  <2>2. TypeOK' /\ CallerOK' /\ OwnBodies'
    BY <1>1, <2>1 DEF TypeOK, CallerOK, OwnBodies
  <2> QED
    BY <2>1, <2>2, CallerStep
<1>3. ASSUME NEW k \in Key, Requests(k) PROVE Inv'
  <2>1. /\ pc' = "auth" /\ key' = k /\ call' = [url |-> NoValue, start |-> now]
        /\ UNCHANGED <<now, issued, changed, told, tokens, order, respCache, respOrder,
                       cooldowns, tok, got>>
    BY <1>3 DEF Requests, github, caches
  <2>2. call' \in Call
    BY <1>1, <2>1 DEF TypeOK, Call
  <2>3. TypeOK' /\ CallerOK' /\ OwnBodies'
    BY <1>1, <2>1, <2>2 DEF TypeOK, CallerOK, OwnBodies
  <2> QED
    BY <2>1, <2>3, CallerStep
<1> QED
  BY <1>2, <1>3

-----------------------------------------------------------------------------
(* doRequest.                                                              *)

LEMMA EntryType ==
  ASSUME Inv, pc \in {"ready", "sent"}, NEW u \in Url, Kept(u)
  PROVE  /\ Entry(u) \in [body : Body, notBefore : Nat]
         /\ Entry(u).body.key = key
<1>1. tok \in Token /\ issued[tok].key = key
  BY CallerType
<1> QED
  BY <1>1 DEF Kept, Entry, respCacheKey, Inv, TypeOK, CacheOK

LEMMA OverType ==
  ASSUME Inv, tok \in Token
  PROVE  Over(cooldowns) \in [Token -> Nat \union {NoValue}]
BY DEF Over, Inv, TypeOK

LEMMA FromCacheInv == ASSUME Inv, NEW u \in Url, FromCache(u) PROVE Inv'
<1>1. /\ TypeOK /\ pc = "ready" /\ ~Cooling /\ cooldowns' = Over(cooldowns) /\ Kept(u)
      /\ got' = [body |-> Entry(u).body, start |-> now, for |-> key]
      /\ UNCHANGED <<now, issued, changed, told, tokens, order, respCache, respOrder,
                     pc, key, tok, call>>
  BY DEF FromCache, Inv, Quiet, Gives, github
<1>2. tok \in Token /\ key \in Key
  BY <1>1, CallerType
<1>3. Entry(u).body \in Body /\ Entry(u).body.key = key
  BY <1>1, EntryType
<1>4. got' \in Reply
  BY <1>1, <1>2, <1>3 DEF Reply, TypeOK
<1>5. TypeOK'
  BY <1>1, <1>2, <1>4, OverType DEF TypeOK
<1>6. CallerOK' /\ OwnBodies'
  BY <1>1, <1>3 DEF Inv, CallerOK, OwnBodies, Known
<1> QED
  BY <1>1, <1>2, <1>5, <1>6, CallerStep

LEMMA SendInv ==
  ASSUME Inv, NEW u \in Url \union {NoValue}, Send(u)
  PROVE  Inv' /\ now + told[tok].taken >= told[tok].until
<1>1. /\ TypeOK /\ pc = "ready" /\ ~Cooling /\ cooldowns' = Over(cooldowns)
      /\ call' = [url |-> u, start |-> now] /\ pc' = "sent" /\ got' = NoValue
      /\ UNCHANGED <<now, issued, changed, told, tokens, order, respCache, respOrder,
                     key, tok>>
  BY DEF Send, Inv, github
<1>2. tok \in Token /\ key \in Key
  BY <1>1, CallerType
<1>3. call' \in Call
  BY <1>1 DEF Call, TypeOK
<1>4. TypeOK'
  BY <1>1, <1>2, <1>3, OverType DEF TypeOK
<1>5. CallerOK' /\ OwnBodies'
  BY <1>1, <1>3 DEF Inv, CallerOK, OwnBodies, Known
<1>6. now + told[tok].taken >= told[tok].until
  BY <1>1, <1>2, EarlyBy
<1> QED
  BY <1>1, <1>2, <1>4, <1>5, <1>6, CallerStep

(* The caller has an answer, and the response cache is CacheOK again.      *)
LEMMA ReturnStep ==
  ASSUME Inv, pc = "sent", Returns,
         UNCHANGED <<now, issued, changed, told, tokens, order, cooldowns, key, tok>>,
         respCache' \in [Url \X Token -> [body : Body, notBefore : Nat] \union {NoValue}],
         respOrder' \in Seq(Url \X Token),
         CacheOK', got' \in Reply \union {NoValue}, OwnBodies'
  PROVE  Inv'
<1>1. TypeOK'
  BY DEF Inv, TypeOK, Returns
<1>2. TokensOK' /\ CallerOK' /\ LimitsOK'
  BY DEF Inv, TokensOK, CallerOK, LimitsOK, Returns, Known
<1> QED
  BY <1>1, <1>2 DEF Inv

LEMMA AnsweredInv ==
  ASSUME Inv, NEW v \in Version, NEW poll \in Polls, Answered(v, poll)
  PROVE  Inv'
<1> DEFINE u == call.url
           b == [key |-> issued[tok].key, url |-> u, version |-> v]
           k == respCacheKey(u, tok)
           longer == AppendNew(respOrder, k, respCache[k] # NoValue)
           entry == [body |-> b, notBefore |-> NotBefore(poll)]
<1>1. /\ TypeOK /\ CacheOK /\ pc = "sent" /\ Returns /\ call.url # NoValue
      /\ got' = [body |-> b, start |-> call.start, for |-> key]
      /\ UNCHANGED <<now, issued, changed, told, tokens, order, cooldowns, key, tok>>
      /\ storeResp(u, b, poll) \/ UNCHANGED <<respCache, respOrder>>
  BY DEF Answered, Inv, Gives, github
<1>2. /\ tok \in Token /\ tok \in Known /\ key \in Key /\ issued[tok].key = key
      /\ call \in Call /\ u \in Url /\ call.start \in Time
  BY <1>1, CallerType DEF Inv, CallerOK, Call
<1>3. b \in Body /\ b.key = key
  BY <1>2 DEF Body
<1>4. got' \in Reply /\ OwnBodies'
  BY <1>1, <1>2, <1>3 DEF Reply, OwnBodies
<1>5. entry \in [body : Body, notBefore : Nat]
  BY <1>2, <1>3, GHClientAssumption DEF NotBefore, Time
<1>6. CASE UNCHANGED <<respCache, respOrder>>
  BY <1>1, <1>4, <1>6, ReturnStep DEF TypeOK, CacheOK, Known
<1>7. CASE storeResp(u, b, poll)
  <2>1. k = <<u, tok>> /\ k \in Url \X Token
    BY <1>2 DEF respCacheKey
  <2>2. respOrder' \in Seq(Url \X Token)
    <3>1. longer \in Seq(Url \X Token)
      BY <1>1, <2>1, AppendProperties DEF AppendNew, TypeOK
    <3>2. respOrder' = Cut(longer, CacheMax)
      BY <1>7 DEF storeResp
    <3> HIDE DEF longer
    <3> QED
      BY <3>1, <3>2, CutType, GHClientAssumption
  <2>3. /\ respCache' = [j \in Url \X Token |-> respCache'[j]]
        /\ \A j \in Url \X Token : respCache'[j] \in {NoValue, respCache[j]}
                                     \/ (j = k /\ respCache'[j] = entry)
    BY <1>1, <1>7, <2>1 DEF storeResp, TypeOK
  <2>4. respCache' \in [Url \X Token -> [body : Body, notBefore : Nat] \union {NoValue}]
    <3> HIDE DEF entry, k
    <3> QED
      BY <1>1, <1>5, <2>3 DEF TypeOK
  <2>5. CacheOK'
    <3> SUFFICES ASSUME NEW w \in Url, NEW t \in Token, respCache'[<<w, t>>] # NoValue
                 PROVE  t \in Known' /\ respCache'[<<w, t>>].body.key = issued'[t].key
      BY DEF CacheOK
    <3>1. CASE respCache'[<<w, t>>] = respCache[<<w, t>>]
      BY <1>1, <3>1 DEF CacheOK, Known
    <3>2. CASE <<w, t>> = k /\ respCache'[<<w, t>>] = entry
      BY <1>1, <1>2, <2>1, <3>2 DEF Known
    <3> HIDE DEF entry, k
    <3> QED
      BY <2>3, <3>1, <3>2
  <2> QED
    BY <1>1, <1>4, <2>2, <2>4, <2>5, ReturnStep
<1> QED
  BY <1>1, <1>6, <1>7

LEMMA NotModifiedInv ==
  ASSUME Inv, NEW poll \in Polls, NotModified(poll)
  PROVE  Inv'
<1> DEFINE u == call.url
           k == respCacheKey(u, tok)
<1>1. /\ TypeOK /\ CacheOK /\ pc = "sent" /\ Returns /\ call.url # NoValue /\ Kept(u)
      /\ got' = [body |-> Entry(u).body, start |-> call.start, for |-> key]
      /\ respCache' = [respCache EXCEPT ![k].notBefore = NotBefore(poll)]
      /\ UNCHANGED <<now, issued, changed, told, tokens, order, respOrder, cooldowns,
                     key, tok>>
  BY DEF NotModified, Inv, Gives, github
<1>2. /\ tok \in Token /\ tok \in Known /\ key \in Key
      /\ call \in Call /\ u \in Url /\ call.start \in Time
  BY <1>1, CallerType DEF Inv, CallerOK, Call
<1>3. respCache[k] \in [body : Body, notBefore : Nat] /\ Entry(u).body.key = key
      /\ Entry(u) = respCache[k] /\ k \in Url \X Token
  BY <1>1, <1>2, EntryType DEF Entry, respCacheKey
<1>4. got' \in Reply /\ OwnBodies'
  BY <1>1, <1>2, <1>3 DEF Reply, OwnBodies
<1>5. NotBefore(poll) \in Nat
  BY <1>2, GHClientAssumption DEF NotBefore, Time
<1>6. respCache' \in [Url \X Token -> [body : Body, notBefore : Nat] \union {NoValue}]
  <2> HIDE DEF k
  <2> QED
    BY <1>1, <1>3, <1>5 DEF TypeOK
<1>7. \A w \in Url, t \in Token : respCache'[<<w, t>>] # NoValue =>
        respCache[<<w, t>>] # NoValue
          /\ respCache'[<<w, t>>].body.key = respCache[<<w, t>>].body.key
  <2>1. respCache[k] # NoValue
    BY <1>1, <1>3 DEF Kept
  <2> HIDE DEF k
  <2> QED
    BY <1>1, <1>3, <2>1 DEF TypeOK
<1>8. CacheOK'
  BY <1>1, <1>7 DEF CacheOK, Known
<1> QED
  BY <1>1, <1>4, <1>6, <1>8, ReturnStep DEF TypeOK

(* A refusal: the cooldown is early by what GitHub took, if at all.        *)
LEMMA RefusedInv ==
  ASSUME Inv, pc = "sent", NEW wait \in Wait, NEW until \in Nat, Refused(wait, until),
         wait.until = until + wait.taken
  PROVE  Inv'
<1>1. /\ TypeOK /\ Returns /\ told' = [told EXCEPT ![tok] = wait]
      /\ cooldowns' = [cooldowns EXCEPT ![tok] = until]
      /\ UNCHANGED <<now, issued, changed, tokens, order, respCache, respOrder, key, tok, got>>
  BY DEF Refused, Inv, Armed, github
<1>2. tok \in Token /\ until # NoValue
  BY <1>1, CallerType, GHClientAssumption
<1>3. TypeOK'
  BY <1>1, <1>2 DEF TypeOK, Returns
<1>4. LimitsOK'
  <2>1. \A t \in Token : t # tok => told'[t] = told[t] /\ cooldowns'[t] = cooldowns[t]
    BY <1>1 DEF TypeOK
  <2>2. told'[tok] = wait /\ cooldowns'[tok] = until
    BY <1>1, <1>2 DEF TypeOK
  <2> QED
    BY <1>1, <1>2, <2>1, <2>2 DEF Inv, LimitsOK
<1>5. TokensOK' /\ CallerOK' /\ CacheOK' /\ OwnBodies'
  BY <1>1 DEF Inv, TokensOK, CallerOK, CacheOK, OwnBodies, Returns, Known
<1> QED
  BY <1>3, <1>4, <1>5 DEF Inv

LEMMA LimitedInv ==
  ASSUME Inv, (\E d \in Delays : RetryAfter(d)) \/ \E r \in Resets : RateLimitReset(r)
  PROVE  Inv'
<1> USE GHClientAssumption
<1>1. ASSUME NEW d \in Delays, RetryAfter(d) PROVE Inv'
  <2>1. pc = "sent" /\ call.start \in Nat /\ now \in Nat /\ d \in Nat
    BY <1>1 DEF RetryAfter, Inv, CallerOK, Call, TypeOK, Time
  <2>2. PICK at \in call.start..now :
          Refused([until |-> at + d, taken |-> at - call.start], call.start + d)
    BY <1>1 DEF RetryAfter
  <2> DEFINE wait == [until |-> at + d, taken |-> at - call.start]
  <2>3. /\ at + d \in Nat /\ at - call.start \in Nat /\ call.start + d \in Nat
        /\ at + d = (call.start + d) + (at - call.start)
    BY <2>1, <2>2
  <2>4. wait \in Wait /\ wait.until = (call.start + d) + wait.taken
    BY <2>3 DEF Wait
  <2> HIDE DEF wait
  <2> QED
    BY <2>1, <2>2, <2>3, <2>4, RefusedInv DEF wait
<1>2. ASSUME NEW r \in Resets, RateLimitReset(r) PROVE Inv'
  <2> DEFINE wait == [until |-> r, taken |-> 0]
  <2>1. r \in Nat /\ pc = "sent" /\ Refused(wait, r)
    BY <1>2 DEF RateLimitReset
  <2>2. wait \in Wait /\ wait.until = r /\ wait.taken = 0
    BY <2>1 DEF Wait
  <2>3. wait.until = r + wait.taken
    BY <2>1, <2>2
  <2> HIDE DEF wait
  <2> QED
    BY <2>1, <2>2, <2>3, RefusedInv
<1> QED
  BY <1>1, <1>2

LEMMA EndsInv == ASSUME Inv, Ends PROVE Inv'
<1>1. /\ TypeOK /\ CacheOK /\ OwnBodies /\ pc = "sent" /\ Returns
      /\ UNCHANGED <<now, issued, changed, told, tokens, order, respCache, respOrder,
                     cooldowns, key, tok, got>>
  BY DEF Ends, Inv, github, caches
<1> QED
  BY <1>1, ReturnStep DEF TypeOK, CacheOK, OwnBodies, Known

LEMMA StutterInv == ASSUME Inv, UNCHANGED vars PROVE Inv'
<1>1. UNCHANGED <<now, issued, changed, told, tokens, order, respCache, respOrder,
                  cooldowns, pc, key, tok, call, got>>
  BY DEF vars, github, caches
<1> QED
  BY <1>1 DEF Inv, TypeOK, TokensOK, CallerOK, CacheOK, LimitsOK, OwnBodies, Known

LEMMA StepInv == Inv /\ [Next]_vars => Inv'
BY WorldInv, IssuedInv, CachedInv, AuthInv, FromCacheInv, SendInv, AnsweredInv,
   NotModifiedInv, LimitedInv, EndsInv, StutterInv DEF Next, FailsFast

LEMMA Invariant == Spec => []Inv
BY InitInv, StepInv, PTL DEF Spec

-----------------------------------------------------------------------------
(* The response cache and its order of eviction: what is appended was not  *)
(* in it, and what is cut off is the entry dropped.                        *)

NoRepeats(s) == \A i, j \in 1..Len(s) : s[i] = s[j] => i = j

OrderOK ==
  /\ Len(respOrder) <= CacheMax
  /\ NoRepeats(respOrder)
  /\ \A k \in Url \X Token : respCache[k] # NoValue <=> k \in Range(respOrder)

LEMMA CutOrder ==
  ASSUME NEW S, NEW s \in Seq(S), NEW max \in Nat, Len(s) <= max + 1, NoRepeats(s)
  PROVE  /\ Cut(s, max) \in Seq(S) /\ Len(Cut(s, max)) <= max
         /\ NoRepeats(Cut(s, max))
         /\ Range(Cut(s, max)) = Range(s) \ Evicted(s, max)
<1>1. CASE Len(s) > max
  <2>1. s # <<>> /\ Len(s) \in Nat \ {0} /\ Head(s) = s[1]
    BY <1>1
  <2>2. /\ Tail(s) \in Seq(S) /\ Len(Tail(s)) = Len(s) - 1
        /\ \A i \in 1..Len(Tail(s)) : Tail(s)[i] = s[i + 1]
    BY <2>1, HeadTailProperties
  <2>3. \A i \in 1..Len(Tail(s)) : i + 1 \in 1..Len(s) /\ i + 1 # 1
    BY <2>1, <2>2
  <2>4. NoRepeats(Tail(s))
    <3> SUFFICES ASSUME NEW i \in 1..Len(Tail(s)), NEW j \in 1..Len(Tail(s)),
                        Tail(s)[i] = Tail(s)[j]
                 PROVE  i = j
      BY DEF NoRepeats
    <3>1. i + 1 = j + 1
      BY <2>2, <2>3 DEF NoRepeats
    <3> QED
      BY <3>1
  <2>5. Range(Tail(s)) = Range(s) \ {s[1]}
    <3>1. Range(s) = {s[i] : i \in 1..Len(s)}
      BY RangeEquality
    <3>2. Range(Tail(s)) = {Tail(s)[i] : i \in 1..Len(Tail(s))}
      BY <2>2, RangeEquality
    <3>3. ASSUME NEW x \in Range(Tail(s)) PROVE x \in Range(s) \ {s[1]}
      <4>1. PICK i \in 1..Len(Tail(s)) : x = Tail(s)[i]
        BY <3>2
      <4>2. x = s[i + 1] /\ i + 1 \in 1..Len(s) /\ 1 \in 1..Len(s) /\ i + 1 # 1
        BY <2>1, <2>2, <2>3, <4>1
      <4>3. s[i + 1] # s[1]
        BY <4>2 DEF NoRepeats
      <4> QED
        BY <3>1, <4>2, <4>3
    <3>4. ASSUME NEW x \in Range(s) \ {s[1]} PROVE x \in Range(Tail(s))
      <4>1. PICK i \in 1..Len(s) : x = s[i]
        BY <3>1
      <4>2. i # 1
        BY <4>1
      <4>3. i - 1 \in 1..Len(Tail(s)) /\ (i - 1) + 1 = i
        BY <2>1, <2>2, <4>2
      <4>4. x = Tail(s)[i - 1]
        BY <2>2, <4>1, <4>3
      <4> QED
        BY <3>2, <4>3, <4>4
    <3> QED
      BY <3>3, <3>4
  <2>6. Cut(s, max) = Tail(s) /\ Evicted(s, max) = {s[1]}
    BY <1>1, <2>1 DEF Cut, Evicted
  <2>7. Len(Tail(s)) <= max
    BY <2>1, <2>2
  <2> QED
    BY <2>2, <2>4, <2>5, <2>6, <2>7
<1>2. CASE ~(Len(s) > max)
  BY <1>2 DEF Cut, Evicted
<1> QED
  BY <1>1, <1>2

LEMMA AppendOrder ==
  ASSUME NEW S, NEW s \in Seq(S), NEW k \in S, NoRepeats(s), k \notin Range(s)
  PROVE  /\ Append(s, k) \in Seq(S) /\ Len(Append(s, k)) = Len(s) + 1
         /\ NoRepeats(Append(s, k)) /\ Range(Append(s, k)) = Range(s) \union {k}
<1> DEFINE t == Append(s, k)
<1>1. /\ t \in Seq(S) /\ Len(t) = Len(s) + 1 /\ Len(s) \in Nat
      /\ \A i \in 1..Len(s) : t[i] = s[i]
      /\ t[Len(s) + 1] = k
  BY AppendProperties
<1> HIDE DEF t
<1>2. Range(s) = {s[i] : i \in 1..Len(s)} /\ Range(t) = {t[i] : i \in 1..Len(t)}
  BY <1>1, RangeEquality
<1>3. \A i \in 1..Len(t) : i \in 1..Len(s) \/ i = Len(s) + 1
  BY <1>1
<1>4. \A i \in 1..Len(s) : i \in 1..Len(t) /\ t[i] # k
  BY <1>1, <1>2
<1>5. NoRepeats(t)
  BY <1>1, <1>3, <1>4 DEF NoRepeats
<1>6. Range(t) = Range(s) \union {k}
  <2>1. Len(s) + 1 \in 1..Len(t)
    BY <1>1
  <2>2. \A x \in Range(t) : x \in Range(s) \union {k}
    BY <1>1, <1>2, <1>3
  <2>3. \A x \in Range(s) : x \in Range(t)
    BY <1>1, <1>2, <1>4
  <2>4. k \in Range(t)
    BY <1>1, <1>2, <2>1
  <2> QED
    BY <2>2, <2>3, <2>4
<1> QED
  BY <1>1, <1>5, <1>6 DEF t

LEMMA StoreOrder ==
  ASSUME Inv, OrderOK, pc = "sent", call.url # NoValue, NEW b \in Body, NEW poll \in Polls,
         storeResp(call.url, b, poll)
  PROVE  OrderOK'
<1> DEFINE k == <<call.url, tok>>
           longer == AppendNew(respOrder, k, respCache[k] # NoValue)
           entry == [body |-> b, notBefore |-> NotBefore(poll)]
<1>1. tok \in Token /\ call.url \in Url /\ call.start \in Nat /\ k \in Url \X Token
  BY CallerType DEF Inv, CallerOK, Call, Time
<1>2. entry \in [body : Body, notBefore : Nat]
  BY <1>1, GHClientAssumption DEF NotBefore
<1>3. entry # NoValue
  BY <1>2, NoValueAssumption
<1>4. respOrder \in Seq(Url \X Token) /\ CacheMax \in Nat
  BY GHClientAssumption DEF Inv, TypeOK
<1>5. /\ longer \in Seq(Url \X Token) /\ Len(longer) <= CacheMax + 1 /\ NoRepeats(longer)
      /\ Range(longer) = Range(respOrder) \union {k}
  <2>1. CASE respCache[k] # NoValue
    BY <1>1, <1>4, <2>1 DEF OrderOK, AppendNew
  <2>2. CASE respCache[k] = NoValue
    <3>1. longer = Append(respOrder, k) /\ k \notin Range(respOrder)
      BY <1>1, <2>2 DEF OrderOK, AppendNew
    <3> HIDE DEF longer, k
    <3>2. Len(longer) = Len(respOrder) + 1
      BY <1>1, <1>4, <3>1, AppendOrder DEF OrderOK
    <3> QED
      BY <1>1, <1>4, <3>1, <3>2, AppendOrder DEF OrderOK
  <2> QED
    BY <2>1, <2>2
<1>6. /\ respOrder' = Cut(longer, CacheMax)
      /\ \A j \in Url \X Token : respCache'[j] =
           IF j \in Evicted(longer, CacheMax) THEN NoValue
           ELSE [respCache EXCEPT ![k] = entry][j]
  BY DEF storeResp, respCacheKey, Inv, TypeOK
<1>7. \A j \in Url \X Token : [respCache EXCEPT ![k] = entry][j] # NoValue
                                 <=> j \in Range(longer)
  <2>1. \A j \in Url \X Token : [respCache EXCEPT ![k] = entry][j] =
          IF j = k THEN entry ELSE respCache[j]
    <3> HIDE DEF k, entry
    <3> QED
      BY <1>1 DEF Inv, TypeOK
  <2> HIDE DEF k, entry, longer
  <2> QED
    BY <1>3, <1>5, <2>1 DEF OrderOK
<1> HIDE DEF longer, entry, k
<1>8. /\ Len(respOrder') <= CacheMax /\ NoRepeats(respOrder')
      /\ Range(respOrder') = Range(longer) \ Evicted(longer, CacheMax)
  BY <1>4, <1>5, <1>6, CutOrder
<1> QED
  BY <1>6, <1>7, <1>8 DEF OrderOK, NoRepeats

LEMMA OrderStep == Inv /\ OrderOK /\ [Next]_vars => OrderOK'
<1> SUFFICES ASSUME Inv, OrderOK, [Next]_vars PROVE OrderOK'
  OBVIOUS
<1>1. CASE UNCHANGED <<respCache, respOrder>>
  BY <1>1 DEF OrderOK
<1>2. ASSUME NEW v \in Version, NEW poll \in Polls, Answered(v, poll) PROVE OrderOK'
  <2> DEFINE b == [key |-> issued[tok].key, url |-> call.url, version |-> v]
  <2>1. /\ pc = "sent" /\ call.url # NoValue
        /\ storeResp(call.url, b, poll) \/ UNCHANGED <<respCache, respOrder>>
    BY <1>2 DEF Answered
  <2>2. b \in Body
    BY <2>1, CallerType DEF Inv, CallerOK, Call, Body
  <2> HIDE DEF b
  <2> QED
    BY <1>1, <2>1, <2>2, StoreOrder
<1>3. ASSUME NEW poll \in Polls, NotModified(poll) PROVE OrderOK'
  <2> DEFINE k == <<call.url, tok>>
             entry == [respCache[k] EXCEPT !.notBefore = NotBefore(poll)]
  <2>1. /\ pc = "sent" /\ call.url # NoValue /\ Kept(call.url) /\ UNCHANGED respOrder
        /\ respCache' = [respCache EXCEPT ![respCacheKey(call.url, tok)].notBefore = NotBefore(poll)]
    BY <1>3 DEF NotModified
  <2>2. tok \in Token /\ call.url \in Url /\ call.start \in Nat /\ k \in Url \X Token
    BY <2>1, CallerType DEF Inv, CallerOK, Call, Time
  <2>3. respCache[k] \in [body : Body, notBefore : Nat] /\ respCache[k] # NoValue
    BY <2>1, <2>2 DEF Kept, Entry, respCacheKey, Inv, TypeOK
  <2>4. entry \in [body : Body, notBefore : Nat]
    BY <2>2, <2>3, GHClientAssumption DEF NotBefore
  <2>5. \A j \in Url \X Token : respCache'[j] = IF j = k THEN entry ELSE respCache[j]
    <3>1. respCache' = [respCache EXCEPT ![k] = entry]
      BY <2>1 DEF respCacheKey
    <3> HIDE DEF k, entry
    <3> QED
      BY <2>2, <3>1 DEF Inv, TypeOK
  <2> HIDE DEF k, entry
  <2> QED
    BY <2>1, <2>3, <2>4, <2>5, NoValueAssumption DEF OrderOK
<1> QED
  BY <1>1, <1>2, <1>3 DEF Next, Tick, Changes, Cached, Requests, Issued, NotIssued, Done,
     FailsFast, FromCache, Send, RetryAfter, RateLimitReset, Refused, Ends, vars, caches

-----------------------------------------------------------------------------
(* The age of what is cached.  An entry is quiet for no longer than the    *)
(* longest interval after the moment its version was last seen current;    *)
(* what the caller was given was current, or as quiet as that allows.      *)
Current(body) ==
  /\ body \in Body
  /\ body.version \in 1..Len(changed[body.url])

FreshEntry(u, e) ==
  /\ Current(e.body) /\ e.body.url = u
  /\ e.notBefore <= now + LongestPoll
  /\ e.notBefore <= Ended(u, e.body.version) + LongestPoll

FreshOK ==
  /\ \A u \in Url, t \in Token : respCache[<<u, t>>] # NoValue =>
       FreshEntry(u, respCache[<<u, t>>])
  /\ pc = "sent" => call.start <= now
  /\ got # NoValue => Current(got.body) /\ got.start <= now /\ NotStale

LEMMA LongestPollType ==
  LongestPoll \in Nat /\ \A poll \in Polls : poll \in Nat /\ poll <= LongestPoll
BY GHClientAssumption, PollsAssumption DEF LongestPoll

LEMMA EndedType ==
  ASSUME TypeOK, NEW u \in Url, NEW v \in 1..Len(changed[u])
  PROVE  Ended(u, v) \in Nat /\ now < MaxTime + 1
<1>1. changed[u] \in Seq(Time) /\ Len(changed[u]) \in Nat /\ now \in Time /\ MaxTime \in Nat
  BY GHClientAssumption DEF TypeOK
<1>2. v < Len(changed[u]) => changed[u][v + 1] \in Time
  BY <1>1, ElementOfSeq
<1> QED
  BY <1>1, <1>2 DEF Ended, Time

(* FreshOK after a step, said of what is then cached and given.            *)
LEMMA FreshPrimed ==
  ASSUME \A u \in Url, t \in Token : \A e :
           e = respCache'[<<u, t>>] /\ e # NoValue => FreshEntry(u, e)',
         pc' = "sent" => call'.start <= now',
         \A g : g = got' /\ g # NoValue =>
           /\ Current(g.body)' /\ g.start <= now'
           /\ Ended(g.body.url, g.body.version)' + LongestPoll >= g.start
  PROVE  FreshOK'
<1>1. ASSUME NEW u \in Url, NEW t \in Token, respCache'[<<u, t>>] # NoValue
      PROVE  FreshEntry(u, respCache[<<u, t>>])'
  BY <1>1 DEF FreshEntry, Current, Ended
<1>2. ASSUME got' # NoValue
      PROVE  Current(got.body)' /\ got'.start <= now' /\ NotStale'
  BY <1>2 DEF Current, NotStale, Ended
<1> QED
  BY <1>1, <1>2 DEF FreshOK

(* A resource changes: what was current until now ends now, and nothing    *)
(* that had ended ends sooner.                                             *)
LEMMA ChangesEnd ==
  ASSUME TypeOK, NEW w \in Url, Changes(w), NEW u \in Url, NEW v \in 1..Len(changed[u])
  PROVE  /\ v \in 1..Len(changed'[u])
         /\ Ended(u, v)' = Ended(u, v) \/ Ended(u, v)' = now
<1>1. /\ changed \in [Url -> Seq(Time)] /\ now \in Time
      /\ changed' = [changed EXCEPT ![w] = Append(changed[w], now)]
  BY DEF TypeOK, Changes
<1>2. u # w => changed'[u] = changed[u]
  BY <1>1
<1>3. CASE u # w
  BY <1>2, <1>3 DEF Ended
<1>4. CASE u = w
  <2>1. changed'[u] = Append(changed[u], now) /\ changed[u] \in Seq(Time)
    BY <1>1, <1>4
  <2>2. /\ Len(changed[u]) \in Nat /\ Len(changed'[u]) = Len(changed[u]) + 1
        /\ changed'[u][Len(changed[u]) + 1] = now
        /\ \A i \in 1..Len(changed[u]) : changed'[u][i] = changed[u][i]
    <3> DEFINE s == changed[u]
    <3>1. s \in Seq(Time) /\ now \in Time /\ changed'[u] = Append(s, now)
      BY <1>1, <2>1
    <3> HIDE DEF s
    <3>2. /\ Len(s) \in Nat /\ Len(Append(s, now)) = Len(s) + 1
          /\ Append(s, now)[Len(s) + 1] = now
          /\ \A i \in 1..Len(s) : Append(s, now)[i] = s[i]
      BY <3>1, AppendProperties
    <3> QED
      BY <3>1, <3>2 DEF s
  <2>3. CASE v = Len(changed[u])
    BY <2>2, <2>3 DEF Ended
  <2>4. CASE v < Len(changed[u])
    <3>1. v + 1 \in 1..Len(changed[u]) /\ v < Len(changed'[u])
      BY <2>2, <2>4
    <3> QED
      BY <2>2, <2>4, <3>1 DEF Ended
  <2> QED
    BY <2>2, <2>3, <2>4
<1> QED
  BY <1>3, <1>4

LEMMA FreshChanges ==
  ASSUME Inv, FreshOK, NEW w \in Url, Changes(w)
  PROVE  FreshOK'
<1>1. /\ TypeOK /\ now \in Nat /\ LongestPoll \in Nat
      /\ UNCHANGED <<now, respCache, pc, call, got>>
  BY LongestPollType DEF Inv, TypeOK, Time, Changes, caches
<1>2. ASSUME NEW u \in Url, NEW t \in Token, NEW e, e = respCache[<<u, t>>], e # NoValue
      PROVE  FreshEntry(u, e)'
  <2>1. /\ Current(e.body) /\ e.body.url = u /\ e.notBefore <= now + LongestPoll
        /\ e.notBefore <= Ended(u, e.body.version) + LongestPoll
    BY <1>2 DEF FreshOK, FreshEntry
  <2>2. /\ e.body.version \in 1..Len(changed'[u])
        /\ Ended(u, e.body.version)' = Ended(u, e.body.version)
           \/ Ended(u, e.body.version)' = now
    BY <1>1, <2>1, ChangesEnd DEF Current
  <2> QED
    BY <1>1, <2>1, <2>2 DEF Current, FreshEntry
<1>3. ASSUME NEW g, g = got, g # NoValue
      PROVE  Current(g.body)' /\ Ended(g.body.url, g.body.version)' + LongestPoll >= g.start
  <2>1. /\ Current(g.body) /\ g.start <= now
        /\ Ended(g.body.url, g.body.version) + LongestPoll >= g.start
        /\ g.body.url \in Url /\ g.start \in Nat
    BY <1>1, <1>3 DEF FreshOK, NotStale, Current, Body, TypeOK, Reply, Time
  <2>2. /\ g.body.version \in 1..Len(changed'[g.body.url])
        /\ \/ Ended(g.body.url, g.body.version)' = Ended(g.body.url, g.body.version)
           \/ Ended(g.body.url, g.body.version)' = now
    BY <1>1, <2>1, ChangesEnd DEF Current
  <2> QED
    BY <1>1, <2>1, <2>2 DEF Current
<1> QED
  BY <1>1, <1>2, <1>3, FreshPrimed DEF FreshOK

(* An answer: the version it gives was current during the call.            *)
LEMMA SeenFresh ==
  ASSUME Inv, FreshOK, pc = "sent", call.url # NoValue, NEW v \in Seen(call.url),
         NEW poll \in Polls
  PROVE  /\ call.url \in Url /\ v \in 1..Len(changed[call.url])
         /\ call.start \in Nat /\ call.start <= now /\ now \in Nat
         /\ Ended(call.url, v) \in Nat /\ Ended(call.url, v) >= call.start
         /\ NotBefore(poll) \in Nat
         /\ NotBefore(poll) <= now + LongestPoll
         /\ NotBefore(poll) <= Ended(call.url, v) + LongestPoll
<1>1. /\ call.url \in Url /\ call.start \in Nat /\ call.start <= now /\ now \in Nat
  BY DEF Inv, CallerOK, FreshOK, TypeOK, Call, Time
<1>2. v \in 1..Len(changed[call.url]) /\ Ended(call.url, v) >= call.start
  BY DEF Seen
<1>3. Ended(call.url, v) \in Nat
  BY <1>1, <1>2, EndedType DEF Inv
<1> QED
  BY <1>1, <1>2, <1>3, LongestPollType DEF NotBefore

(* Nothing is cached, given or changed.                                    *)
LEMMA FreshFrame ==
  ASSUME Inv, FreshOK, UNCHANGED <<changed, respCache>>, now' \in Nat, now' >= now,
         pc' = "sent" => call'.start <= now',
         got' = got \/ got' = NoValue
  PROVE  FreshOK'
<1>1. now \in Nat /\ LongestPoll \in Nat
  BY LongestPollType DEF Inv, TypeOK, Time
<1>2. ASSUME NEW u \in Url, NEW t \in Token, NEW e, e = respCache[<<u, t>>], e # NoValue
      PROVE  FreshEntry(u, e)'
  <2>1. e \in [body : Body, notBefore : Nat] /\ FreshEntry(u, e)
    BY <1>2 DEF Inv, TypeOK, FreshOK
  <2> QED
    BY <1>1, <2>1 DEF FreshEntry, Current, Ended
<1>3. ASSUME NEW g, g = got, g # NoValue
      PROVE  /\ Current(g.body)' /\ g.start <= now'
             /\ Ended(g.body.url, g.body.version)' + LongestPoll >= g.start
  <2>1. g \in Reply /\ Current(g.body) /\ g.start <= now /\ g.start \in Nat
    BY <1>3 DEF FreshOK, Inv, TypeOK, Reply, Time
  <2>2. Ended(g.body.url, g.body.version) + LongestPoll >= g.start
    BY <1>3 DEF FreshOK, NotStale
  <2> QED
    BY <1>1, <2>1, <2>2 DEF Current, Ended
<1> QED
  BY <1>2, <1>3, FreshPrimed

(* An entry that holds what a GET was just given, or what it confirmed.    *)
LEMMA FreshStored ==
  ASSUME Inv, FreshOK, UNCHANGED <<now, changed>>, pc' = "ready", pc = "sent",
         NEW u \in Url, u = call.url, call.url # NoValue,
         NEW v \in Seen(call.url), NEW poll \in Polls,
         NEW b \in Body, b.url = call.url, b.version = v,
         \A j \in Url \X Token :
           \/ respCache'[j] \in {NoValue, respCache[j]}
           \/ j[1] = u /\ respCache'[j] = [body |-> b, notBefore |-> NotBefore(poll)],
         got' = [body |-> b, start |-> call.start, for |-> key]
  PROVE  FreshOK'
<1> DEFINE new == [body |-> b, notBefore |-> NotBefore(poll)]
<1>1. /\ v \in 1..Len(changed[u])
      /\ call.start \in Nat /\ call.start <= now /\ now \in Nat
      /\ Ended(u, v) \in Nat /\ Ended(u, v) >= call.start
      /\ NotBefore(poll) <= now + LongestPoll
      /\ NotBefore(poll) <= Ended(u, v) + LongestPoll
      /\ LongestPoll \in Nat
  BY SeenFresh, LongestPollType
<1>2. Current(b)' /\ Ended(u, v)' = Ended(u, v)
  BY <1>1 DEF Current, Ended
<1>3. ASSUME NEW w \in Url, NEW t \in Token, NEW e, e = respCache'[<<w, t>>], e # NoValue
      PROVE  FreshEntry(w, e)'
  <2>1. CASE e = respCache[<<w, t>>]
    <3>1. FreshEntry(w, e)
      BY <1>3, <2>1 DEF FreshOK
    <3> QED
      BY <3>1 DEF FreshEntry, Current, Ended
  <2>2. CASE w = u /\ e = new
    <3>1. e.body = b /\ e.notBefore = NotBefore(poll)
      BY <2>2
    <3> QED
      BY <1>1, <1>2, <2>2, <3>1 DEF FreshEntry
  <2> QED
    BY <1>3, <2>1, <2>2
<1>4. ASSUME NEW g, g = got', g # NoValue
      PROVE  /\ Current(g.body)' /\ g.start <= now'
             /\ Ended(g.body.url, g.body.version)' + LongestPoll >= g.start
  <2>1. g.body = b /\ g.start = call.start
    BY <1>4
  <2> QED
    BY <1>1, <1>2, <2>1
<1> QED
  BY <1>3, <1>4, FreshPrimed

LEMMA FreshStep == Inv /\ FreshOK /\ [Next]_vars => FreshOK'
<1> SUFFICES ASSUME Inv, FreshOK, [Next]_vars PROVE FreshOK'
  OBVIOUS
<1>0. TypeOK /\ now \in Nat
  BY DEF Inv, TypeOK, Time
<1>1. CASE UNCHANGED vars
  BY <1>0, <1>1, FreshFrame DEF FreshOK, vars, github, caches
<1>2. CASE Tick
  <2>1. /\ now' = now + 1 /\ now \in Nat
        /\ UNCHANGED <<changed, respCache, pc, call, got>>
    BY <1>0, <1>2 DEF Tick, github, caches
  <2>2. pc = "sent" => call.start \in Nat /\ call.start <= now
    BY DEF Inv, CallerOK, Call, Time, FreshOK
  <2> QED
    BY <2>1, <2>2, FreshFrame
<1>3. ASSUME NEW u \in Url, Changes(u) PROVE FreshOK'
  BY <1>3, FreshChanges
<1>4. CASE Issued \/ NotIssued \/ Done \/ \E k \in Key : Cached(k) \/ Requests(k)
  BY <1>0, <1>4, FreshFrame DEF Issued, NotIssued, Done, Cached, Requests, Returns, github, caches
<1>5. CASE \/ FailsFast \/ Ends
           \/ (\E d \in Delays : RetryAfter(d)) \/ \E r \in Resets : RateLimitReset(r)
           \/ (\E u \in Url \union {NoValue} : Send(u))
  <2>1. /\ UNCHANGED <<changed, respCache, now>> /\ (got' = got \/ got' = NoValue)
        /\ pc' = "sent" => call'.start <= now'
    BY <1>0, <1>1, <1>5 DEF FailsFast, Ends, RetryAfter, RateLimitReset, Refused, Send,
       Returns, vars, github, caches, FreshOK
  <2> QED
    BY <1>0, <2>1, FreshFrame
<1>6. ASSUME NEW u \in Url, FromCache(u) PROVE FreshOK'
  <2>1. PICK e : e = respCache[<<u, tok>>]
    OBVIOUS
  <2>2. /\ e # NoValue /\ now < e.notBefore /\ pc = "ready"
        /\ got' = [body |-> e.body, start |-> now, for |-> key]
        /\ UNCHANGED <<now, changed, respCache, pc, call>>
    BY <1>6, <2>1 DEF FromCache, Quiet, Kept, Entry, respCacheKey, Gives, github
  <2>3. tok \in Token
    BY <2>2, CallerType
  <2>4. e \in [body : Body, notBefore : Nat] /\ FreshEntry(u, e)
    BY <1>0, <2>1, <2>2, <2>3 DEF FreshOK, TypeOK
  <2>5. Ended(u, e.body.version) \in Nat /\ LongestPoll \in Nat
    BY <1>0, <2>4, EndedType, LongestPollType DEF FreshEntry, Current
  <2>6. ASSUME NEW g, g = got'
        PROVE  /\ Current(g.body)' /\ g.start <= now'
               /\ Ended(g.body.url, g.body.version)' + LongestPoll >= g.start
    <3>1. g.body = e.body /\ g.start = now
      BY <2>2, <2>6
    <3>2. Current(e.body)' /\ Ended(u, e.body.version)' = Ended(u, e.body.version)
      BY <2>2, <2>4 DEF FreshEntry, Current, Ended
    <3>3. /\ e.body.url = u /\ e.notBefore \in Nat
          /\ e.notBefore <= Ended(u, e.body.version) + LongestPoll
      BY <2>4 DEF FreshEntry
    <3> QED
      BY <1>0, <2>2, <2>5, <3>1, <3>2, <3>3
  <2>7. ASSUME NEW w \in Url, NEW t \in Token, NEW f, f = respCache'[<<w, t>>], f # NoValue
        PROVE  FreshEntry(w, f)'
    <3>1. FreshEntry(w, f)
      BY <2>2, <2>7 DEF FreshOK
    <3> QED
      BY <2>2, <3>1 DEF FreshEntry, Current, Ended
  <2> QED
    BY <2>2, <2>6, <2>7, FreshPrimed
<1>7. ASSUME NEW v \in Version, NEW poll \in Polls, Answered(v, poll) PROVE FreshOK'
  <2> DEFINE b == [key |-> issued[tok].key, url |-> call.url, version |-> v]
             new == [body |-> b, notBefore |-> NotBefore(poll)]
             with == [respCache EXCEPT ![<<call.url, tok>>] = new]
  <2>1. /\ pc = "sent" /\ pc' = "ready" /\ call.url # NoValue /\ v \in Seen(call.url)
        /\ UNCHANGED <<now, changed>>
        /\ got' = [body |-> b, start |-> call.start, for |-> key]
        /\ storeResp(call.url, b, poll) \/ UNCHANGED <<respCache, respOrder>>
    BY <1>7 DEF Answered, Gives, Returns, github
  <2>2. b \in Body /\ b.url = call.url /\ b.version = v
    BY <1>0, <2>1, CallerType DEF Inv, CallerOK, Call, Body
  <2>3. call.url \in Url
    BY <1>0, <2>1 DEF Inv, CallerOK, Call
  <2>4. storeResp(call.url, b, poll) =>
          \A j \in Url \X Token : respCache'[j] \in {NoValue, with[j]}
    BY <1>0 DEF storeResp, respCacheKey, TypeOK
  <2> HIDE DEF b
  <2>5. ASSUME NEW j \in Url \X Token
        PROVE  with[j] = respCache[j] \/ (j[1] = call.url /\ with[j] = new)
    <3>1. with[j] = IF j = <<call.url, tok>> THEN new ELSE respCache[j]
      <4> HIDE DEF new
      <4> QED
        BY <1>0 DEF TypeOK
    <3> QED
      BY <3>1
  <2> HIDE DEF with
  <2>6. \A j \in Url \X Token :
          \/ respCache'[j] \in {NoValue, respCache[j]}
          \/ j[1] = call.url /\ respCache'[j] = new
    BY <2>1, <2>4, <2>5
  <2> QED
    BY <2>1, <2>2, <2>3, <2>6, FreshStored DEF b
<1>8. ASSUME NEW poll \in Polls, NotModified(poll) PROVE FreshOK'
  <2> DEFINE k == <<call.url, tok>>
             b == respCache[k].body
             new == [body |-> b, notBefore |-> NotBefore(poll)]
  <2>1. /\ pc = "sent" /\ pc' = "ready" /\ call.url # NoValue /\ Kept(call.url)
        /\ UNCHANGED <<now, changed>> /\ b.version \in Seen(call.url)
        /\ got' = [body |-> b, start |-> call.start, for |-> key]
        /\ respCache' = [respCache EXCEPT ![k].notBefore = NotBefore(poll)]
    BY <1>8 DEF NotModified, Gives, Returns, Entry, respCacheKey, github
  <2>2. tok \in Token /\ call.url \in Url /\ k \in Url \X Token
    BY <2>1, CallerType DEF Inv, CallerOK, Call
  <2>3. respCache[k] \in [body : Body, notBefore : Nat] /\ respCache[k] # NoValue
    BY <1>0, <2>1, <2>2 DEF Kept, Entry, respCacheKey, TypeOK
  <2>4. b \in Body /\ b.url = call.url
    BY <2>2, <2>3 DEF FreshOK, FreshEntry, Current
  <2>5. ASSUME NEW j \in Url \X Token
        PROVE  \/ respCache'[j] \in {NoValue, respCache[j]}
               \/ j[1] = call.url /\ respCache'[j] = new
    <3>1. [respCache[k] EXCEPT !.notBefore = NotBefore(poll)] = new
      BY <2>3
    <3>2. respCache' = [respCache EXCEPT ![k] = new]
      BY <2>1, <3>1
    <3> HIDE DEF new
    <3>3. respCache'[j] = IF j = k THEN new ELSE respCache[j]
      BY <1>0, <3>2 DEF TypeOK
    <3> QED
      BY <3>3
  <2>6. b.version \in Seen(call.url) /\ UNCHANGED <<now, changed>> /\ call.url \in Url
    BY <2>1, <2>2
  <2> HIDE DEF b, k
  <2> QED
    BY <2>1, <2>4, <2>5, <2>6, FreshStored
<1> QED
  BY <1>1, <1>2, <1>3, <1>4, <1>5, <1>6, <1>7, <1>8 DEF Next

-----------------------------------------------------------------------------
(* Every variable keeps its type.                                          *)
THEOREM TypeCorrect == Spec => []TypeOK
<1>1. Inv => TypeOK
  BY DEF Inv
<1> QED
  BY <1>1, Invariant, PTL

(* The scheduler, which goes from one installation to the next with one    *)
(* client, is never given a body that another installation may read.       *)
THEOREM BodiesAreOwn == Spec => []OwnBodies
<1>1. Inv => OwnBodies
  BY DEF Inv
<1> QED
  BY <1>1, Invariant, PTL

(* A request goes out earlier than GitHub has told its holder by no more   *)
(* than the time the refusal took, for any delays and times named, and for *)
(* calls, reads or writes, that take any time.                             *)
THEOREM LimitsHonouredButForCall == Spec => EarlyByCallAtMost
<1>1. Inv /\ [Next]_vars => [Sends => now + told[tok].taken >= told[tok].until]_vars
  <2> SUFFICES ASSUME Inv, Next, Sends PROVE now + told[tok].taken >= told[tok].until
    OBVIOUS
  <2>1. \E u \in Url \union {NoValue} : Send(u)
    BY DEF Sends, Next, Tick, Changes, Cached, Requests, Issued, NotIssued, Done, FailsFast,
       FromCache, Answered, NotModified, RetryAfter, RateLimitReset, Ends, Returns, vars
  <2> QED
    BY <2>1, SendInv
<1> QED
  BY <1>1, Invariant, PTL DEF Spec, EarlyByCallAtMost

(* A token the scheduler starts to use is its installation's, and GitHub   *)
(* honours it at that moment unless its answer had taken the margin, for   *)
(* any lifetimes and limit of the cache.                                   *)
THEOREM TokensAreValid == Spec => TokenStillValid
<1> DEFINE Valid == /\ issued'[tok'].key = key'
                    /\ Prompt(issued'[tok']) => now < issued'[tok'].at + Lifetime
<1>1. Inv /\ [Next]_vars =>
        [pc # "ready" /\ pc # "sent" /\ pc' = "ready" => Valid]_vars
  <2> SUFFICES ASSUME Inv, Next, pc # "ready", pc # "sent", pc' = "ready" PROVE Valid
    OBVIOUS
  <2>1. Issued \/ \E k \in Key : Cached(k)
    BY DEF Next, Tick, Changes, Requests, NotIssued, Done, FailsFast, FromCache, Send,
       Answered, NotModified, RetryAfter, RateLimitReset, Ends, vars
  <2>2. ValidNow' /\ now' = now
    BY <2>1, IssuedInv, CachedInv DEF Issued, Cached
  <2> QED
    BY <2>2 DEF ValidNow, Prompt
<1> QED
  BY <1>1, Invariant, PTL DEF Spec, TokenStillValid

(* The response cache keeps to its limit, and everything in it will be     *)
(* evicted in its turn, once.                                              *)
THEOREM EvictionIsOrderly == Spec => []EvictionOrder
<1>1. Init => OrderOK
  <2> SUFFICES ASSUME Init PROVE OrderOK
    OBVIOUS
  <2>1. respOrder = <<>> /\ Range(respOrder) = {} /\ Len(respOrder) = 0
    BY DEF Init, Range
  <2> QED
    BY <2>1, GHClientAssumption DEF Init, OrderOK, NoRepeats
<1>2. Inv /\ OrderOK => EvictionOrder
  <2> SUFFICES ASSUME Inv, OrderOK PROVE EvictionOrder
    OBVIOUS
  <2> DEFINE n == Len(respOrder)
             R == Range(respOrder)
  <2>1. /\ respOrder \in Seq(Url \X Token) /\ n \in Nat /\ DOMAIN respOrder = 1..n
        /\ DOMAIN respCache = Url \X Token
    BY DEF Inv, TypeOK
  <2>2. R \subseteq Url \X Token /\ R = {respOrder[i] : i \in 1..n}
    BY <2>1, RangeOfSeq, RangeEquality
  <2>3. respOrder \in Bijection(1..n, R)
    <3>1. respOrder \in [1..n -> R]
      BY <2>1, <2>2
    <3> QED
      BY <2>1, <2>2, <3>1 DEF OrderOK, NoRepeats, Bijection, Injection, Surjection, IsInjective
  <2>4. Cardinality(R) = n
    <3> HIDE DEF n, R
    <3>0. n \in Int /\ 1 \in Int
      BY <2>1
    <3>a. /\ IsFiniteSet(1..n)
          /\ Cardinality(1..n) = IF 1 > n THEN 0 ELSE n - 1 + 1
      BY <3>0, FS_Interval, Zenon
    <3>1. IsFiniteSet(1..n) /\ Cardinality(1..n) = n
      BY <3>a, <2>1
    <3> QED
      BY <2>3, <3>1, FS_Bijection DEF ExistsBijection
  <2> QED
    BY <2>1, <2>2, <2>4 DEF OrderOK, EvictionOrder
<1> QED
  BY <1>1, <1>2, Invariant, OrderStep, PTL DEF Spec

(* A body is never older than the longest poll interval GitHub sends: it   *)
(* was current no longer before the call, whatever has changed since.      *)
THEOREM BodiesAreFresh == Spec => []NotStale
<1>1. Init => FreshOK
  BY DEF Init, FreshOK
<1>2. FreshOK => NotStale
  BY DEF FreshOK, NotStale
<1> QED
  BY <1>1, <1>2, Invariant, FreshStep, PTL DEF Spec

=============================================================================
