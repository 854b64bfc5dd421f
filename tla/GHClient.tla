------------------------------ MODULE GHClient ------------------------------
(***************************************************************************)
(* The client of GitHub's API, internal/github.go: the cache of            *)
(* installation tokens, the cache of responses with their validators, and  *)
(* the cooldown of tokens GitHub has asked to wait.                        *)
(*                                                                         *)
(* The caller is the scheduler, which makes one call at a time: it         *)
(* authenticates for an installation and uses the token for any number of  *)
(* calls.  Time passes, and GitHub's resources change, during a call as    *)
(* well as between calls.                                                  *)
(*                                                                         *)
(* A body is known by the installation it was made for, the resource and   *)
(* its version; the ETag is the version.                                   *)
(***************************************************************************)
EXTENDS Naturals, Sequences, FiniteSets, Functions

CONSTANTS
  Key,         \* installations
  Url,         \* resources, as paths of GET requests
  NoValue,
  TokenTTL,    \* how long a token is kept
  Lifetime,    \* how long GitHub honours it
  TokenMax,    \* limit of the token cache
  CacheMax,    \* limit of the response cache
  Polls,       \* values of X-Poll-Interval
  Delays,      \* values of Retry-After, and the default for a 429
  Resets,      \* values of X-RateLimit-Reset
  MaxTime, MaxIssued, MaxVersion   \* bounds

ASSUME GHClientAssumption ==
  /\ {TokenTTL, Lifetime, TokenMax, CacheMax, MaxTime, MaxIssued, MaxVersion} \subseteq Nat
  /\ CacheMax > 0     \* 0 is no limit in the code
  /\ MaxVersion > 0
  /\ NoValue \notin Nat \union Key \union Url
  /\ Polls \subseteq Nat
  /\ Delays \subseteq Nat /\ Resets \subseteq Nat

ASSUME PollsAssumption == \E p \in Polls : \A q \in Polls : q <= p

VARIABLES
  now,
  issued,      \* GitHub: the tokens it has issued, [key, at], and when its answer
               \* came, [answered]; a token is its index
  changed,     \* GitHub: for each resource, when each version appeared
  told,        \* GitHub: until when it told the holder of a token to wait; taken:
               \* from the request to that answer, if it named a delay
  tokens, order,           \* token cache: [value, expiresAt], and the order of eviction
  respCache, respOrder,    \* response cache: [body, notBefore]
  cooldowns,
  pc, key, tok, call,      \* the caller
  got                      \* the body its last call gave

github == <<issued, changed>>
caches == <<tokens, order, respCache, respOrder, cooldowns>>
vars   == <<now, github, told, caches, pc, key, tok, call, got>>

Time    == 0..MaxTime
Wait    == [until : Nat, taken : Nat]
Issue   == [key : Key, at : Time, answered : Time]
Token   == 1..MaxIssued
Version == 1..MaxVersion
Body    == [key : Key, url : Url, version : Version]
Reply   == [body : Body, start : Time, for : Key]

(* A write is a request that is not a GET; it names no resource here.      *)
Call == [url : Url \union {NoValue}, start : Time]

ASSUME NoValueAssumption == NoValue \notin [body : Body, notBefore : Nat]

TypeOK ==
  /\ now \in Time
  /\ issued \in Seq(Issue) /\ Len(issued) <= MaxIssued
  /\ changed \in [Url -> Seq(Time)] /\ \A u \in Url : Len(changed[u]) \in Version
  /\ told \in [Token -> Wait]
  /\ tokens \in [Key -> [value : Token, expiresAt : Nat] \union {NoValue}]
  /\ order \in Seq(Key) /\ Len(order) <= TokenMax
  /\ respCache \in [Url \X Token -> [body : Body, notBefore : Nat] \union {NoValue}]
  /\ respOrder \in Seq(Url \X Token)
  /\ cooldowns \in [Token -> Nat \union {NoValue}]
  /\ pc \in {"idle", "auth", "ready", "sent"}
  /\ key \in Key \union {NoValue} /\ tok \in Token \union {NoValue}
  /\ call \in Call \union {NoValue}
  /\ got \in Reply \union {NoValue}

Init ==
  /\ now = 0 /\ issued = <<>> /\ changed = [u \in Url |-> <<0>>]
  /\ told = [t \in Token |-> [until |-> 0, taken |-> 0]]
  /\ tokens = [k \in Key |-> NoValue] /\ order = <<>>
  /\ respCache = [k \in Url \X Token |-> NoValue] /\ respOrder = <<>>
  /\ cooldowns = [t \in Token |-> NoValue]
  /\ pc = "idle" /\ key = NoValue /\ tok = NoValue /\ call = NoValue /\ got = NoValue

Tick ==
  /\ now < MaxTime
  /\ now' = now + 1
  /\ UNCHANGED <<github, told, caches, pc, key, tok, call, got>>

Changes(u) ==
  /\ Len(changed[u]) < MaxVersion
  /\ changed' = [changed EXCEPT ![u] = Append(@, now)]
  /\ UNCHANGED <<now, issued, told, caches, pc, key, tok, call, got>>

-----------------------------------------------------------------------------
(* AuthenticateApp.  The request for a new token is signed by a key that   *)
(* is made anew each second; a cooldown armed for it is never met again.   *)

Fresh(k) == tokens[k] # NoValue /\ now < tokens[k].expiresAt

Cached(k) ==
  /\ pc = "idle" /\ Fresh(k)
  /\ pc' = "ready" /\ key' = k /\ tok' = tokens[k].value
  /\ UNCHANGED <<now, github, told, caches, call, got>>

Requests(k) ==
  /\ pc = "idle" /\ ~Fresh(k)
  /\ pc' = "auth" /\ key' = k /\ call' = [url |-> NoValue, start |-> now]
  /\ UNCHANGED <<now, github, told, caches, tok, got>>

Returns == pc' = "ready" /\ call' = NoValue

(* Mutant: a token is kept for as long as GitHub honours it.               *)
ExpiryFull(t) == t + Lifetime
Expiry(t) == t + TokenTTL

(* What is left of the order when it is cut to the limit, and what is      *)
(* evicted by that.  Mutant: one more is kept.                             *)
CutLate(s, max) == IF Len(s) > max + 1 THEN Tail(s) ELSE s
Cut(s, max) == IF Len(s) > max THEN Tail(s) ELSE s
Evicted(s, max) == IF Len(s) > max THEN {Head(s)} ELSE {}

(* The token was issued at some time since it was asked for; the answer    *)
(* may take any time.                                                      *)
Issued ==
  /\ pc = "auth" /\ Len(issued) < MaxIssued
  /\ \E at \in call.start..now :
       issued' = Append(issued, [key |-> key, at |-> at, answered |-> now])
  /\ LET t == Len(issued) + 1
         longer == Append(order, key)
         with == [tokens EXCEPT ![key] = [value |-> t, expiresAt |-> Expiry(now)]]
     IN /\ tokens' = [k \in Key |-> IF k \in Evicted(longer, TokenMax) THEN NoValue
                                                                     ELSE with[k]]
        /\ order' = Cut(longer, TokenMax)
        /\ tok' = t
  /\ Returns
  /\ UNCHANGED <<now, changed, told, respCache, respOrder, cooldowns, key, got>>

NotIssued ==
  /\ pc = "auth" /\ pc' = "idle" /\ key' = NoValue /\ call' = NoValue
  /\ UNCHANGED <<now, github, told, caches, tok, got>>

Done ==
  /\ pc = "ready" /\ pc' = "idle"
  /\ key' = NoValue /\ tok' = NoValue /\ got' = NoValue
  /\ UNCHANGED <<now, github, told, caches, call>>

-----------------------------------------------------------------------------
(* doRequest.                                                              *)

(* Mutant: the cache is keyed by the resource only.                        *)
respCacheKeyShared(u, t) == <<u, 1>>
respCacheKey(u, t) == <<u, t>>

Entry(u) == respCache[respCacheKey(u, tok)]
Kept(u) == u \in Url /\ Entry(u) # NoValue
Quiet(u) == Kept(u) /\ now < Entry(u).notBefore
Cooling == cooldowns[tok] # NoValue /\ now < cooldowns[tok]
Over(c) == [c EXCEPT ![tok] = NoValue]
Gives(body, start) == got' = [body |-> body, start |-> start, for |-> key]

FailsFast ==
  /\ pc = "ready" /\ Cooling
  /\ UNCHANGED vars

FromCache(u) ==
  /\ pc = "ready" /\ ~Cooling
  /\ Quiet(u)
  /\ cooldowns' = Over(cooldowns)
  /\ Gives(Entry(u).body, now)
  /\ UNCHANGED <<now, github, told, tokens, order, respCache, respOrder, pc, key, tok, call>>

Send(u) ==
  /\ pc = "ready" /\ ~Cooling
  /\ ~Quiet(u)
  /\ cooldowns' = Over(cooldowns)
  /\ call' = [url |-> u, start |-> now] /\ pc' = "sent" /\ got' = NoValue
  /\ UNCHANGED <<now, github, told, tokens, order, respCache, respOrder, key, tok>>

(* GitHub answers a GET with a version that was current during the call.   *)
Ended(u, v) == IF v < Len(changed[u]) THEN changed[u][v + 1] ELSE MaxTime + 1
Seen(u) == {v \in 1..Len(changed[u]) : changed[u][v] <= now /\ Ended(u, v) >= call.start}

(* Mutant: the interval is counted from the answer.                        *)
NotBeforeLate(poll) == now + poll
NotBefore(poll) == call.start + poll

(* Mutant: the entry is appended to the order again, as tokens are.        *)
AppendAlways(s, k, present) == Append(s, k)
AppendNew(s, k, present) == IF present THEN s ELSE Append(s, k)

storeResp(u, body, poll) ==
  LET k == respCacheKey(u, tok)
      longer == AppendNew(respOrder, k, respCache[k] # NoValue)
      with == [respCache EXCEPT ![k] = [body |-> body, notBefore |-> NotBefore(poll)]]
  IN /\ respCache' = [j \in DOMAIN respCache |->
                        IF j \in Evicted(longer, CacheMax) THEN NoValue ELSE with[j]]
     /\ respOrder' = Cut(longer, CacheMax)

Answered(v, poll) ==
  /\ pc = "sent" /\ call.url # NoValue /\ v \in Seen(call.url)
  /\ LET u == call.url  b == [key |-> issued[tok].key, url |-> u, version |-> v]
     IN /\ \/ storeResp(u, b, poll)
           \/ UNCHANGED <<respCache, respOrder>>        \* Cache-Control: no-store
        /\ Gives(b, call.start)
  /\ Returns
  /\ UNCHANGED <<now, github, told, tokens, order, cooldowns, key, tok>>

NotModified(poll) ==
  /\ pc = "sent" /\ call.url # NoValue
  /\ LET u == call.url
     IN /\ Kept(u) /\ Entry(u).body.version \in Seen(u)
        /\ respCache' = [respCache EXCEPT ![respCacheKey(u, tok)].notBefore = NotBefore(poll)]
        /\ Gives(Entry(u).body, call.start)
  /\ Returns
  /\ UNCHANGED <<now, github, told, tokens, order, respOrder, cooldowns, key, tok>>

(* 403 or 429; a bare 403 says nothing about waiting and is one of Ends.   *)
(* Mutant: only a refused GET arms the cooldown.                           *)
ArmedByGet(until) ==
  IF call.url = NoValue THEN cooldowns ELSE [cooldowns EXCEPT ![tok] = until]
Armed(until) == [cooldowns EXCEPT ![tok] = until]

Refused(wait, until) ==
  /\ told' = [told EXCEPT ![tok] = wait]
  /\ cooldowns' = Armed(until)
  /\ Returns
  /\ UNCHANGED <<now, github, tokens, order, respCache, respOrder, key, tok, got>>

(* Retry-After, or the default of a 429: a delay, which GitHub counts from *)
(* its answer and parseCooldown from the `now` at the top of doRequest.    *)
RetryAfter(d) ==
  /\ pc = "sent"
  /\ \E at \in call.start..now :
       Refused([until |-> at + d, taken |-> at - call.start], call.start + d)

(* X-RateLimit-Reset: a time.                                              *)
RateLimitReset(until) ==
  pc = "sent" /\ Refused([until |-> until, taken |-> 0], until)

(* A write that succeeds, and every other error.                           *)
Ends ==
  /\ pc = "sent" /\ Returns
  /\ UNCHANGED <<now, github, told, caches, key, tok, got>>

Next ==
  \/ Tick \/ \E u \in Url : Changes(u)
  \/ \E k \in Key : Cached(k) \/ Requests(k)
  \/ Issued \/ NotIssued \/ Done
  \/ FailsFast \/ \E u \in Url : FromCache(u)
  \/ \E u \in Url \union {NoValue} : Send(u)
  \/ \E v \in Version, poll \in Polls : Answered(v, poll)
  \/ \E poll \in Polls : NotModified(poll)
  \/ \E d \in Delays : RetryAfter(d)
  \/ \E until \in Resets : RateLimitReset(until)
  \/ Ends

Spec == Init /\ [][Next]_vars

-----------------------------------------------------------------------------
(* Properties.                                                             *)

(* The caller is never given what was answered to another installation.    *)
OwnBodies == got # NoValue => got.body.key = got.for

(* A body is as old as the poll interval GitHub sent with it, at most: it  *)
(* was current no longer before the call.                                  *)
LongestPoll == CHOOSE p \in Polls : \A q \in Polls : q <= p
NotStale ==
  got # NoValue => Ended(got.body.url, got.body.version) + LongestPoll >= got.start

(* A request goes out with a token whose holder GitHub has told to wait    *)
(* for a while too early by no more than the time GitHub took to refuse,   *)
(* which the code loses, and never before a time that GitHub has named,    *)
(* though cooldowns are dropped and armed again by reads and writes.       *)
Sends == pc = "ready" /\ pc' = "sent"
EarlyByCallAtMost == [][Sends => now + told[tok].taken >= told[tok].until]_vars

(* A token the caller starts to use is its installation's, and honoured by *)
(* GitHub at that moment, unless GitHub's answer took as long as the       *)
(* margin between the two lifetimes (a minute).                            *)
Prompt(t) == t.answered + TokenTTL < t.at + Lifetime
TokenStillValid ==
  [][pc # "ready" /\ pc # "sent" /\ pc' = "ready" =>
       /\ issued'[tok'].key = key'
       /\ Prompt(issued'[tok']) => now < issued'[tok'].at + Lifetime]_vars

(* What is cached can be evicted, once, and the limit holds.               *)
EvictionOrder ==
  /\ Len(respOrder) <= CacheMax
  /\ {k \in DOMAIN respCache : respCache[k] # NoValue} = Range(respOrder)
  /\ Cardinality(Range(respOrder)) = Len(respOrder)

(* A token is kept for TokenTTL when there is room for all installations.  *)
Newest(k, t) == issued[t].key = k /\ \A s \in DOMAIN issued : issued[s].key = k => s <= t
TokenKept ==
  Cardinality(Key) <= TokenMax =>
    \A k \in Key, t \in DOMAIN issued :
       Newest(k, t) /\ now < issued[t].at + TokenTTL => Fresh(k) /\ tokens[k].value = t

=============================================================================
