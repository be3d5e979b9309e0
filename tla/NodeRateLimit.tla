--------------------------- MODULE NodeRateLimit ----------------------------
(***************************************************************************)
(* Rate limiting in the LTP Rust node (nodes/ltp-rust-node/src/main.rs):   *)
(* TokenBucket, one bucket per connection, one per client IP shared by its *)
(* connections, and the janitor's removal of idle IP buckets.              *)
(*                                                                         *)
(* Time is counted in ticks and tokens in units of one tick at one token   *)
(* per second, so a token is Sec units and refilling is exact; the code    *)
(* does the same sum in f64.                                               *)
(***************************************************************************)
EXTENDS Integers

CONSTANTS
    Links,            \* connections (an index is reused after a close)
    Ips,              \* client addresses
    IpOf,             \* the address each connection comes from
    Sec,              \* ticks per second
    rate_limit_rps, rate_limit_burst,
    ip_rate_limit_rps, ip_rate_limit_burst,
    ip_ttl,           \* ip_rate_limit_ttl_secs, in ticks
    MaxInstant           \* bound on the clock

ASSUME RateAssumption ==
    /\ IpOf \in [Links -> Ips]
    /\ Sec \in Nat \ {0}
    /\ rate_limit_rps \in Nat /\ rate_limit_burst \in Nat
    /\ ip_rate_limit_rps \in Nat /\ ip_rate_limit_burst \in Nat
    /\ ip_ttl \in Nat
    /\ MaxInstant \in Nat

\* burst.max(rps), in units.
Capacity(rps, burst) == Sec * (IF burst > rps THEN burst ELSE rps)
ConnCap == Capacity(rate_limit_rps, rate_limit_burst)
IpCap == Capacity(ip_rate_limit_rps, ip_rate_limit_burst)

VARIABLES
    instant,          \* the clock
    link,         \* each connection: "open" or "closed"
    bucket,       \* each connection's TokenBucket
    ip_limiters,  \* the buckets in the shared map, by address
    sweep,        \* cleanup_ip_limiters: the time it started, addresses left
    taken,        \* history: tokens each connection took since it opened
    takenBefore,  \* history: ... before each instant
    ipTaken,      \* history: tokens each address took
    ipTakenBefore \* history: ... before each instant

connHist == <<taken, takenBefore>>
ipHist == <<ipTaken, ipTakenBefore>>
rateVars == <<instant, link, bucket, ip_limiters, sweep, connHist, ipHist>>

Time == 0 .. MaxInstant
Buckets(cap) == [tokens : 0 .. cap, last_refill : Time]
Limiters == [tokens : 0 .. IpCap, last_refill : Time, last_seen : Time]
NoSweep == [at |-> 0, left |-> {}]

\* The state is well formed; buckets hold between zero tokens and capacity.
RateTypeOK ==
    /\ instant \in Time
    /\ link \in [Links -> {"open", "closed"}]
    /\ bucket \in [Links -> Buckets(ConnCap)]
    /\ DOMAIN ip_limiters \subseteq Ips
    /\ ip_limiters \in [DOMAIN ip_limiters -> Limiters]
    /\ sweep \in [at : Time, left : SUBSET Ips]
    /\ taken \in [Links -> Nat]
    /\ takenBefore \in [Links -> [Time -> Nat]]
    /\ ipTaken \in [Ips -> Nat]
    /\ ipTakenBefore \in [Ips -> [Time -> Nat]]

RateInit ==
    /\ instant = 0
    /\ link = [c \in Links |-> "closed"]
    /\ bucket = [c \in Links |-> [tokens |-> ConnCap, last_refill |-> 0]]
    /\ ip_limiters = [i \in {} |-> {}]
    /\ sweep = NoSweep
    /\ taken = [c \in Links |-> 0]
    /\ takenBefore = [c \in Links |-> [t \in Time |-> 0]]
    /\ ipTaken = [i \in Ips |-> 0]
    /\ ipTakenBefore = [i \in Ips |-> [t \in Time |-> 0]]

-----------------------------------------------------------------------------
(* TokenBucket::allow *)

\* Mutant: the refill is not limited to the capacity.
RefilledUncapped(b, rps, cap) == b.tokens + rps * (instant - b.last_refill)

\* Mutant: less than a second of refill is dropped, yet last_refill moves.
RefilledWholeSeconds(b, rps, cap) ==
    LET tokens == b.tokens + Sec * rps * ((instant - b.last_refill) \div Sec)
    IN  IF tokens > cap THEN cap ELSE tokens

\* The tokens in bucket b after allow() has refilled it.
Refilled(b, rps, cap) ==
    LET tokens == b.tokens + rps * (instant - b.last_refill)
    IN  IF tokens > cap THEN cap ELSE tokens

-----------------------------------------------------------------------------
(* A connection *)

\* handle_connection: a new connection starts with a full bucket.
Open(c) ==
    /\ link[c] = "closed"
    /\ link' = [link EXCEPT ![c] = "open"]
    /\ bucket' = [bucket EXCEPT ![c] = [tokens |-> ConnCap, last_refill |-> instant]]
    /\ taken' = [taken EXCEPT ![c] = 0]
    /\ takenBefore' = [takenBefore EXCEPT ![c] = [t \in Time |-> 0]]
    /\ UNCHANGED <<instant, ip_limiters, sweep, ipHist>>

\* It ends for a reason other than its rate.
Close(c) ==
    /\ link[c] = "open"
    /\ link' = [link EXCEPT ![c] = "closed"]
    /\ UNCHANGED <<instant, bucket, ip_limiters, sweep, connHist, ipHist>>

\* check_ip_rate_limit: the address's bucket, new and full if it had none.
Limiter(i) ==
    IF i \in DOMAIN ip_limiters
    THEN ip_limiters[i]
    ELSE [tokens |-> IpCap, last_refill |-> instant, last_seen |-> instant]

IpTokens(i) == Refilled(Limiter(i), ip_rate_limit_rps, IpCap)
ConnTokens(c) == Refilled(bucket[c], rate_limit_rps, ConnCap)

\* The bucket of address i is left with the given tokens.
PutLimiter(i, tokens) ==
    ip_limiters' = [j \in DOMAIN ip_limiters \cup {i} |->
                       IF j = i
                       THEN [tokens |-> tokens, last_refill |-> instant, last_seen |-> instant]
                       ELSE ip_limiters[j]]

TakeIp(i) ==
    /\ IpTokens(i) >= Sec
    /\ PutLimiter(i, IpTokens(i) - Sec)
    /\ ipTaken' = [ipTaken EXCEPT ![i] = @ + 1]
    /\ UNCHANGED ipTakenBefore

\* A text message that the address's bucket refuses.
IpRefuses(c) ==
    /\ link[c] = "open"
    /\ IpTokens(IpOf[c]) < Sec
    /\ PutLimiter(IpOf[c], IpTokens(IpOf[c]))
    /\ link' = [link EXCEPT ![c] = "closed"]
    /\ UNCHANGED <<instant, bucket, sweep, connHist, ipHist>>

\* One that the connection's own bucket refuses; it has cost the address a
\* token.
ConnRefuses(c) ==
    /\ link[c] = "open"
    /\ TakeIp(IpOf[c])
    /\ ConnTokens(c) < Sec
    /\ bucket' = [bucket EXCEPT ![c] = [tokens |-> ConnTokens(c), last_refill |-> instant]]
    /\ link' = [link EXCEPT ![c] = "closed"]
    /\ UNCHANGED <<instant, sweep, connHist>>

\* One that both let through.
Admit(c) ==
    /\ link[c] = "open"
    /\ TakeIp(IpOf[c])
    /\ ConnTokens(c) >= Sec
    /\ bucket' = [bucket EXCEPT ![c] = [tokens |-> ConnTokens(c) - Sec, last_refill |-> instant]]
    /\ taken' = [taken EXCEPT ![c] = @ + 1]
    /\ UNCHANGED <<instant, link, sweep, takenBefore>>

-----------------------------------------------------------------------------
(* The janitor: cleanup_ip_limiters *)

\* The sweep reads the clock once, then visits the map shard by shard, each
\* with the entries it has by then.
StartSweep ==
    /\ sweep.left = {}
    /\ sweep' = [at |-> instant, left |-> Ips]
    /\ UNCHANGED <<instant, link, bucket, ip_limiters, connHist, ipHist>>

\* duration_since saturates at zero.
IdleFor(i) ==
    LET seen == ip_limiters[i].last_seen
    IN  IF sweep.at > seen THEN sweep.at - seen ELSE 0

Forget(i) == ip_limiters' = [j \in DOMAIN ip_limiters \ {i} |-> ip_limiters[j]]

\* Mutant: entries younger than the TTL are the ones removed.
SweepEntryInverted(i) ==
    /\ i \in sweep.left
    /\ sweep' = [sweep EXCEPT !.left = @ \ {i}]
    /\ IF i \in DOMAIN ip_limiters /\ IdleFor(i) < ip_ttl
       THEN Forget(i)
       ELSE UNCHANGED ip_limiters
    /\ UNCHANGED <<instant, link, bucket, connHist, ipHist>>

SweepEntry(i) ==
    /\ i \in sweep.left
    /\ sweep' = [sweep EXCEPT !.left = @ \ {i}]
    /\ IF i \in DOMAIN ip_limiters /\ IdleFor(i) >= ip_ttl
       THEN Forget(i)
       ELSE UNCHANGED ip_limiters
    /\ UNCHANGED <<instant, link, bucket, connHist, ipHist>>

-----------------------------------------------------------------------------
RateTick ==
    /\ instant < MaxInstant
    /\ instant' = instant + 1
    /\ takenBefore' = [c \in Links |-> [takenBefore[c] EXCEPT ![instant + 1] = taken[c]]]
    /\ ipTakenBefore' = [i \in Ips |-> [ipTakenBefore[i] EXCEPT ![instant + 1] = ipTaken[i]]]
    /\ UNCHANGED <<link, bucket, ip_limiters, sweep, taken, ipTaken>>

RateNext ==
    \/ \E c \in Links : Open(c) \/ Close(c) \/ IpRefuses(c) \/ ConnRefuses(c) \/ Admit(c)
    \/ StartSweep
    \/ \E i \in Ips : SweepEntry(i)
    \/ RateTick

RateSpec == RateInit /\ [][RateNext]_rateVars

-----------------------------------------------------------------------------
(* Properties *)

IpTakenSince(i, s) == ipTaken[i] - ipTakenBefore[i][s]
TakenSince(c, s) == taken[c] - takenBefore[c][s]

\* The TTL is long enough for an idle bucket to fill up again, as with the
\* defaults (600 s at 5 tokens per second, capacity 10).
TtlCoversRefill == ip_rate_limit_rps * ip_ttl >= IpCap

\* Over every interval up to now an address gets at most its burst plus its
\* rate times the interval, however often its connections are closed and
\* reopened and whenever the janitor forgets its bucket.
IpRateBounded ==
    TtlCoversRefill =>
        \A i \in Ips : \A s \in 0 .. instant :
            Sec * IpTakenSince(i, s) <= IpCap + ip_rate_limit_rps * (instant - s)

\* The same for one connection from its opening on.
ConnRateBounded ==
    \A c \in Links : \A s \in 0 .. instant :
        Sec * TakenSince(c, s) <= ConnCap + rate_limit_rps * (instant - s)

\* One more message of address i exceeds its allowance over some interval.
IpExceeds(i) ==
    \E s \in 0 .. instant :
        Sec * (IpTakenSince(i, s) + 1) > IpCap + ip_rate_limit_rps * (instant - s)

ConnExceeds(c) ==
    \E s \in 0 .. instant :
        Sec * (TakenSince(c, s) + 1) > ConnCap + rate_limit_rps * (instant - s)

\* A client is closed for its rate only if the message does exceed the
\* allowance over some interval: sharing a bucket, lazy refills and the
\* janitor never cost a client within its limits its connection.
ClosesOnlyExcess ==
    [][\A c \in Links :
          /\ IpRefuses(c) => IpExceeds(IpOf[c])
          /\ ConnRefuses(c) => ConnExceeds(c)]_rateVars
=============================================================================
