------------------------ MODULE NodeRateLimitProofs -------------------------
(***************************************************************************)
(* Proofs about NodeRateLimit for every rate, burst, TTL and number of     *)
(* connections and addresses: a bucket never lets more through than its    *)
(* burst plus its rate, and never less.                                    *)
(*                                                                         *)
(* The argument is a potential: what a bucket would hold if it were        *)
(* refilled now, plus what has been taken since s, is at most capacity     *)
(* plus rate times the time since s for every s, and at least that for     *)
(* some s.                                                                 *)
(*                                                                         *)
(* And about NodeAuth, the other admission control of the node, for every  *)
(* set of keys and any number of connections and edits of the key file:    *)
(* AUTH_KEYS never stands in for a file that could not be read.            *)
(*                                                                         *)
(* And about MinimalServer, the example server with a fixed window in      *)
(* place of the buckets: for every limit, window and sweep, what a client  *)
(* gets handled is bounded and the threads in use are kept.                *)
(***************************************************************************)
EXTENDS NodeRateLimit, NodeAuth, MinimalServer, TLAPS

-----------------------------------------------------------------------------
(* The inductive invariant *)

\* Nothing is dated in the future, and a bucket is seen when it is refilled.
TimeOK ==
    /\ \A c \in Links : bucket[c].last_refill <= instant
    /\ \A i \in DOMAIN ip_limiters :
           /\ ip_limiters[i].last_refill <= instant
           /\ ip_limiters[i].last_seen = ip_limiters[i].last_refill
    /\ sweep.at <= instant

Units(n) == Sec * n

\* The potentials and the allowances they are compared with.
IpPotential(i, s) == IpTokens(i) + Units(IpTakenSince(i, s))
ConnPotential(c, s) == ConnTokens(c) + Units(TakenSince(c, s))
IpAllowance(s) == IpCap + ip_rate_limit_rps * (instant - s)
ConnAllowance(s) == ConnCap + rate_limit_rps * (instant - s)

IpUpper == \A i \in Ips : \A s \in 0 .. instant : IpPotential(i, s) <= IpAllowance(s)
IpLower == \A i \in Ips : \E s \in 0 .. instant : IpPotential(i, s) >= IpAllowance(s)

ConnUpper ==
    \A c \in Links : \A s \in 0 .. instant : ConnPotential(c, s) <= ConnAllowance(s)
ConnLower ==
    \A c \in Links : \E s \in 0 .. instant : ConnPotential(c, s) >= ConnAllowance(s)

IndInv ==
    /\ RateTypeOK
    /\ TimeOK
    /\ TtlCoversRefill => IpUpper
    /\ ConnUpper
    /\ IpLower
    /\ ConnLower

-----------------------------------------------------------------------------
(* Arithmetic *)

LEMMA MulNat == \A a, b \in Nat : a * b \in Nat
OBVIOUS

LEMMA MulSucc == \A a, b \in Int : a * (b + 1) = a * b + a
OBVIOUS

LEMMA MulMono == \A a, b, c \in Nat : b <= c => a * b <= a * c
<1> SUFFICES ASSUME NEW a \in Nat, NEW b \in Nat, NEW c \in Nat, b <= c
             PROVE  a * b <= a * c
  OBVIOUS
<1>1. PICK d \in Nat : c = b + d
  <2>1. c - b \in Nat /\ c = b + (c - b)
    OBVIOUS
  <2>2. QED
    BY <2>1
<1>2. a * c = a * b + a * d /\ a * d \in Nat
  BY <1>1, MulNat
<1>3. a * b \in Nat
  BY MulNat
<1>4. QED
  BY <1>2, <1>3

LEMMA CapType ==
    /\ ConnCap \in Nat
    /\ IpCap \in Nat
BY RateAssumption, MulNat DEF ConnCap, IpCap, Capacity

\* Refilling a bucket that is at most full, at a moment not before its last
\* refill.
LEMMA RefilledType ==
    ASSUME instant \in Nat, NEW b, NEW rps \in Nat, NEW cap \in Nat,
           b.tokens \in 0 .. cap, b.last_refill \in Nat, b.last_refill <= instant
    PROVE  /\ Refilled(b, rps, cap) \in 0 .. cap
           /\ b.tokens <= Refilled(b, rps, cap)
<1>1. rps * (instant - b.last_refill) \in Nat
  BY MulNat
<1>2. QED
  BY <1>1 DEF Refilled

\* Right after a refill there is nothing to add.
LEMMA RefilledNow ==
    ASSUME instant \in Nat, NEW b, NEW rps \in Nat, NEW cap \in Nat,
           b.tokens \in 0 .. cap, b.last_refill = instant
    PROVE  Refilled(b, rps, cap) = b.tokens
<1>1. rps * (instant - b.last_refill) = 0
  OBVIOUS
<1>2. QED
  BY <1>1 DEF Refilled

\* One tick adds one tick's worth, or as much of it as fits.
LEMMA RefilledTick ==
    ASSUME instant \in Nat, instant' = instant + 1, NEW b, NEW rps \in Nat, NEW cap \in Nat,
           b.tokens \in 0 .. cap, b.last_refill \in Nat, b.last_refill <= instant
    PROVE  LET before == Refilled(b, rps, cap)
               tokens == b.tokens + rps * (instant' - b.last_refill)
               after  == IF tokens > cap THEN cap ELSE tokens
           IN  /\ after \in 0 .. cap
               /\ after <= before + rps
               /\ after = before + rps \/ after = cap
<1>1. rps * (instant - b.last_refill) \in Nat
  BY MulNat
<1>2. rps * (instant' - b.last_refill) = rps * (instant - b.last_refill) + rps
  <2>1. instant' - b.last_refill = (instant - b.last_refill) + 1
    OBVIOUS
  <2>2. QED
    BY <2>1, MulSucc
<1>3. QED
  BY <1>1, <1>2 DEF Refilled

\* Units is linear; with its definition hidden the rest is too.
LEMMA UnitsInt == \A n \in Int : Units(n) \in Int
BY RateAssumption DEF Units

LEMMA UnitsSucc == \A n \in Int : Units(n + 1) = Units(n) + Sec
BY RateAssumption DEF Units

LEMMA UnitsSub == \A m, n \in Int : Units(m - n) = Units(m) - Units(n)
BY RateAssumption DEF Units

LEMMA UnitsZero == Units(0) = 0
BY RateAssumption DEF Units

-----------------------------------------------------------------------------
(* Types *)

\* What the buckets hold, and would hold if they were refilled now.
LEMMA BucketFacts ==
    ASSUME RateTypeOK, TimeOK
    PROVE  /\ instant \in Nat
           /\ \A c \in Links :
                  /\ bucket[c].tokens \in 0 .. ConnCap
                  /\ bucket[c].last_refill \in Nat
                  /\ bucket[c].last_refill <= instant
                  /\ ConnTokens(c) \in 0 .. ConnCap
           /\ \A i \in Ips :
                  /\ Limiter(i).tokens \in 0 .. IpCap
                  /\ Limiter(i).last_refill \in Nat
                  /\ Limiter(i).last_refill <= instant
                  /\ IpTokens(i) \in 0 .. IpCap
<1> USE RateAssumption, CapType
<1>1. instant \in Nat
  BY DEF RateTypeOK, Time
<1>2. ASSUME NEW c \in Links
      PROVE  /\ bucket[c].tokens \in 0 .. ConnCap
             /\ bucket[c].last_refill \in Nat
             /\ bucket[c].last_refill <= instant
             /\ ConnTokens(c) \in 0 .. ConnCap
  <2>1. /\ bucket[c].tokens \in 0 .. ConnCap
        /\ bucket[c].last_refill \in Nat
        /\ bucket[c].last_refill <= instant
    BY DEF RateTypeOK, TimeOK, Buckets, Time
  <2>2. QED
    BY <1>1, <2>1, RefilledType DEF ConnTokens
<1>3. ASSUME NEW i \in Ips
      PROVE  /\ Limiter(i).tokens \in 0 .. IpCap
             /\ Limiter(i).last_refill \in Nat
             /\ Limiter(i).last_refill <= instant
             /\ IpTokens(i) \in 0 .. IpCap
  <2>1. /\ Limiter(i).tokens \in 0 .. IpCap
        /\ Limiter(i).last_refill \in Nat
        /\ Limiter(i).last_refill <= instant
    <3>1. CASE i \in DOMAIN ip_limiters
      BY <3>1 DEF RateTypeOK, TimeOK, Limiters, Limiter, Time
    <3>2. CASE i \notin DOMAIN ip_limiters
      BY <1>1, <3>2 DEF Limiter
    <3>3. QED
      BY <3>1, <3>2
  <2>2. QED
    BY <1>1, <2>1, RefilledType DEF IpTokens
<1>4. QED
  BY <1>1, <1>2, <1>3

\* Storing a limiter keeps the table well formed.
LEMMA PutLimiterType ==
    ASSUME RateTypeOK, TimeOK, NEW i \in Ips, NEW n \in 0 .. IpCap, PutLimiter(i, n)
    PROVE  /\ DOMAIN ip_limiters' = DOMAIN ip_limiters \cup {i}
           /\ ip_limiters' \in [DOMAIN ip_limiters' -> Limiters]
           /\ ip_limiters'[i] = [tokens |-> n, last_refill |-> instant, last_seen |-> instant]
           /\ \A j \in DOMAIN ip_limiters \ {i} : ip_limiters'[j] = ip_limiters[j]
<1>1. /\ DOMAIN ip_limiters' = DOMAIN ip_limiters \cup {i}
      /\ ip_limiters'[i] = [tokens |-> n, last_refill |-> instant, last_seen |-> instant]
      /\ \A j \in DOMAIN ip_limiters \ {i} : ip_limiters'[j] = ip_limiters[j]
  BY DEF PutLimiter
<1>2. ip_limiters'[i] \in Limiters
  BY <1>1 DEF Limiters, RateTypeOK
<1>3. \A j \in DOMAIN ip_limiters \ {i} : ip_limiters'[j] \in Limiters
  BY <1>1 DEF RateTypeOK
<1>4. ip_limiters' = [j \in DOMAIN ip_limiters' |-> ip_limiters'[j]]
  BY DEF PutLimiter
<1>5. QED
  BY <1>1, <1>2, <1>3, <1>4

\* The part of RateTypeOK and TimeOK about the table of limiters.
LimitersOK ==
    /\ DOMAIN ip_limiters \subseteq Ips
    /\ ip_limiters \in [DOMAIN ip_limiters -> Limiters]
    /\ \A i \in DOMAIN ip_limiters :
           /\ ip_limiters[i].last_refill <= instant
           /\ ip_limiters[i].last_seen = ip_limiters[i].last_refill

LEMMA PutLimiterOK ==
    ASSUME RateTypeOK, TimeOK, instant' = instant, NEW i \in Ips, NEW n \in 0 .. IpCap, PutLimiter(i, n)
    PROVE  LimitersOK'
<1>1. /\ DOMAIN ip_limiters' = DOMAIN ip_limiters \cup {i}
      /\ ip_limiters' \in [DOMAIN ip_limiters' -> Limiters]
      /\ ip_limiters'[i] = [tokens |-> n, last_refill |-> instant, last_seen |-> instant]
      /\ \A j \in DOMAIN ip_limiters \ {i} : ip_limiters'[j] = ip_limiters[j]
  BY PutLimiterType
<1>2. instant \in Nat /\ DOMAIN ip_limiters' \subseteq Ips
  BY <1>1, RateAssumption DEF RateTypeOK, Time
<1>3. ip_limiters'[i].last_refill <= instant /\ ip_limiters'[i].last_seen = ip_limiters'[i].last_refill
  BY <1>1, <1>2
<1>4. \A j \in DOMAIN ip_limiters \ {i} :
          /\ ip_limiters'[j].last_refill <= instant
          /\ ip_limiters'[j].last_seen = ip_limiters'[j].last_refill
  BY <1>1 DEF TimeOK
<1>5. QED
  BY <1>1, <1>2, <1>3, <1>4 DEF LimitersOK

LEMMA ForgetType ==
    ASSUME RateTypeOK, NEW i \in Ips, Forget(i)
    PROVE  /\ DOMAIN ip_limiters' = DOMAIN ip_limiters \ {i}
           /\ ip_limiters' \in [DOMAIN ip_limiters' -> Limiters]
           /\ \A j \in DOMAIN ip_limiters \ {i} : ip_limiters'[j] = ip_limiters[j]
BY DEF Forget, RateTypeOK

LEMMA TypeInit == RateInit => RateTypeOK /\ TimeOK
<1> SUFFICES ASSUME RateInit PROVE RateTypeOK /\ TimeOK
  OBVIOUS
<1> USE RateAssumption, CapType DEF RateInit, Time, NoSweep, Buckets
<1>1. DOMAIN ip_limiters = {} /\ ip_limiters \in [{} -> Limiters]
  OBVIOUS
<1>2. RateTypeOK
  BY <1>1 DEF RateTypeOK
<1>3. TimeOK
  BY <1>1 DEF TimeOK
<1>4. QED
  BY <1>2, <1>3

LEMMA TypeStep ==
    ASSUME RateTypeOK, TimeOK, [RateNext]_rateVars
    PROVE  RateTypeOK' /\ TimeOK'
<1> USE RateAssumption, CapType DEF connHist, ipHist
<1>1. /\ instant \in Nat /\ instant \in Time
      /\ \A c \in Links : ConnTokens(c) \in 0 .. ConnCap
      /\ \A i \in Ips : IpTokens(i) \in 0 .. IpCap
      /\ \A c \in Links : IpOf[c] \in Ips
  BY BucketFacts DEF RateTypeOK
<1>2. ASSUME NEW c \in Links, Open(c)
      PROVE  RateTypeOK' /\ TimeOK'
  BY <1>1, <1>2 DEF Open, RateTypeOK, TimeOK, Buckets
<1>3. ASSUME NEW c \in Links, Close(c)
      PROVE  RateTypeOK' /\ TimeOK'
  BY <1>3 DEF Close, RateTypeOK, TimeOK
<1>4. ASSUME NEW c \in Links, IpRefuses(c)
      PROVE  RateTypeOK' /\ TimeOK'
  <2>1. LimitersOK'
    BY <1>1, <1>4, PutLimiterOK DEF IpRefuses
  <2>2. QED
    BY <1>4, <2>1 DEF LimitersOK, IpRefuses, RateTypeOK, TimeOK
<1>5. ASSUME NEW c \in Links, TakeIp(IpOf[c]), instant' = instant
      PROVE  LimitersOK' /\ ipTaken' \in [Ips -> Nat] /\ ipTakenBefore' = ipTakenBefore
  <2>1. IpTokens(IpOf[c]) - Sec \in 0 .. IpCap
    BY <1>1, <1>5 DEF TakeIp
  <2>2. PutLimiter(IpOf[c], IpTokens(IpOf[c]) - Sec)
    BY <1>5 DEF TakeIp
  <2>3. LimitersOK'
    BY <1>1, <1>5, <2>1, <2>2, PutLimiterOK
  <2>4. QED
    BY <1>1, <1>5, <2>3 DEF TakeIp, RateTypeOK
<1>6. ASSUME NEW c \in Links, ConnRefuses(c)
      PROVE  RateTypeOK' /\ TimeOK'
  <2>1. LimitersOK' /\ ipTaken' \in [Ips -> Nat] /\ ipTakenBefore' = ipTakenBefore
    BY <1>5, <1>6 DEF ConnRefuses
  <2>2. bucket' \in [Links -> Buckets(ConnCap)] /\ \A d \in Links : bucket'[d].last_refill <= instant
    BY <1>1, <1>6 DEF ConnRefuses, Buckets, RateTypeOK, TimeOK
  <2>3. QED
    BY <1>6, <2>1, <2>2 DEF ConnRefuses, LimitersOK, RateTypeOK, TimeOK
<1>7. ASSUME NEW c \in Links, Admit(c)
      PROVE  RateTypeOK' /\ TimeOK'
  <2>1. LimitersOK' /\ ipTaken' \in [Ips -> Nat] /\ ipTakenBefore' = ipTakenBefore
    BY <1>5, <1>7 DEF Admit
  <2>2. bucket' \in [Links -> Buckets(ConnCap)] /\ \A d \in Links : bucket'[d].last_refill <= instant
    BY <1>1, <1>7 DEF Admit, Buckets, RateTypeOK, TimeOK
  <2>3. taken' \in [Links -> Nat]
    BY <1>7 DEF Admit, RateTypeOK
  <2>4. QED
    BY <1>7, <2>1, <2>2, <2>3 DEF Admit, LimitersOK, RateTypeOK, TimeOK
<1>8. CASE StartSweep
  BY <1>1, <1>8 DEF StartSweep, RateTypeOK, TimeOK
<1>9. ASSUME NEW i \in Ips, SweepEntry(i)
      PROVE  RateTypeOK' /\ TimeOK'
  <2>1. /\ DOMAIN ip_limiters' \subseteq DOMAIN ip_limiters
        /\ ip_limiters' \in [DOMAIN ip_limiters' -> Limiters]
        /\ \A j \in DOMAIN ip_limiters' : ip_limiters'[j] = ip_limiters[j]
    <3>1. CASE Forget(i)
      BY <3>1, ForgetType
    <3>2. CASE UNCHANGED ip_limiters
      BY <3>2 DEF RateTypeOK
    <3>3. QED
      BY <1>9, <3>1, <3>2 DEF SweepEntry
  <2>2. sweep' \in [at : Time, left : SUBSET Ips] /\ sweep'.at = sweep.at
    BY <1>9 DEF SweepEntry, RateTypeOK
  <2>3. QED
    BY <1>9, <2>1, <2>2 DEF SweepEntry, RateTypeOK, TimeOK
<1>10. CASE RateTick
  <2>1. instant' \in Time /\ instant <= instant'
    BY <1>1, <1>10 DEF RateTick, Time
  <2>2. takenBefore' \in [Links -> [Time -> Nat]] /\ ipTakenBefore' \in [Ips -> [Time -> Nat]]
    BY <1>10 DEF RateTick, RateTypeOK
  <2>3. RateTypeOK'
    BY <1>10, <2>1, <2>2 DEF RateTick, RateTypeOK
  <2>4. TimeOK'
    <3>1. \A c \in Links : bucket[c].last_refill \in Nat /\ bucket[c].last_refill <= instant
      BY BucketFacts
    <3>2. \A i \in DOMAIN ip_limiters : ip_limiters[i].last_refill \in Nat
      BY DEF RateTypeOK, Limiters, Time
    <3>3. sweep.at \in Nat /\ instant' = instant + 1
      BY <1>10 DEF RateTick, RateTypeOK, Time
    <3>4. QED
      BY <1>1, <1>10, <3>1, <3>2, <3>3 DEF RateTick, TimeOK
  <2>5. QED
    BY <2>3, <2>4
<1>11. CASE UNCHANGED rateVars
  BY <1>11 DEF rateVars, RateTypeOK, TimeOK
<1>12. QED
  BY <1>2, <1>3, <1>4, <1>6, <1>7, <1>8, <1>9, <1>10, <1>11 DEF RateNext

-----------------------------------------------------------------------------
(* What a step does to the potentials *)

\* The potential stays, unless a bucket is forgotten that had not filled up.
IpSteady(i) ==
    /\ instant' = instant
    /\ \A s \in 0 .. instant :
           /\ IpPotential(i, s)' \in Int
           /\ IpPotential(i, s)' >= IpPotential(i, s)
           /\ TtlCoversRefill => IpPotential(i, s)' = IpPotential(i, s)

\* The potential of a connection stays, or the connection is new.
ConnSteady(c) ==
    /\ instant' = instant
    /\ \/ \A s \in 0 .. instant : ConnPotential(c, s)' = ConnPotential(c, s)
       \/ \A s \in 0 .. instant : ConnPotential(c, s)' = ConnCap

LEMMA PotentialType ==
    ASSUME RateTypeOK, TimeOK
    PROVE  \A s \in 0 .. instant :
               /\ ip_rate_limit_rps * (instant - s) \in Nat
               /\ rate_limit_rps * (instant - s) \in Nat
               /\ IpAllowance(s) \in Int /\ ConnAllowance(s) \in Int
               /\ \A i \in Ips : IpPotential(i, s) \in Int
               /\ \A c \in Links : ConnPotential(c, s) \in Int
<1> SUFFICES ASSUME NEW s \in 0 .. instant
             PROVE  /\ ip_rate_limit_rps * (instant - s) \in Nat
                    /\ rate_limit_rps * (instant - s) \in Nat
                    /\ IpAllowance(s) \in Int /\ ConnAllowance(s) \in Int
                    /\ \A i \in Ips : IpPotential(i, s) \in Int
                    /\ \A c \in Links : ConnPotential(c, s) \in Int
  OBVIOUS
<1> USE RateAssumption, CapType
<1>1. instant \in Nat /\ s \in Time
  BY BucketFacts DEF RateTypeOK, Time
<1>2. ip_rate_limit_rps * (instant - s) \in Nat /\ rate_limit_rps * (instant - s) \in Nat
  BY <1>1, MulNat
<1>3. IpAllowance(s) \in Int /\ ConnAllowance(s) \in Int
  BY <1>2 DEF IpAllowance, ConnAllowance
<1>4. \A i \in Ips : IpPotential(i, s) \in Int
  <2>1. \A i \in Ips : IpTokens(i) \in Int /\ IpTakenSince(i, s) \in Int
    BY <1>1, BucketFacts DEF IpTakenSince, RateTypeOK
  <2>2. QED
    BY <2>1, UnitsInt DEF IpPotential
<1>5. ASSUME NEW c \in Links
      PROVE  ConnPotential(c, s) \in Int
  <2>1. ConnTokens(c) \in Int
    BY BucketFacts
  <2>2. taken[c] \in Int /\ takenBefore[c][s] \in Int
    BY <1>1 DEF RateTypeOK
  <2>3. TakenSince(c, s) \in Int
    BY <2>2 DEF TakenSince
  <2>4. QED
    BY <2>1, <2>3, UnitsInt DEF ConnPotential
<1>6. QED
  BY <1>2, <1>3, <1>4, <1>5

\* Steps under which every potential is steady preserve the invariant.
LEMMA SteadyIp ==
    ASSUME RateTypeOK, TimeOK, TtlCoversRefill => IpUpper, IpLower,
           \A i \in Ips : IpSteady(i)
    PROVE  (TtlCoversRefill => IpUpper') /\ IpLower'
<1>1. ASSUME NEW i \in Ips
      PROVE  /\ instant' = instant
             /\ TtlCoversRefill => \A s \in 0 .. instant' : IpPotential(i, s)' <= IpAllowance(s)'
             /\ \E s \in 0 .. instant' : IpPotential(i, s)' >= IpAllowance(s)'
  <2>1. /\ instant' = instant
        /\ \A s \in 0 .. instant : IpPotential(i, s)' >= IpPotential(i, s)
        /\ TtlCoversRefill => \A s \in 0 .. instant : IpPotential(i, s)' = IpPotential(i, s)
    BY DEF IpSteady
  <2>2. \A s \in 0 .. instant : IpAllowance(s)' = IpAllowance(s)
    BY <2>1 DEF IpAllowance
  <2>3. \A s \in 0 .. instant : /\ IpPotential(i, s) \in Int /\ IpPotential(i, s)' \in Int
                            /\ IpAllowance(s) \in Int
    BY PotentialType DEF IpSteady
  <2>4. TtlCoversRefill => \A s \in 0 .. instant : IpPotential(i, s)' <= IpAllowance(s)'
    BY <2>1, <2>2 DEF IpUpper
  <2>5. \E s \in 0 .. instant : IpPotential(i, s)' >= IpAllowance(s)'
    <3>1. PICK s \in 0 .. instant : IpPotential(i, s) >= IpAllowance(s)
      BY DEF IpLower
    <3>2. IpPotential(i, s)' >= IpPotential(i, s) /\ IpAllowance(s)' = IpAllowance(s)
      BY <2>1, <2>2
    <3>3. IpPotential(i, s)' >= IpAllowance(s)'
      BY <2>3, <3>1, <3>2
    <3>4. QED
      BY <3>3
  <2>6. QED
    BY <2>1, <2>4, <2>5
<1>2. QED
  BY <1>1 DEF IpUpper, IpLower

LEMMA SteadyConn ==
    ASSUME RateTypeOK, TimeOK, ConnUpper, ConnLower, \A c \in Links : ConnSteady(c)
    PROVE  ConnUpper' /\ ConnLower'
<1>1. ASSUME NEW c \in Links
      PROVE  /\ \A s \in 0 .. instant' : ConnPotential(c, s)' <= ConnAllowance(s)'
             /\ \E s \in 0 .. instant' : ConnPotential(c, s)' >= ConnAllowance(s)'
  <2>1. instant' = instant /\ \A s \in 0 .. instant : ConnAllowance(s)' = ConnAllowance(s)
    BY DEF ConnSteady, ConnAllowance
  <2>2. CASE \A s \in 0 .. instant : ConnPotential(c, s)' = ConnPotential(c, s)
    BY <2>1, <2>2 DEF ConnUpper, ConnLower
  <2>3. CASE \A s \in 0 .. instant : ConnPotential(c, s)' = ConnCap
    <3>1. \A s \in 0 .. instant : ConnCap <= ConnAllowance(s)
      BY PotentialType, CapType DEF ConnAllowance
    <3>2. instant \in 0 .. instant /\ ConnAllowance(instant) = ConnCap
      BY BucketFacts, CapType, RateAssumption DEF ConnAllowance
    <3>3. PICK s \in 0 .. instant : s = instant
      BY <3>2
    <3>4. ConnPotential(c, s)' >= ConnAllowance(s)'
      BY <2>1, <2>3, <3>2, <3>3, CapType
    <3>5. QED
      BY <2>1, <2>3, <3>1, <3>4
  <2>4. QED
    BY <2>2, <2>3 DEF ConnSteady
<1>2. QED
  BY <1>1 DEF ConnUpper, ConnLower

\* A connection that a step leaves alone.
LEMMA ConnKept ==
    ASSUME instant' = instant, NEW c \in Links, bucket'[c] = bucket[c],
           taken'[c] = taken[c], takenBefore'[c] = takenBefore[c]
    PROVE  ConnSteady(c)
BY DEF ConnSteady, ConnPotential, ConnTokens, TakenSince, Refilled

\* A connection whose bucket has been refilled and charged.
LEMMA ConnCharged ==
    ASSUME RateTypeOK, TimeOK, instant' = instant, NEW c \in Links, NEW n \in 0 .. ConnCap,
           bucket'[c] = [tokens |-> n, last_refill |-> instant],
           taken'[c] \in Nat, takenBefore'[c] = takenBefore[c],
           n + Units(taken'[c]) = ConnTokens(c) + Units(taken[c])
    PROVE  ConnSteady(c)
<1> USE RateAssumption, CapType
<1>1. instant \in Nat /\ ConnTokens(c) \in Nat /\ n \in Nat /\ taken[c] \in Nat
  BY BucketFacts DEF RateTypeOK
<1>2. ConnTokens(c)' = n
  <2>1. rate_limit_rps * (instant - instant) = 0
    BY <1>1
  <2>2. QED
    BY <1>1, <2>1 DEF ConnTokens, Refilled
<1>3. ASSUME NEW s \in 0 .. instant
      PROVE  ConnPotential(c, s)' = ConnPotential(c, s)
  <2>1. Sec \in Nat /\ takenBefore[c][s] \in Nat
    <3>1. s \in Time
      BY <1>1, <1>3 DEF RateTypeOK, Time
    <3>2. QED
      BY <3>1 DEF RateTypeOK
  <2>2. n + Units(taken'[c] - takenBefore[c][s])
            = ConnTokens(c) + Units(taken[c] - takenBefore[c][s])
    <3> DEFINE u == taken'[c]
               v == taken[c]
               w == takenBefore[c][s]
    <3>1. u \in Int /\ v \in Int /\ w \in Int
      BY <1>1, <2>1
    <3>2. Units(u - w) = Units(u) - Units(w) /\ Units(v - w) = Units(v) - Units(w)
      BY <3>1, UnitsSub, Zenon
    <3>3. Units(u) \in Int /\ Units(v) \in Int /\ Units(w) \in Int
      BY <3>1, UnitsInt
    <3>4. n + Units(u) = ConnTokens(c) + Units(v)
      OBVIOUS
    <3> HIDE DEF u, v, w
    <3>5. n + Units(u - w) = ConnTokens(c) + Units(v - w)
      BY <1>1, <3>2, <3>3, <3>4
    <3>6. QED
      BY <3>5 DEF u, v, w
  <2>3. QED
    BY <1>2, <2>2 DEF ConnPotential, TakenSince
<1>4. QED
  BY <1>3 DEF ConnSteady

\* A connection that has just been opened.
LEMMA ConnOpened ==
    ASSUME RateTypeOK, TimeOK, NEW c \in Links, Open(c)
    PROVE  ConnSteady(c)
<1> USE RateAssumption, CapType
<1>1. instant \in Nat /\ instant' = instant
  BY BucketFacts DEF Open
<1>2. ConnTokens(c)' = ConnCap
  <2>1. rate_limit_rps * (instant - instant) = 0
    BY <1>1
  <2>2. bucket'[c] = [tokens |-> ConnCap, last_refill |-> instant]
    BY DEF Open, RateTypeOK
  <2>3. QED
    BY <1>1, <2>1, <2>2 DEF ConnTokens, Refilled
<1>3. ASSUME NEW s \in 0 .. instant
      PROVE  ConnPotential(c, s)' = ConnCap
  <2>1. taken'[c] = 0 /\ takenBefore'[c][s] = 0
    BY <1>1, <1>3 DEF Open, RateTypeOK, Time
  <2>2. Units(0 - 0) = 0
    BY UnitsZero
  <2>3. QED
    BY <1>2, <2>1, <2>2 DEF ConnPotential, TakenSince
<1>4. QED
  BY <1>1, <1>3 DEF ConnSteady

\* An address that a step leaves alone.
LEMMA IpKept ==
    ASSUME RateTypeOK, TimeOK, instant' = instant, NEW i \in Ips,
           i \in DOMAIN ip_limiters' <=> i \in DOMAIN ip_limiters,
           i \in DOMAIN ip_limiters => ip_limiters'[i] = ip_limiters[i],
           ipTaken'[i] = ipTaken[i], ipTakenBefore'[i] = ipTakenBefore[i]
    PROVE  IpSteady(i)
<1>1. Limiter(i)' = Limiter(i)
  BY DEF Limiter
<1>2. \A s \in 0 .. instant : IpPotential(i, s)' = IpPotential(i, s)
  BY <1>1 DEF IpPotential, IpTokens, IpTakenSince, Refilled
<1>3. \A s \in 0 .. instant : IpPotential(i, s) \in Int
  BY PotentialType
<1>4. QED
  BY <1>2, <1>3 DEF IpSteady

\* An address whose bucket has been refilled and charged.
LEMMA IpCharged ==
    ASSUME RateTypeOK, TimeOK, instant' = instant, NEW i \in Ips, NEW n \in 0 .. IpCap,
           PutLimiter(i, n), ipTaken'[i] \in Nat, ipTakenBefore' = ipTakenBefore,
           n + Units(ipTaken'[i]) = IpTokens(i) + Units(ipTaken[i])
    PROVE  IpSteady(i)
<1> USE RateAssumption, CapType
<1>1. instant \in Nat /\ IpTokens(i) \in Nat /\ n \in Nat /\ ipTaken[i] \in Nat
  BY BucketFacts DEF RateTypeOK
<1>2. IpTokens(i)' = n
  <2>1. ip_rate_limit_rps * (instant - instant) = 0
    BY <1>1
  <2>2. Limiter(i)' = [tokens |-> n, last_refill |-> instant, last_seen |-> instant]
    BY DEF Limiter, PutLimiter
  <2>3. QED
    BY <1>1, <2>1, <2>2 DEF IpTokens, Refilled
<1>3. ASSUME NEW s \in 0 .. instant
      PROVE  IpPotential(i, s)' = IpPotential(i, s)
  <2>1. Sec \in Nat /\ ipTakenBefore[i][s] \in Nat
    <3>1. s \in Time
      BY <1>1, <1>3 DEF RateTypeOK, Time
    <3>2. QED
      BY <3>1 DEF RateTypeOK
  <2>2. n + Units(ipTaken'[i] - ipTakenBefore[i][s])
            = IpTokens(i) + Units(ipTaken[i] - ipTakenBefore[i][s])
    <3> DEFINE u == ipTaken'[i]
               v == ipTaken[i]
               w == ipTakenBefore[i][s]
    <3>1. u \in Int /\ v \in Int /\ w \in Int
      BY <1>1, <2>1
    <3>2. Units(u - w) = Units(u) - Units(w) /\ Units(v - w) = Units(v) - Units(w)
      BY <3>1, UnitsSub, Zenon
    <3>3. Units(u) \in Int /\ Units(v) \in Int /\ Units(w) \in Int
      BY <3>1, UnitsInt
    <3>4. n + Units(u) = IpTokens(i) + Units(v)
      OBVIOUS
    <3> HIDE DEF u, v, w
    <3>5. n + Units(u - w) = IpTokens(i) + Units(v - w)
      BY <1>1, <3>2, <3>3, <3>4
    <3>6. QED
      BY <3>5 DEF u, v, w
  <2>3. QED
    BY <1>2, <2>2 DEF IpPotential, IpTakenSince
<1>4. \A s \in 0 .. instant : IpPotential(i, s) \in Int
  BY PotentialType
<1>5. QED
  BY <1>3, <1>4 DEF IpSteady

\* An address whose bucket the janitor removes: by then it was full, if the
\* TTL covers a refill.
LEMMA IpForgotten ==
    ASSUME RateTypeOK, TimeOK, NEW i \in Ips, SweepEntry(i),
           i \in DOMAIN ip_limiters, IdleFor(i) >= ip_ttl
    PROVE  IpSteady(i)
<1> USE RateAssumption, CapType
<1>1. /\ instant \in Nat /\ instant' = instant /\ Forget(i)
      /\ ipTaken' = ipTaken /\ ipTakenBefore' = ipTakenBefore
  BY BucketFacts DEF SweepEntry, ipHist
<1>2. IpTokens(i)' = IpCap
  <2>1. ip_rate_limit_rps * (instant - instant) = 0
    BY <1>1
  <2>2. Limiter(i)' = [tokens |-> IpCap, last_refill |-> instant, last_seen |-> instant]
    BY <1>1, ForgetType DEF Limiter
  <2>3. QED
    BY <1>1, <2>1, <2>2 DEF IpTokens, Refilled
<1>3. IpTokens(i) \in 0 .. IpCap
  BY BucketFacts
<1>4. TtlCoversRefill => IpTokens(i) = IpCap
  <2> DEFINE b == ip_limiters[i]
  <2>1. /\ b.tokens \in 0 .. IpCap /\ b.last_refill \in Nat /\ b.last_refill <= instant
        /\ b.last_seen = b.last_refill
    BY DEF RateTypeOK, TimeOK, Limiters, Time
  <2>2. ip_ttl <= instant - b.last_refill
    <3>1. sweep.at \in Nat /\ sweep.at <= instant
      BY DEF RateTypeOK, TimeOK, Time
    <3>2. QED
      BY <1>1, <2>1, <3>1 DEF IdleFor
  <2>3. ip_rate_limit_rps * ip_ttl <= ip_rate_limit_rps * (instant - b.last_refill)
    BY <1>1, <2>1, <2>2, MulMono
  <2>4. ip_rate_limit_rps * ip_ttl \in Nat /\ ip_rate_limit_rps * (instant - b.last_refill) \in Nat
    BY <1>1, <2>1, MulNat
  <2>5. Limiter(i) = b
    BY DEF Limiter
  <2>6. TtlCoversRefill => b.tokens + ip_rate_limit_rps * (instant - b.last_refill) >= IpCap
    BY <2>1, <2>3, <2>4 DEF TtlCoversRefill
  <2>7. b.tokens + ip_rate_limit_rps * (instant - b.last_refill) \in Nat
    BY <2>1, <2>4
  <2>8. QED
    BY <2>5, <2>6, <2>7 DEF IpTokens, Refilled
<1>5. ASSUME NEW s \in 0 .. instant
      PROVE  /\ IpPotential(i, s)' \in Int
             /\ IpPotential(i, s)' >= IpPotential(i, s)
             /\ TtlCoversRefill => IpPotential(i, s)' = IpPotential(i, s)
  <2>1. IpTakenSince(i, s)' = IpTakenSince(i, s)
    BY <1>1 DEF IpTakenSince
  <2>2. Units(IpTakenSince(i, s)) \in Int
    <3>1. ipTaken[i] \in Int /\ ipTakenBefore[i][s] \in Int
      BY <1>1, <1>5 DEF RateTypeOK, Time
    <3>2. IpTakenSince(i, s) \in Int
      BY <3>1 DEF IpTakenSince
    <3>3. QED
      BY <3>2, UnitsInt
  <2>3. QED
    BY <1>2, <1>3, <1>4, <2>1, <2>2 DEF IpPotential
<1>6. QED
  BY <1>1, <1>5 DEF IpSteady

-----------------------------------------------------------------------------
(* Steps other than the clock *)

LEMMA TakeIpSteady ==
    ASSUME RateTypeOK, TimeOK, NEW i \in Ips, TakeIp(i), instant' = instant
    PROVE  \A j \in Ips : IpSteady(j)
<1> USE RateAssumption, CapType
<1>1. IpTokens(i) \in 0 .. IpCap /\ ipTaken[i] \in Nat
  BY BucketFacts DEF RateTypeOK
<1>2. IpTokens(i) - Sec \in 0 .. IpCap
  BY <1>1 DEF TakeIp
<1>3. /\ PutLimiter(i, IpTokens(i) - Sec) /\ ipTakenBefore' = ipTakenBefore
      /\ ipTaken'[i] = ipTaken[i] + 1
  BY DEF TakeIp, RateTypeOK
<1>4. IpTokens(i) - Sec + Units(ipTaken'[i]) = IpTokens(i) + Units(ipTaken[i])
  <2>1. Units(ipTaken[i] + 1) = Units(ipTaken[i]) + Sec /\ Units(ipTaken[i]) \in Int
    BY <1>1, UnitsInt, UnitsSucc
  <2>2. QED
    BY <1>1, <1>3, <2>1
<1>5. IpSteady(i)
  BY <1>1, <1>2, <1>3, <1>4, IpCharged
<1>6. ASSUME NEW j \in Ips, j # i
      PROVE  IpSteady(j)
  <2>1. /\ j \in DOMAIN ip_limiters' <=> j \in DOMAIN ip_limiters
        /\ j \in DOMAIN ip_limiters => ip_limiters'[j] = ip_limiters[j]
    BY <1>3, <1>6 DEF PutLimiter
  <2>2. ipTaken'[j] = ipTaken[j] /\ ipTakenBefore'[j] = ipTakenBefore[j]
    BY <1>6 DEF TakeIp, RateTypeOK
  <2>3. QED
    BY <2>1, <2>2, IpKept
<1>7. QED
  BY <1>5, <1>6

\* Every action but RateTick is steady for all connections and all addresses.
LEMMA SteadyStep ==
    ASSUME RateTypeOK, TimeOK, [RateNext]_rateVars, ~RateTick
    PROVE  (\A c \in Links : ConnSteady(c)) /\ (\A i \in Ips : IpSteady(i))
<1> USE RateAssumption, CapType DEF connHist, ipHist
<1>1. ASSUME instant' = instant, UNCHANGED <<ip_limiters, ipHist>>
      PROVE  \A i \in Ips : IpSteady(i)
  BY <1>1, IpKept
<1>2. ASSUME instant' = instant, UNCHANGED <<bucket, connHist>>
      PROVE  \A c \in Links : ConnSteady(c)
  BY <1>2, ConnKept
<1>3. ASSUME NEW c \in Links, Open(c)
      PROVE  (\A d \in Links : ConnSteady(d)) /\ (\A i \in Ips : IpSteady(i))
  <2>1. \A i \in Ips : IpSteady(i)
    BY <1>1, <1>3 DEF Open
  <2>2. ASSUME NEW d \in Links, d # c
        PROVE  ConnSteady(d)
    <3>1. /\ instant' = instant /\ bucket'[d] = bucket[d] /\ taken'[d] = taken[d]
          /\ takenBefore'[d] = takenBefore[d]
      BY <1>3, <2>2 DEF Open, RateTypeOK
    <3>2. QED
      BY <3>1, ConnKept
  <2>3. QED
    BY <1>3, <2>1, <2>2, ConnOpened
<1>4. ASSUME NEW c \in Links, Close(c)
      PROVE  (\A d \in Links : ConnSteady(d)) /\ (\A i \in Ips : IpSteady(i))
  BY <1>1, <1>2, <1>4 DEF Close
<1>5. ASSUME NEW c \in Links, IpRefuses(c)
      PROVE  (\A d \in Links : ConnSteady(d)) /\ (\A i \in Ips : IpSteady(i))
  <2> DEFINE i == IpOf[c]
  <2>1. i \in Ips /\ IpTokens(i) \in 0 .. IpCap /\ PutLimiter(i, IpTokens(i)) /\ instant' = instant
    BY <1>5, BucketFacts DEF IpRefuses
  <2>2. ipTaken' = ipTaken /\ ipTakenBefore' = ipTakenBefore /\ ipTaken[i] \in Nat
    BY <1>5, <2>1 DEF IpRefuses, RateTypeOK
  <2>3. IpSteady(i)
    BY <2>1, <2>2, IpCharged
  <2>4. ASSUME NEW j \in Ips, j # i
        PROVE  IpSteady(j)
    <3>1. /\ j \in DOMAIN ip_limiters' <=> j \in DOMAIN ip_limiters
          /\ j \in DOMAIN ip_limiters => ip_limiters'[j] = ip_limiters[j]
      BY <2>1, <2>4 DEF PutLimiter
    <3>2. QED
      BY <2>1, <2>2, <3>1, IpKept
  <2>5. \A d \in Links : ConnSteady(d)
    BY <1>2, <1>5 DEF IpRefuses
  <2>6. QED
    BY <2>3, <2>4, <2>5
<1>6. ASSUME NEW c \in Links, NEW n \in 0 .. ConnCap, instant' = instant,
             bucket' = [bucket EXCEPT ![c] = [tokens |-> n, last_refill |-> instant]],
             takenBefore' = takenBefore, taken'[c] \in Nat,
             \A d \in Links \ {c} : taken'[d] = taken[d],
             n + Units(taken'[c]) = ConnTokens(c) + Units(taken[c])
      PROVE  \A d \in Links : ConnSteady(d)
  <2>1. bucket'[c] = [tokens |-> n, last_refill |-> instant]
    BY <1>6 DEF RateTypeOK
  <2>2. ConnSteady(c)
    BY <1>6, <2>1, ConnCharged
  <2>3. ASSUME NEW d \in Links, d # c
        PROVE  ConnSteady(d)
    <3>1. bucket'[d] = bucket[d] /\ taken'[d] = taken[d] /\ takenBefore'[d] = takenBefore[d]
      BY <1>6, <2>3 DEF RateTypeOK
    <3>2. QED
      BY <1>6, <3>1, ConnKept
  <2>4. QED
    BY <2>2, <2>3
<1>7. ASSUME NEW c \in Links, ConnRefuses(c)
      PROVE  (\A d \in Links : ConnSteady(d)) /\ (\A i \in Ips : IpSteady(i))
  <2>1. \A i \in Ips : IpSteady(i)
    BY <1>7, TakeIpSteady DEF ConnRefuses
  <2>2. /\ ConnTokens(c) \in 0 .. ConnCap /\ taken'[c] = taken[c] /\ taken[c] \in Nat
        /\ taken' = taken /\ takenBefore' = takenBefore /\ instant' = instant
        /\ bucket' = [bucket EXCEPT ![c] = [tokens |-> ConnTokens(c), last_refill |-> instant]]
    BY <1>7, BucketFacts DEF ConnRefuses, RateTypeOK
  <2>3. \A d \in Links : ConnSteady(d)
    BY <1>6, <2>2
  <2>4. QED
    BY <2>1, <2>3
<1>8. ASSUME NEW c \in Links, Admit(c)
      PROVE  (\A d \in Links : ConnSteady(d)) /\ (\A i \in Ips : IpSteady(i))
  <2>1. \A i \in Ips : IpSteady(i)
    BY <1>8, TakeIpSteady DEF Admit
  <2>2. /\ ConnTokens(c) \in 0 .. ConnCap /\ ConnTokens(c) >= Sec
        /\ taken[c] \in Nat /\ taken'[c] = taken[c] + 1 /\ instant' = instant
        /\ \A d \in Links \ {c} : taken'[d] = taken[d]
        /\ takenBefore' = takenBefore
        /\ bucket' = [bucket EXCEPT ![c] = [tokens |-> ConnTokens(c) - Sec, last_refill |-> instant]]
    BY <1>8, BucketFacts DEF Admit, RateTypeOK
  <2>3. Units(taken[c] + 1) = Units(taken[c]) + Sec /\ Units(taken[c]) \in Int
    BY <2>2, UnitsInt, UnitsSucc
  <2>4. ConnTokens(c) - Sec \in 0 .. ConnCap
    BY <2>2
  <2>5. ConnTokens(c) - Sec + Units(taken'[c]) = ConnTokens(c) + Units(taken[c])
    BY <2>2, <2>3
  <2>6. taken'[c] \in Nat
    BY <2>2
  <2>7. \A d \in Links : ConnSteady(d)
    BY <1>6, <2>2, <2>4, <2>5, <2>6
  <2>8. QED
    BY <2>1, <2>7
<1>9. CASE StartSweep
  BY <1>1, <1>2, <1>9 DEF StartSweep
<1>10. ASSUME NEW i \in Ips, SweepEntry(i)
      PROVE  (\A d \in Links : ConnSteady(d)) /\ (\A j \in Ips : IpSteady(j))
  <2>1. \A d \in Links : ConnSteady(d)
    BY <1>2, <1>10 DEF SweepEntry
  <2>2. instant' = instant /\ UNCHANGED ipHist
    BY <1>10 DEF SweepEntry
  <2>3. CASE i \in DOMAIN ip_limiters /\ IdleFor(i) >= ip_ttl
    <3>1. IpSteady(i)
      BY <1>10, <2>3, IpForgotten
    <3>2. Forget(i)
      BY <1>10, <2>3 DEF SweepEntry
    <3>3. ASSUME NEW j \in Ips, j # i
          PROVE  IpSteady(j)
      <4>1. /\ j \in DOMAIN ip_limiters' <=> j \in DOMAIN ip_limiters
            /\ j \in DOMAIN ip_limiters => ip_limiters'[j] = ip_limiters[j]
        BY <3>2, <3>3 DEF Forget
      <4>2. QED
        BY <2>2, <4>1, IpKept
    <3>4. QED
      BY <2>1, <3>1, <3>3
  <2>4. CASE ~(i \in DOMAIN ip_limiters /\ IdleFor(i) >= ip_ttl)
    BY <1>1, <1>10, <2>1, <2>4 DEF SweepEntry
  <2>5. QED
    BY <2>3, <2>4
<1>11. CASE UNCHANGED rateVars
  BY <1>1, <1>2, <1>11 DEF rateVars
<1>12. QED
  BY <1>3, <1>4, <1>5, <1>7, <1>8, <1>9, <1>10, <1>11 DEF RateNext

-----------------------------------------------------------------------------
(* The clock *)

\* A tick leads to the next instant, which is within the bound.
LEMMA TickFacts ==
    ASSUME RateTypeOK, RateTick
    PROVE  instant \in Nat /\ instant' = instant + 1 /\ instant + 1 \in Time
<1>1. instant \in Time
  BY DEF RateTypeOK
<1>2. instant < MaxInstant /\ instant' = instant + 1
  BY DEF RateTick
<1>3. MaxInstant \in Nat
  BY RateAssumption
<1>4. QED
  BY <1>1, <1>2, <1>3 DEF Time

LEMMA ConnTick ==
    ASSUME RateTypeOK, TimeOK, RateTick, ConnUpper, ConnLower
    PROVE  ConnUpper' /\ ConnLower'
<1> USE RateAssumption, CapType
<1>1. instant \in Nat /\ instant' = instant + 1 /\ instant + 1 \in Time
  BY TickFacts
<1>2. ASSUME NEW s \in 0 .. instant
      PROVE  ConnAllowance(s)' = ConnAllowance(s) + rate_limit_rps /\ ConnAllowance(s) \in Int
  <2>1. rate_limit_rps * (instant' - s) = rate_limit_rps * (instant - s) + rate_limit_rps
    <3>1. instant' - s = (instant - s) + 1 /\ instant - s \in Int
      BY <1>1
    <3>2. QED
      BY <3>1, MulSucc
  <2>2. rate_limit_rps * (instant - s) \in Int
    BY PotentialType
  <2>3. QED
    BY <2>1, <2>2 DEF ConnAllowance
<1>3. ASSUME NEW s \in {instant + 1}
      PROVE  ConnAllowance(s)' = ConnCap
  <2>1. rate_limit_rps * (instant' - s) = 0
    BY <1>1
  <2>2. QED
    BY <2>1 DEF ConnAllowance
<1>4. ASSUME NEW c \in Links
      PROVE  /\ \A s \in 0 .. instant' : ConnPotential(c, s)' <= ConnAllowance(s)'
             /\ \E s \in 0 .. instant' : ConnPotential(c, s)' >= ConnAllowance(s)'
  <2>1. /\ ConnTokens(c)' \in 0 .. ConnCap /\ ConnTokens(c) \in 0 .. ConnCap
        /\ ConnTokens(c)' <= ConnTokens(c) + rate_limit_rps
        /\ ConnTokens(c)' = ConnTokens(c) + rate_limit_rps \/ ConnTokens(c)' = ConnCap
    <3>1. /\ bucket[c].tokens \in 0 .. ConnCap /\ bucket[c].last_refill \in Nat
          /\ bucket[c].last_refill <= instant /\ ConnTokens(c) \in 0 .. ConnCap
      BY BucketFacts
    <3>2. bucket' = bucket
      BY DEF RateTick
    <3>3. QED
      BY <1>1, <3>1, <3>2, RefilledTick DEF ConnTokens, Refilled
  <2>2. ASSUME NEW s \in 0 .. instant
        PROVE  /\ Units(TakenSince(c, s))' = Units(TakenSince(c, s))
               /\ Units(TakenSince(c, s)) \in Int
    <3>1. s \in Time /\ s # instant + 1
      BY <1>1 DEF Time
    <3>2. TakenSince(c, s)' = TakenSince(c, s)
      BY <3>1 DEF RateTick, TakenSince, RateTypeOK
    <3>3. taken[c] \in Int /\ takenBefore[c][s] \in Int
      BY <3>1 DEF RateTypeOK
    <3>4. TakenSince(c, s) \in Int
      BY <3>3 DEF TakenSince
    <3>5. QED
      BY <3>2, <3>4, UnitsInt DEF Units
  <2>3. ASSUME NEW s \in {instant + 1}
        PROVE  ConnPotential(c, s)' = ConnTokens(c)'
    <3>1. taken'[c] = taken[c] /\ takenBefore'[c][s] = taken[c] /\ taken[c] \in Nat
      BY <1>1 DEF RateTick, RateTypeOK
    <3>2. TakenSince(c, s)' = 0
      BY <3>1 DEF TakenSince
    <3>3. Units(TakenSince(c, s))' = 0
      BY <3>2 DEF Units
    <3>4. QED
      BY <2>1, <3>3 DEF ConnPotential
  <2>4. ASSUME NEW s \in 0 .. instant
        PROVE  ConnPotential(c, s)' = ConnPotential(c, s) + (ConnTokens(c)' - ConnTokens(c)) /\ ConnPotential(c, s) \in Int
    BY <2>1, <2>2 DEF ConnPotential
  <2>5. \A s \in 0 .. instant' : ConnPotential(c, s)' <= ConnAllowance(s)'
    <3>1. ASSUME NEW s \in 0 .. instant, ConnUpper
          PROVE  ConnPotential(c, s)' <= ConnAllowance(s)'
      <4>1. ConnPotential(c, s) <= ConnAllowance(s)
        BY <3>1 DEF ConnUpper
      <4>2. QED
        BY <1>2, <2>1, <2>4, <4>1
    <3>2. ASSUME NEW s \in {instant + 1}
          PROVE  ConnPotential(c, s)' <= ConnAllowance(s)'
      BY <1>3, <2>1, <2>3
    <3>3. \A s \in 0 .. instant' : s \in 0 .. instant \/ s \in {instant + 1}
      BY <1>1
    <3>4. QED
      BY <3>1, <3>2, <3>3
  <2>6. \E s \in 0 .. instant' : ConnPotential(c, s)' >= ConnAllowance(s)'
    <3>1. CASE ConnTokens(c)' = ConnTokens(c) + rate_limit_rps
      <4>1. PICK s \in 0 .. instant : ConnPotential(c, s) >= ConnAllowance(s)
        BY DEF ConnLower
      <4>2. ConnPotential(c, s)' >= ConnAllowance(s)'
        BY <1>2, <2>1, <2>4, <3>1, <4>1
      <4>3. s \in 0 .. instant'
        BY <1>1
      <4>4. QED
        BY <4>2, <4>3
    <3>2. CASE ConnTokens(c)' = ConnCap
      <4>1. PICK s \in {instant + 1} : TRUE
        OBVIOUS
      <4>2. ConnPotential(c, s)' >= ConnAllowance(s)' /\ s \in 0 .. instant'
        BY <1>1, <1>3, <2>3, <3>2
      <4>3. QED
        BY <4>2
    <3>3. QED
      BY <2>1, <3>1, <3>2
  <2>7. QED
    BY <2>5, <2>6
<1>5. QED
  BY <1>4 DEF ConnUpper, ConnLower

LEMMA IpTick ==
    ASSUME RateTypeOK, TimeOK, RateTick, TtlCoversRefill => IpUpper, IpLower
    PROVE  (TtlCoversRefill => IpUpper') /\ IpLower'
<1> USE RateAssumption, CapType
<1>1. instant \in Nat /\ instant' = instant + 1 /\ instant + 1 \in Time
  BY TickFacts
<1>2. ASSUME NEW s \in 0 .. instant
      PROVE  IpAllowance(s)' = IpAllowance(s) + ip_rate_limit_rps /\ IpAllowance(s) \in Int
  <2>1. ip_rate_limit_rps * (instant' - s) = ip_rate_limit_rps * (instant - s) + ip_rate_limit_rps
    <3>1. instant' - s = (instant - s) + 1 /\ instant - s \in Int
      BY <1>1
    <3>2. QED
      BY <3>1, MulSucc
  <2>2. ip_rate_limit_rps * (instant - s) \in Int
    BY PotentialType
  <2>3. QED
    BY <2>1, <2>2 DEF IpAllowance
<1>3. ASSUME NEW s \in {instant + 1}
      PROVE  IpAllowance(s)' = IpCap
  <2>1. ip_rate_limit_rps * (instant' - s) = 0
    BY <1>1
  <2>2. QED
    BY <2>1 DEF IpAllowance
<1>4. ASSUME NEW i \in Ips
      PROVE  /\ TtlCoversRefill => \A s \in 0 .. instant' : IpPotential(i, s)' <= IpAllowance(s)'
             /\ \E s \in 0 .. instant' : IpPotential(i, s)' >= IpAllowance(s)'
  <2>1. /\ IpTokens(i)' \in 0 .. IpCap /\ IpTokens(i) \in 0 .. IpCap
        /\ IpTokens(i)' <= IpTokens(i) + ip_rate_limit_rps
        /\ IpTokens(i)' = IpTokens(i) + ip_rate_limit_rps \/ IpTokens(i)' = IpCap
    <3>1. /\ Limiter(i).tokens \in 0 .. IpCap /\ Limiter(i).last_refill \in Nat
          /\ Limiter(i).last_refill <= instant /\ IpTokens(i) \in 0 .. IpCap
      BY BucketFacts
    <3>2. CASE i \in DOMAIN ip_limiters
      <4>1. Limiter(i)' = Limiter(i)
        BY <3>2 DEF RateTick, Limiter
      <4>2. QED
        BY <1>1, <3>1, <4>1, RefilledTick DEF IpTokens, Refilled
    <3>3. CASE i \notin DOMAIN ip_limiters
      <4>1. /\ Limiter(i).tokens = IpCap /\ Limiter(i).last_refill = instant
            /\ Limiter(i)'.tokens = IpCap /\ Limiter(i)'.last_refill = instant + 1
        BY <1>1, <3>3 DEF RateTick, Limiter
      <4>2. ip_rate_limit_rps * (instant - instant) = 0 /\ ip_rate_limit_rps * (instant + 1 - (instant + 1)) = 0
        BY <1>1
      <4>3. IpTokens(i) = IpCap /\ IpTokens(i)' = IpCap
        BY <1>1, <4>1, <4>2 DEF IpTokens, Refilled
      <4>4. QED
        BY <4>3
    <3>4. QED
      BY <3>2, <3>3
  <2>2. ASSUME NEW s \in 0 .. instant
        PROVE  /\ Units(IpTakenSince(i, s))' = Units(IpTakenSince(i, s))
               /\ Units(IpTakenSince(i, s)) \in Int
    <3>1. s \in Time /\ s # instant + 1
      BY <1>1 DEF Time
    <3>2. IpTakenSince(i, s)' = IpTakenSince(i, s)
      BY <3>1 DEF RateTick, IpTakenSince, RateTypeOK
    <3>3. ipTaken[i] \in Int /\ ipTakenBefore[i][s] \in Int
      BY <3>1 DEF RateTypeOK
    <3>4. IpTakenSince(i, s) \in Int
      BY <3>3 DEF IpTakenSince
    <3>5. QED
      BY <3>2, <3>4, UnitsInt DEF Units
  <2>3. ASSUME NEW s \in {instant + 1}
        PROVE  IpPotential(i, s)' = IpTokens(i)'
    <3>1. ipTaken'[i] = ipTaken[i] /\ ipTakenBefore'[i][s] = ipTaken[i] /\ ipTaken[i] \in Nat
      BY <1>1 DEF RateTick, RateTypeOK
    <3>2. IpTakenSince(i, s)' = 0
      BY <3>1 DEF IpTakenSince
    <3>3. Units(IpTakenSince(i, s))' = 0
      BY <3>2 DEF Units
    <3>4. QED
      BY <2>1, <3>3 DEF IpPotential
  <2>4. ASSUME NEW s \in 0 .. instant
        PROVE  IpPotential(i, s)' = IpPotential(i, s) + (IpTokens(i)' - IpTokens(i)) /\ IpPotential(i, s) \in Int
    BY <2>1, <2>2 DEF IpPotential
  <2>5. TtlCoversRefill => \A s \in 0 .. instant' : IpPotential(i, s)' <= IpAllowance(s)'
    <3>1. ASSUME NEW s \in 0 .. instant, TtlCoversRefill
          PROVE  IpPotential(i, s)' <= IpAllowance(s)'
      <4>1. IpPotential(i, s) <= IpAllowance(s)
        BY <3>1 DEF IpUpper
      <4>2. QED
        BY <1>2, <2>1, <2>4, <4>1
    <3>2. ASSUME NEW s \in {instant + 1}
          PROVE  IpPotential(i, s)' <= IpAllowance(s)'
      BY <1>3, <2>1, <2>3
    <3>3. \A s \in 0 .. instant' : s \in 0 .. instant \/ s \in {instant + 1}
      BY <1>1
    <3>4. QED
      BY <3>1, <3>2, <3>3
  <2>6. \E s \in 0 .. instant' : IpPotential(i, s)' >= IpAllowance(s)'
    <3>1. CASE IpTokens(i)' = IpTokens(i) + ip_rate_limit_rps
      <4>1. PICK s \in 0 .. instant : IpPotential(i, s) >= IpAllowance(s)
        BY DEF IpLower
      <4>2. IpPotential(i, s)' >= IpAllowance(s)'
        BY <1>2, <2>1, <2>4, <3>1, <4>1
      <4>3. s \in 0 .. instant'
        BY <1>1
      <4>4. QED
        BY <4>2, <4>3
    <3>2. CASE IpTokens(i)' = IpCap
      <4>1. PICK s \in {instant + 1} : TRUE
        OBVIOUS
      <4>2. IpPotential(i, s)' >= IpAllowance(s)' /\ s \in 0 .. instant'
        BY <1>1, <1>3, <2>3, <3>2
      <4>3. QED
        BY <4>2
    <3>3. QED
      BY <2>1, <3>1, <3>2
  <2>7. QED
    BY <2>5, <2>6
<1>5. QED
  BY <1>4 DEF IpUpper, IpLower

-----------------------------------------------------------------------------
(* The theorems *)

LEMMA IndInvInit == RateInit => IndInv
<1> SUFFICES ASSUME RateInit PROVE IndInv
  OBVIOUS
<1> USE RateAssumption, CapType
<1>1. RateTypeOK /\ TimeOK
  BY TypeInit
<1>2. instant = 0
  BY DEF RateInit
<1>3. ip_rate_limit_rps * (0 - 0) = 0 /\ rate_limit_rps * (0 - 0) = 0
  OBVIOUS
<1>4. \A s \in 0 .. instant : s = 0 /\ IpAllowance(s) = IpCap /\ ConnAllowance(s) = ConnCap
  BY <1>2, <1>3 DEF IpAllowance, ConnAllowance
<1>5. ASSUME NEW i \in Ips, NEW s \in 0 .. instant
      PROVE  IpPotential(i, s) = IpCap
  <2>1. Limiter(i).tokens = IpCap /\ Limiter(i).last_refill = instant
    BY DEF RateInit, Limiter
  <2>2. IpTokens(i) = IpCap
    BY <1>2, <1>3, <2>1 DEF IpTokens, Refilled
  <2>3. IpTakenSince(i, s) = 0
    BY <1>4 DEF RateInit, IpTakenSince, Time
  <2>4. QED
    BY <2>2, <2>3, UnitsZero DEF IpPotential
<1>6. ASSUME NEW c \in Links, NEW s \in 0 .. instant
      PROVE  ConnPotential(c, s) = ConnCap
  <2>1. bucket[c].tokens = ConnCap /\ bucket[c].last_refill = instant
    BY DEF RateInit
  <2>2. ConnTokens(c) = ConnCap
    BY <1>2, <1>3, <2>1 DEF ConnTokens, Refilled
  <2>3. TakenSince(c, s) = 0
    BY <1>4 DEF RateInit, TakenSince, Time
  <2>4. QED
    BY <2>2, <2>3, UnitsZero DEF ConnPotential
<1>7. IpUpper /\ ConnUpper
  BY <1>4, <1>5, <1>6 DEF IpUpper, ConnUpper
<1>8. 0 \in 0 .. instant
  BY <1>2
<1>9. IpLower /\ ConnLower
  BY <1>4, <1>5, <1>6, <1>8 DEF IpLower, ConnLower
<1>10. QED
  BY <1>1, <1>7, <1>9 DEF IndInv

LEMMA IndInvStep ==
    ASSUME IndInv, [RateNext]_rateVars
    PROVE  IndInv'
<1>1. RateTypeOK /\ TimeOK /\ (TtlCoversRefill => IpUpper) /\ ConnUpper /\ IpLower /\ ConnLower
  BY DEF IndInv
<1>2. RateTypeOK' /\ TimeOK'
  BY <1>1, TypeStep
<1>3. CASE RateTick
  <2>1. ConnUpper' /\ ConnLower'
    BY <1>1, <1>3, ConnTick
  <2>2. (TtlCoversRefill => IpUpper') /\ IpLower'
    BY <1>1, <1>3, IpTick
  <2>3. QED
    BY <1>2, <2>1, <2>2 DEF IndInv
<1>4. CASE ~RateTick
  <2>1. (\A c \in Links : ConnSteady(c)) /\ (\A i \in Ips : IpSteady(i))
    BY <1>1, <1>4, SteadyStep
  <2>2. ConnUpper' /\ ConnLower'
    BY <1>1, <2>1, SteadyConn
  <2>3. (TtlCoversRefill => IpUpper') /\ IpLower'
    BY <1>1, <2>1, SteadyIp
  <2>4. QED
    BY <1>2, <2>2, <2>3 DEF IndInv
<1>5. QED
  BY <1>3, <1>4

LEMMA IndInvAlways == RateSpec => []IndInv
<1>1. IndInv /\ [RateNext]_rateVars => IndInv'
  BY IndInvStep
<1>2. QED
  BY <1>1, IndInvInit, PTL DEF RateSpec

\* Type correctness: in particular no bucket is ever overdrawn or overfull.
THEOREM TypeCorrect == RateSpec => []RateTypeOK
<1>1. IndInv => RateTypeOK
  BY DEF IndInv
<1>2. QED
  BY <1>1, IndInvAlways, PTL

\* The per-IP limit holds over every interval and for every configuration
\* in which the TTL covers a refill, whatever connections come and go.
THEOREM IpRateCorrect == RateSpec => []IpRateBounded
<1>1. IndInv => IpRateBounded
  <2> SUFFICES ASSUME IndInv, TtlCoversRefill, NEW i \in Ips, NEW s \in 0 .. instant
               PROVE  Units(IpTakenSince(i, s)) <= IpAllowance(s)
    BY DEF IpRateBounded, Units, IpAllowance
  <2>1. RateTypeOK /\ TimeOK /\ IpPotential(i, s) <= IpAllowance(s)
    BY DEF IndInv, IpUpper
  <2>2. IpTokens(i) \in Nat /\ IpAllowance(s) \in Int
    BY <2>1, BucketFacts, PotentialType, CapType
  <2>3. Units(IpTakenSince(i, s)) \in Int
    <3>1. s \in Time
      BY <2>1, RateAssumption DEF RateTypeOK, Time
    <3>2. ipTaken[i] \in Int /\ ipTakenBefore[i][s] \in Int
      BY <2>1, <3>1 DEF RateTypeOK
    <3>3. IpTakenSince(i, s) \in Int
      BY <3>2 DEF IpTakenSince
    <3>4. QED
      BY <3>3, UnitsInt
  <2>4. QED
    BY <2>1, <2>2, <2>3 DEF IpPotential
<1>2. QED
  BY <1>1, IndInvAlways, PTL

\* The per-connection limit holds over every interval.
THEOREM ConnRateCorrect == RateSpec => []ConnRateBounded
<1>1. IndInv => ConnRateBounded
  <2> SUFFICES ASSUME IndInv, NEW c \in Links, NEW s \in 0 .. instant
               PROVE  Units(TakenSince(c, s)) <= ConnAllowance(s)
    BY DEF ConnRateBounded, Units, ConnAllowance
  <2>1. RateTypeOK /\ TimeOK /\ ConnPotential(c, s) <= ConnAllowance(s)
    BY DEF IndInv, ConnUpper
  <2>2. ConnTokens(c) \in Nat /\ ConnAllowance(s) \in Int
    BY <2>1, BucketFacts, PotentialType, CapType
  <2>3. Units(TakenSince(c, s)) \in Int
    <3>1. s \in Time
      BY <2>1, RateAssumption DEF RateTypeOK, Time
    <3>2. taken[c] \in Int /\ takenBefore[c][s] \in Int
      BY <2>1, <3>1 DEF RateTypeOK
    <3>3. TakenSince(c, s) \in Int
      BY <3>2 DEF TakenSince
    <3>4. QED
      BY <3>3, UnitsInt
  <2>4. QED
    BY <2>1, <2>2, <2>3 DEF ConnPotential
<1>2. QED
  BY <1>1, IndInvAlways, PTL

\* Nobody is closed for a rate it did not exceed, for every configuration
\* (also one whose TTL is short: forgetting a bucket is only ever generous).
THEOREM ClosesCorrect == RateSpec => ClosesOnlyExcess
<1>1. ASSUME IndInv, NEW c \in Links, IpRefuses(c)
      PROVE  IpExceeds(IpOf[c])
  <2> DEFINE i == IpOf[c]
  <2>1. RateTypeOK /\ TimeOK /\ i \in Ips
    BY <1>1, RateAssumption DEF IndInv
  <2>2. PICK s \in 0 .. instant : IpPotential(i, s) >= IpAllowance(s)
    BY <1>1, <2>1 DEF IndInv, IpLower
  <2>3. IpTokens(i) \in Int /\ IpAllowance(s) \in Int /\ IpTokens(i) < Sec
    BY <1>1, <2>1, BucketFacts, PotentialType, CapType DEF IpRefuses
  <2>4. IpTakenSince(i, s) \in Int
    <3>1. s \in Time
      BY <2>1, RateAssumption DEF RateTypeOK, Time
    <3>2. ipTaken[i] \in Int /\ ipTakenBefore[i][s] \in Int
      BY <2>1, <3>1 DEF RateTypeOK
    <3>3. QED
      BY <3>2 DEF IpTakenSince
  <2>5. /\ Units(IpTakenSince(i, s) + 1) = Units(IpTakenSince(i, s)) + Sec
        /\ Units(IpTakenSince(i, s)) \in Int
    BY <2>4, UnitsInt, UnitsSucc
  <2>6. Units(IpTakenSince(i, s) + 1) > IpAllowance(s)
    BY <2>2, <2>3, <2>5, RateAssumption DEF IpPotential
  <2>7. QED
    BY <2>6 DEF IpExceeds, Units, IpAllowance
<1>2. ASSUME IndInv, NEW c \in Links, ConnRefuses(c)
      PROVE  ConnExceeds(c)
  <2>1. RateTypeOK /\ TimeOK
    BY <1>2 DEF IndInv
  <2>2. PICK s \in 0 .. instant : ConnPotential(c, s) >= ConnAllowance(s)
    BY <1>2, <2>1 DEF IndInv, ConnLower
  <2>3. ConnTokens(c) \in Int /\ ConnAllowance(s) \in Int /\ ConnTokens(c) < Sec
    BY <1>2, <2>1, BucketFacts, PotentialType, CapType DEF ConnRefuses
  <2>4. TakenSince(c, s) \in Int
    <3>1. s \in Time
      BY <2>1, RateAssumption DEF RateTypeOK, Time
    <3>2. taken[c] \in Int /\ takenBefore[c][s] \in Int
      BY <2>1, <3>1 DEF RateTypeOK
    <3>3. QED
      BY <3>2 DEF TakenSince
  <2>5. /\ Units(TakenSince(c, s) + 1) = Units(TakenSince(c, s)) + Sec
        /\ Units(TakenSince(c, s)) \in Int
    BY <2>4, UnitsInt, UnitsSucc
  <2>6. Units(TakenSince(c, s) + 1) > ConnAllowance(s)
    BY <2>2, <2>3, <2>5, RateAssumption DEF ConnPotential
  <2>7. QED
    BY <2>6 DEF ConnExceeds, Units, ConnAllowance
<1>3. IndInv => [\A c \in Links :
                    /\ IpRefuses(c) => IpExceeds(IpOf[c])
                    /\ ConnRefuses(c) => ConnExceeds(c)]_rateVars
  BY <1>1, <1>2
<1>4. QED
  BY <1>3, IndInvAlways, PTL DEF ClosesOnlyExcess

-----------------------------------------------------------------------------
(* Authentication: what may be in the map of keys *)

Past == {"validating", "upgraded", "admitted"}

\* The parts of the type invariant that do not count anything.
AuthShape ==
    /\ keys \subseteq Keys
    /\ file \in Files
    /\ fail_closed \in BOOLEAN
    /\ reload \in [pc : {"sleep", "loaded", "stored"}, map : SUBSET Keys]
    /\ conn \in [Peers -> [pc : ConnStates, header : Keys \cup {NoKey}, hello : Keys \cup {NoKey}]]

\* What the reload task reads and holds was listed by the file.
ReloadListed ==
    /\ file # Unreadable => file \subseteq everListed
    /\ reload.map \subseteq everListed

\* The map of AUTH_KEYS, which the file may never have listed, is gone before
\* authentication opens, and so before any connection passes the header check.
KeysListed ==
    \/ keys \subseteq everListed
    \/ /\ fail_closed
       /\ reload.pc # "stored"
       /\ mode = "api_key" => \A c \in Peers : conn[c].pc \notin Past

HelloListed ==
    mode = "api_key" => \A c \in Peers : conn[c].pc = "admitted" => conn[c].hello \in everListed

AuthInv == AuthShape /\ ReloadListed /\ KeysListed /\ HelloListed

LEMMA AuthInvInit == AuthInit => AuthInv
<1> SUFFICES ASSUME AuthInit PROVE AuthInv
  OBVIOUS
<1>1. /\ file \in Files /\ fail_closed \in BOOLEAN /\ keys \subseteq Keys
      /\ fail_closed \/ (keys = file /\ file # Unreadable)
  <2>1. ASSUME NEW k, NEW l, NEW b, FromEnv(file) = [keys |-> k, last |-> l, closed |-> b]
        PROVE  keys = k /\ fail_closed = b
    BY <2>1 DEF AuthInit
  <2>2. CASE file = Unreadable
    <3>1. keys = EnvKeys /\ fail_closed = TRUE
      BY <2>1, <2>2 DEF FromEnv
    <3>2. QED
      BY <3>1, AuthAssumption DEF AuthInit
  <2>3. CASE file # Unreadable
    <3>1. keys = file /\ fail_closed = FALSE
      BY <2>1, <2>3 DEF FromEnv
    <3>2. QED
      BY <2>3, <3>1 DEF AuthInit, Files
  <2>4. QED
    BY <2>2, <2>3
<1>2. everListed = IF file = Unreadable THEN {} ELSE file
  BY DEF AuthInit
<1>3. reload.pc = "sleep" /\ reload.map = {} /\ reload \in [pc : {"sleep", "loaded", "stored"}, map : SUBSET Keys]
  BY DEF AuthInit, Resting
<1>4. /\ conn \in [Peers -> [pc : ConnStates, header : Keys \cup {NoKey}, hello : Keys \cup {NoKey}]]
      /\ \A c \in Peers : conn[c].pc = "accepted"
  BY DEF AuthInit, NewConn, ConnStates
<1>5. QED
  BY <1>1, <1>2, <1>3, <1>4 DEF AuthInv, AuthShape, ReloadListed, KeysListed, HelloListed, Past

LEMMA EditFileListed ==
    ASSUME AuthInv, NEW f \in Files, EditFile(f)
    PROVE  AuthInv'
<1>1. /\ file' = f /\ everListed' = everListed \cup (IF f = Unreadable THEN {} ELSE f)
      /\ UNCHANGED <<mode, keys, fail_closed, reload, conn>>
  BY DEF EditFile, configVars
<1>2. everListed \subseteq everListed' /\ (f # Unreadable => f \subseteq everListed')
  BY <1>1
<1>3. AuthShape'
  BY <1>1 DEF AuthInv, AuthShape
<1>4. ReloadListed'
  BY <1>1, <1>2 DEF AuthInv, ReloadListed
<1>5. KeysListed' /\ HelloListed'
  BY <1>1, <1>2 DEF AuthInv, KeysListed, HelloListed
<1>6. QED
  BY <1>3, <1>4, <1>5 DEF AuthInv

LEMMA ReloadListedStep ==
    ASSUME AuthInv, Reload
    PROVE  AuthInv'
<1>1. UNCHANGED <<mode, file, conn, everListed>>
  BY DEF Reload, LoadFile, StoreKeys, OpenAuth, configVars
<1>2. CASE LoadFile
  <2>1. /\ reload' = [pc |-> "loaded", map |-> file] /\ file # Unreadable /\ UNCHANGED <<keys, fail_closed>>
    BY <1>2 DEF LoadFile, configVars
  <2>2. file \in SUBSET Keys
    BY <2>1 DEF AuthInv, AuthShape, Files
  <2>3. /\ reload'.pc = "loaded" /\ reload'.map = file
        /\ reload' \in [pc : {"sleep", "loaded", "stored"}, map : SUBSET Keys]
    BY <2>1, <2>2
  <2>4. QED
    BY <1>1, <2>1, <2>3 DEF AuthInv, AuthShape, ReloadListed, KeysListed, HelloListed
<1>3. CASE StoreKeys
  <2>1. /\ \/ keys' = reload.map /\ reload' = [reload EXCEPT !.pc = "stored"]
           \/ keys' = keys /\ reload' = Resting
        /\ UNCHANGED fail_closed
    BY <1>3 DEF StoreKeys
  <2>2. /\ reload' \in [pc : {"sleep", "loaded", "stored"}, map : SUBSET Keys]
        /\ \/ keys' = reload.map /\ reload'.map = reload.map
           \/ keys' = keys /\ reload'.map = {} /\ reload'.pc = "sleep"
    BY <2>1 DEF Resting, AuthInv, AuthShape
  <2>3. keys' \subseteq Keys
    BY <2>2 DEF AuthInv, AuthShape
  <2>4. AuthShape' /\ ReloadListed'
    BY <1>1, <2>1, <2>2, <2>3 DEF AuthInv, AuthShape, ReloadListed
  <2>5. KeysListed'
    BY <1>1, <2>1, <2>2 DEF AuthInv, ReloadListed, KeysListed
  <2>6. QED
    BY <1>1, <2>4, <2>5 DEF AuthInv, HelloListed
<1>4. CASE OpenAuth
  <2>1. reload.pc = "stored" /\ fail_closed' = FALSE /\ reload' = Resting /\ UNCHANGED keys
    BY <1>4 DEF OpenAuth
  <2>2. /\ reload'.map = {} /\ reload' \in [pc : {"sleep", "loaded", "stored"}, map : SUBSET Keys]
        /\ fail_closed' \in BOOLEAN
    BY <2>1 DEF Resting
  <2>3. keys \subseteq everListed
    BY <2>1 DEF AuthInv, KeysListed
  <2>4. AuthShape' /\ ReloadListed'
    BY <1>1, <2>1, <2>2 DEF AuthInv, AuthShape, ReloadListed
  <2>5. KeysListed' /\ HelloListed'
    BY <1>1, <2>1, <2>3 DEF AuthInv, KeysListed, HelloListed
  <2>6. QED
    BY <2>4, <2>5 DEF AuthInv
<1>5. QED
  BY <1>2, <1>3, <1>4 DEF Reload

\* A step of one connection leaves the keys alone.
LEMMA ClientListed ==
    ASSUME AuthInv, NEW c \in Peers, NEW r \in [pc : ConnStates, header : Keys \cup {NoKey}, hello : Keys \cup {NoKey}],
           conn' = [conn EXCEPT ![c] = r], UNCHANGED <<mode, file, keys, fail_closed, reload, everListed>>,
           mode = "api_key" /\ r.pc \in Past => ~fail_closed \/ conn[c].pc \in Past,
           r.pc = "admitted" => r.hello \in keys /\ (mode = "api_key" => conn[c].pc \in Past)
    PROVE  AuthInv'
<1>1. AuthShape' /\ ReloadListed'
  BY DEF AuthInv, AuthShape, ReloadListed
<1>2. \A d \in Peers : conn'[d] = IF d = c THEN r ELSE conn[d]
  BY DEF AuthInv, AuthShape
<1>3. KeysListed'
  BY <1>2 DEF AuthInv, KeysListed
<1>4. HelloListed'
  BY <1>2 DEF AuthInv, KeysListed, HelloListed
<1>5. QED
  BY <1>1, <1>3, <1>4 DEF AuthInv

LEMMA ConnListed ==
    ASSUME AuthInv, NEW c \in Peers,
           \/ UpgradeOpen(c) \/ RefuseJwt(c) \/ CheckClosed(c) \/ ValidateHeader(c)
           \/ \E k \in Keys \cup {NoKey} : CheckEmpty(c, k) \/ RefuseEmpty(c, k)
           \/ \E k \in Keys : AuthHello(c, k)
    PROVE  AuthInv'
<1> DEFINE Row == [pc : ConnStates, header : Keys \cup {NoKey}, hello : Keys \cup {NoKey}]
<1>1. /\ UNCHANGED <<mode, file, keys, fail_closed, reload, everListed>>
      /\ conn \in [Peers -> Row] /\ conn[c] \in Row
  BY DEF AuthInv, AuthShape, UpgradeOpen, RefuseJwt, CheckClosed, ValidateHeader, CheckEmpty,
         RefuseEmpty, AuthHello, NodeUnchanged, configVars
<1>2. ASSUME NEW p \in ConnStates, Move(c, p), p # "admitted",
             mode = "api_key" /\ p \in Past => ~fail_closed \/ conn[c].pc \in Past
      PROVE  AuthInv'
  <2>1. PICK r : r = [conn[c] EXCEPT !.pc = p]
    OBVIOUS
  <2>2. r \in Row /\ r.pc = p
    BY <1>1, <2>1
  <2>3. conn' = [conn EXCEPT ![c] = r]
    BY <1>2, <2>1 DEF Move
  <2>4. QED
    BY <1>1, <1>2, <2>2, <2>3, ClientListed
<1>3. CASE UpgradeOpen(c)
  BY <1>2, <1>3 DEF UpgradeOpen, ConnStates
<1>4. CASE RefuseJwt(c)
  BY <1>2, <1>4 DEF RefuseJwt, ConnStates, Past
<1>5. CASE CheckClosed(c)
  <2>1. Move(c, "refused") \/ (Move(c, "validating") /\ ~fail_closed)
    <3>1. CASE fail_closed \/ conn[c].header = NoKey
      BY <1>5, <3>1 DEF CheckClosed
    <3>2. CASE ~(fail_closed \/ conn[c].header = NoKey)
      BY <1>5, <3>2 DEF CheckClosed
    <3>3. QED
      BY <3>1, <3>2
  <2>2. QED
    BY <1>2, <2>1 DEF ConnStates, Past
<1>6. CASE ValidateHeader(c)
  BY <1>2, <1>6 DEF ValidateHeader, ConnStates, Past
<1>7. ASSUME NEW k \in Keys \cup {NoKey}, CheckEmpty(c, k) \/ RefuseEmpty(c, k)
      PROVE  AuthInv'
  <2>1. PICK p \in {"checked", "refused"} : conn' = [conn EXCEPT ![c].pc = p, ![c].header = k]
    BY <1>7 DEF CheckEmpty, RefuseEmpty
  <2>2. PICK r : r = [conn[c] EXCEPT !.pc = p, !.header = k]
    OBVIOUS
  <2>3. r \in Row /\ r.pc = p
    BY <1>1, <2>1, <2>2 DEF ConnStates
  <2>4. conn' = [conn EXCEPT ![c] = r]
    BY <1>1, <2>1, <2>2
  <2>5. QED
    BY <1>1, <2>1, <2>3, <2>4, ClientListed DEF Past
<1>8. ASSUME NEW k \in Keys, AuthHello(c, k)
      PROVE  AuthInv'
  <2>1. PICK p \in {"admitted", "unauthorized"} :
            /\ conn' = [conn EXCEPT ![c].pc = p, ![c].hello = k]
            /\ p = "admitted" => k \in keys
            /\ conn[c].pc = "upgraded"
    BY <1>8 DEF AuthHello
  <2>2. PICK r : r = [conn[c] EXCEPT !.pc = p, !.hello = k]
    OBVIOUS
  <2>3. r \in Row /\ r.pc = p /\ r.hello = k
    BY <1>1, <2>1, <2>2 DEF ConnStates
  <2>4. conn' = [conn EXCEPT ![c] = r]
    BY <1>1, <2>1, <2>2
  <2>5. QED
    BY <1>1, <2>1, <2>3, <2>4, ClientListed DEF Past
<1>9. QED
  BY <1>3, <1>4, <1>5, <1>6, <1>7, <1>8

LEMMA AuthInvStep == AuthInv /\ [AuthNext]_authVars => AuthInv'
<1> SUFFICES ASSUME AuthInv, [AuthNext]_authVars PROVE AuthInv'
  OBVIOUS
<1>1. CASE UNCHANGED authVars
  BY <1>1 DEF authVars, configVars, AuthInv, AuthShape, ReloadListed, KeysListed, HelloListed
<1>2. QED
  BY <1>1, EditFileListed, ReloadListedStep, ConnListed DEF AuthNext

\* A node that was started with an unreadable key file honours no key of
\* AUTH_KEYS (from_env, start_reload_task, authenticate_header,
\* perform_handshake), whatever the order of edits, reloads and handshakes.
THEOREM KeysMustBeListed == AuthSpec => []OnlyListedKeysAdmitted
<1>1. AuthInv => OnlyListedKeysAdmitted
  BY DEF AuthInv, HelloListed, OnlyListedKeysAdmitted, Admitted
<1>2. QED
  BY <1>1, AuthInvInit, AuthInvStep, PTL DEF AuthSpec

-----------------------------------------------------------------------------
(* The example server: one client's rate limit                               *)
(*                                                                           *)
(* h is the number of its messages handled up to time t, hb[a] the number of *)
(* those before time a.                                                      *)

\* A client without an entry has had its last window swept, which is not before
\* a whole window has passed without a message.
Rested(h, hb, t) ==
    /\ hb[t] = h
    /\ \A a \in 0 .. t : a + Window >= t => hb[a] = h

\* What was handled before s, and within reach of a stretch that holds s.
Earlier(hb, s, k) == \A a \in 0 .. s - 1 : a + Window >= s => hb[s] - hb[a] <= k

\* An entry with n counted messages whose window began at time s.  Either the
\* entry was created then, its first message is not counted and there is no
\* earlier window within reach; or the window follows another one, whose part
\* within reach is within the limit.  Nothing was handled after the window.
InWindow(h, hb, t, s, n) ==
    /\ s \in 0 .. t /\ n \in 0 .. Limit
    /\ \A a \in s + 1 .. t : h - hb[a] <= n
    /\ \/ h - hb[s] <= n + 1 /\ Earlier(hb, s, 0)
       \/ h - hb[s] <= n /\ Earlier(hb, s, Limit)
    /\ \A b \in s + Window + 1 .. t : hb[b] = h

\* The stretches that are over.
Settled(hb, t) ==
    \A a \in 0 .. t : a + Window + 1 <= t => hb[a + Window + 1] - hb[a] <= 2 * Limit

EntryOK(h, hb, t, e) ==
    IF e = None THEN Rested(h, hb, t)
    ELSE e \in [count : 0 .. Limit, resetAt : Nat] /\ InWindow(h, hb, t, e.resetAt - Window, e.count)

Counts == [0 .. MaxClock -> Nat]

LEMMA FirstMessage ==
    ASSUME NEW h \in Nat, NEW hb \in Counts, NEW t \in 0 .. MaxClock, Rested(h, hb, t)
    PROVE  InWindow(h + 1, hb, t, t, 0)
  BY MinimalServerAssumption DEF Rested, InWindow, Earlier, Counts

LEMMA NextWindow ==
    ASSUME NEW h \in Nat, NEW hb \in Counts, NEW t \in 0 .. MaxClock, NEW s \in Nat, NEW n \in Nat,
           InWindow(h, hb, t, s, n), s + Window < t
    PROVE  InWindow(h + 1, hb, t, t, 1)
  <1>1. hb[t] = h /\ s \in 0 .. t /\ n \in 0 .. Limit
    BY MinimalServerAssumption DEF InWindow
  <1>2. Earlier(hb, t, Limit)
    <2> SUFFICES ASSUME NEW a \in 0 .. t - 1, a + Window >= t PROVE hb[t] - hb[a] <= Limit
      BY DEF Earlier
    <2>1. a \in s + 1 .. t /\ hb[a] \in Nat
      BY <1>1, MinimalServerAssumption DEF Counts
    <2>2. h - hb[a] <= n
      BY <2>1 DEF InWindow
    <2> QED
      BY <1>1, <2>1, <2>2, MinimalServerAssumption
  <1> QED
    BY <1>1, <1>2, MinimalServerAssumption DEF InWindow, Counts

LEMMA CountedMessage ==
    ASSUME NEW h \in Nat, NEW hb \in Counts, NEW t \in 0 .. MaxClock, NEW s \in Nat, NEW n \in Nat,
           InWindow(h, hb, t, s, n), t <= s + Window, n < Limit
    PROVE  InWindow(h + 1, hb, t, s, n + 1)
  BY MinimalServerAssumption DEF InWindow, Earlier, Counts

LEMMA SweptWindow ==
    ASSUME NEW h \in Nat, NEW hb \in Counts, NEW t \in 0 .. MaxClock, NEW s \in Nat, NEW n \in Nat,
           InWindow(h, hb, t, s, n), s + Window + Grace < t
    PROVE  Rested(h, hb, t)
  <1>1. hb[t] = h /\ s \in 0 .. t
    BY MinimalServerAssumption DEF InWindow
  <1>2. ASSUME NEW a \in 0 .. t, a + Window >= t PROVE hb[a] = h
    <2>1. a \in s + Window + 1 .. t
      BY <1>1, <1>2, MinimalServerAssumption
    <2> QED
      BY <2>1 DEF InWindow
  <1> QED
    BY <1>1, <1>2 DEF Rested

\* A stretch that reaches the present holds at most two windows' worth.
LEMMA RecentBounded ==
    ASSUME NEW h \in Nat, NEW hb \in Counts, NEW t \in 0 .. MaxClock, NEW e, EntryOK(h, hb, t, e),
           NEW a \in 0 .. t, a + Window >= t
    PROVE  h - hb[a] <= 2 * Limit
  <1>1. hb[a] \in Nat /\ Limit \in Nat \ {0} /\ Window \in Nat
    BY MinimalServerAssumption DEF Counts
  <1>2. CASE e = None
    <2>1. hb[a] = h
      BY <1>2 DEF EntryOK, Rested
    <2> QED
      BY <1>1, <2>1
  <1>3. CASE e # None
    <2>1. PICK s, n : InWindow(h, hb, t, s, n)
      BY <1>3 DEF EntryOK
    <2>2. /\ s \in 0 .. t /\ n \in 0 .. Limit /\ hb[s] \in Nat
          /\ \/ h - hb[s] <= n + 1 /\ Earlier(hb, s, 0)
             \/ h - hb[s] <= n /\ Earlier(hb, s, Limit)
      BY <2>1, MinimalServerAssumption DEF InWindow, Counts
    <2>3. CASE a \in s + 1 .. t
      BY <1>1, <2>1, <2>2, <2>3 DEF InWindow
    <2>4. CASE a = s
      BY <1>1, <2>2, <2>4
    <2>5. CASE a \in 0 .. s - 1
      <3>1. CASE h - hb[s] <= n + 1 /\ Earlier(hb, s, 0)
        BY <1>1, <2>2, <2>5, <3>1 DEF Earlier
      <3>2. CASE h - hb[s] <= n /\ Earlier(hb, s, Limit)
        BY <1>1, <2>2, <2>5, <3>2 DEF Earlier
      <3> QED
        BY <2>2, <3>1, <3>2
    <2> QED
      BY <2>2, <2>3, <2>4, <2>5
  <1> QED
    BY <1>2, <1>3

\* The clock moves on: what was handled so far was handled before t + 1.
LEMMA ClockMoves ==
    ASSUME NEW h \in Nat, NEW hb \in Counts, NEW t \in 0 .. MaxClock, NEW e, EntryOK(h, hb, t, e),
           Settled(hb, t), t + 1 <= MaxClock, NEW nb, nb = [hb EXCEPT ![t + 1] = h]
    PROVE  nb \in Counts /\ EntryOK(h, nb, t + 1, e) /\ Settled(nb, t + 1)
  <1>1. /\ nb \in Counts /\ nb[t + 1] = h
        /\ \A a \in 0 .. t : nb[a] = hb[a] /\ nb[a] \in Nat
    BY MinimalServerAssumption DEF Counts
  <1>2. Settled(nb, t + 1)
    <2> SUFFICES ASSUME NEW a \in 0 .. t + 1, a + Window + 1 <= t + 1
                 PROVE  nb[a + Window + 1] - nb[a] <= 2 * Limit
      BY DEF Settled
    <2>1. a \in 0 .. t /\ Window \in Nat
      BY MinimalServerAssumption
    <2>2. CASE a + Window + 1 <= t
      BY <1>1, <2>1, <2>2 DEF Settled
    <2>3. CASE a + Window + 1 = t + 1
      <3>1. a + Window >= t
        BY <2>1, <2>3
      <3>2. h - hb[a] <= 2 * Limit
        BY <2>1, <3>1, RecentBounded
      <3> QED
        BY <1>1, <2>1, <2>3, <3>2
    <2> QED
      BY <2>1, <2>2, <2>3
  <1>3. CASE e = None
    <2>1. Rested(h, nb, t + 1)
      BY <1>1, <1>3, MinimalServerAssumption DEF EntryOK, Rested
    <2> QED
      BY <1>1, <1>2, <1>3, <2>1 DEF EntryOK
  <1>4. CASE e # None
    <2>1. PICK s, n : s = e.resetAt - Window /\ n = e.count /\ InWindow(h, hb, t, s, n)
      BY <1>4 DEF EntryOK
    <2>2. s \in 0 .. t /\ n \in 0 .. Limit /\ Window \in Nat
      BY <2>1, MinimalServerAssumption DEF InWindow
    <2>3. /\ s \in 0 .. t + 1
          /\ \A a \in s + 1 .. t + 1 : h - nb[a] <= n
      <3>1. ASSUME NEW a \in s + 1 .. t + 1 PROVE h - nb[a] <= n
        <4>1. CASE a = t + 1
          BY <1>1, <2>2, <4>1
        <4>2. CASE a \in s + 1 .. t
          BY <1>1, <2>1, <2>2, <4>2 DEF InWindow
        <4> QED
          BY <2>2, <4>1, <4>2
      <3> QED
        BY <2>2, <3>1
    <2>4. \/ h - nb[s] <= n + 1 /\ Earlier(nb, s, 0)
          \/ h - nb[s] <= n /\ Earlier(nb, s, Limit)
      BY <1>1, <2>1, <2>2 DEF InWindow, Earlier
    <2>5. \A b \in s + Window + 1 .. t + 1 : nb[b] = h
      <3> SUFFICES ASSUME NEW b \in s + Window + 1 .. t + 1 PROVE nb[b] = h
        OBVIOUS
      <3>1. CASE b = t + 1
        BY <1>1, <3>1
      <3>2. CASE b \in s + Window + 1 .. t
        BY <1>1, <2>1, <2>2, <3>2 DEF InWindow
      <3> QED
        BY <2>2, <3>1, <3>2
    <2>6. InWindow(h, nb, t + 1, s, n)
      BY <2>2, <2>3, <2>4, <2>5 DEF InWindow
    <2> QED
      BY <1>1, <1>2, <1>4, <2>1, <2>6 DEF EntryOK
  <1> QED
    BY <1>3, <1>4

-----------------------------------------------------------------------------
(* The example server: the inductive invariant *)

ServerShape ==
    /\ clock \in 0 .. MaxClock /\ sweepIn \in 0 .. Period
    /\ issued \in 0 .. MaxThreads
    /\ sessions \in [Sockets -> {None} \cup [client : Clients, thread : Ids]]
    /\ handled \in [Clients -> Nat]
    /\ handledBefore \in [Clients -> Counts]
    /\ rateLimit = [c \in Clients |-> rateLimit[c]]

RateInv ==
    \A c \in Clients : /\ EntryOK(handled[c], handledBefore[c], clock, rateLimit[c])
                       /\ Settled(handledBefore[c], clock)

\* A stored thread was seen when it was last touched, and was not idle for too
\* long at the last sweep; one that is gone was.
ThreadOK(t) ==
    /\ touched[t] \in 0 .. clock
    /\ threads[t] \in {None, touched[t]}
    /\ threads[t] = None => touched[t] + Ttl < clock
    /\ threads[t] # None => clock + sweepIn <= touched[t] + Ttl + Period

ThreadInv ==
    /\ DOMAIN threads = Ids /\ DOMAIN touched = Ids
    /\ \A t \in 1 .. issued : ThreadOK(t)

ServerInv == ServerShape /\ RateInv /\ ThreadInv

LEMMA ServerInvInit == ServerInit => ServerInv
  <1> SUFFICES ASSUME ServerInit PROVE ServerInv
    OBVIOUS
  <1>1. ServerShape
    BY MinimalServerAssumption DEF ServerInit, ServerShape, Counts
  <1>2. ThreadInv
    BY DEF ServerInit, ThreadInv
  <1>3. ASSUME NEW c \in Clients
        PROVE  /\ EntryOK(handled[c], handledBefore[c], clock, rateLimit[c])
               /\ Settled(handledBefore[c], clock)
    <2>1. /\ clock = 0 /\ rateLimit[c] = None /\ handled[c] = 0
          /\ \A a \in 0 .. MaxClock : handledBefore[c][a] = 0
      BY DEF ServerInit
    <2>2. Rested(handled[c], handledBefore[c], clock)
      BY <2>1, MinimalServerAssumption DEF Rested
    <2>3. Settled(handledBefore[c], clock)
      BY <2>1, MinimalServerAssumption DEF Settled
    <2> QED
      BY <2>1, <2>2, <2>3 DEF EntryOK
  <1> QED
    BY <1>1, <1>2, <1>3 DEF ServerInv, RateInv

\* The client that a message is charged to.
LEMMA ChargedClient ==
    ASSUME ServerShape, NEW s \in Sockets, NEW c \in Clients
    PROVE  Charged(s, c) \in Clients
  BY DEF ServerShape, Charged

\* An entry that checkRateLimit has made or changed.
LEMMA EntryMade ==
    ASSUME NEW n \in 0 .. Limit, NEW r \in Nat, NEW e, e = [count |-> n, resetAt |-> r]
    PROVE  e # None /\ e.count = n /\ e.resetAt = r /\ e \in [count : 0 .. Limit, resetAt : Nat]
  BY MinimalServerAssumption

LEMMA HandledRate ==
    ASSUME ServerShape, RateInv, NEW c \in Clients, Handle(c)
    PROVE  RateInv' /\ handled' \in [Clients -> Nat]
  <1>1. /\ rateLimit' = [rateLimit EXCEPT ![c] = Counted(c)]
        /\ handled' = [handled EXCEPT ![c] = handled[c] + 1]
        /\ UNCHANGED <<clock, handledBefore>> /\ Allowed(c)
    BY DEF Handle, ServerTime, ServerShape
  <1>2. PICK h, hb, t, e, m : h = handled[c] /\ hb = handledBefore[c] /\ t = clock /\ e = rateLimit[c] /\ m = Counted(c)
    OBVIOUS
  <1>3. /\ h \in Nat /\ hb \in Counts /\ t \in 0 .. MaxClock /\ t \in Nat
        /\ EntryOK(h, hb, t, e) /\ Limit \in Nat \ {0} /\ Window \in Nat
    BY <1>2, MinimalServerAssumption DEF ServerShape, RateInv
  <1>4. EntryOK(h + 1, hb, t, m)
    <2>1. CASE e = None
      <3>1. InWindow(h + 1, hb, t, t, 0)
        BY <1>3, <2>1, FirstMessage DEF EntryOK
      <3>2. m = [count |-> 0, resetAt |-> t + Window]
        BY <1>2, <2>1 DEF Counted
      <3>3. m # None /\ m.count = 0 /\ m.resetAt = t + Window /\ m \in [count : 0 .. Limit, resetAt : Nat]
        BY <1>3, <3>2, EntryMade
      <3>4. m.resetAt - Window = t
        BY <1>3, <3>3
      <3> QED
        BY <3>1, <3>3, <3>4 DEF EntryOK
    <2>2. CASE e # None
      <3>1. e \in [count : 0 .. Limit, resetAt : Nat] /\ InWindow(h, hb, t, e.resetAt - Window, e.count)
        BY <1>3, <2>2 DEF EntryOK
      <3>2. PICK s, n : s = e.resetAt - Window /\ n = e.count
        OBVIOUS
      <3>3. /\ e.resetAt \in Nat /\ e.count \in 0 .. Limit /\ s \in Nat /\ n \in Nat
            /\ e.resetAt = s + Window /\ InWindow(h, hb, t, s, n)
        BY <1>3, <3>1, <3>2 DEF InWindow
      <3>4. CASE t > e.resetAt
        <4>1. Current(c) = [count |-> 0, resetAt |-> t + Window]
          BY <1>2, <3>4 DEF Current
        <4>2. m = [count |-> 1, resetAt |-> t + Window]
          BY <1>2, <1>3, <2>2, <4>1 DEF Counted
        <4>3. m # None /\ m.count = 1 /\ m.resetAt = t + Window /\ m \in [count : 0 .. Limit, resetAt : Nat]
          BY <1>3, <4>2, EntryMade
        <4>4. m.resetAt - Window = t
          BY <1>3, <4>3
        <4>5. InWindow(h + 1, hb, t, t, 1)
          BY <1>3, <3>3, <3>4, NextWindow
        <4> QED
          BY <4>3, <4>4, <4>5 DEF EntryOK
      <3>5. CASE ~(t > e.resetAt)
        <4>1. Current(c) = e
          BY <1>2, <3>5 DEF Current
        <4>2. n < Limit
          BY <1>1, <1>2, <2>2, <3>2, <4>1 DEF Allowed
        <4>3. m = [e EXCEPT !.count = n + 1]
          BY <1>2, <2>2, <3>2, <4>1, <4>2 DEF Counted
        <4>4. e = [count |-> n, resetAt |-> e.resetAt]
          BY <3>1, <3>2
        <4>5. m = [count |-> n + 1, resetAt |-> e.resetAt]
          BY <4>3, <4>4
        <4>6. n + 1 \in 0 .. Limit
          BY <1>3, <3>3, <4>2
        <4>7. m # None /\ m.count = n + 1 /\ m.resetAt = e.resetAt /\ m \in [count : 0 .. Limit, resetAt : Nat]
          BY <3>3, <4>5, <4>6, EntryMade
        <4>8. InWindow(h + 1, hb, t, s, n + 1)
          BY <1>3, <3>3, <3>5, <4>2, CountedMessage
        <4> QED
          BY <3>2, <4>7, <4>8 DEF EntryOK
      <3> QED
        BY <3>4, <3>5
    <2> QED
      BY <2>1, <2>2
  <1>5. /\ handled' \in [Clients -> Nat]
        /\ \A d \in Clients : d # c => handled'[d] = handled[d] /\ rateLimit'[d] = rateLimit[d]
        /\ handled'[c] = h + 1 /\ rateLimit'[c] = m
    BY <1>1, <1>2, <1>3 DEF ServerShape
  <1>6. ASSUME NEW d \in Clients
        PROVE  EntryOK(handled'[d], handledBefore'[d], clock', rateLimit'[d]) /\ Settled(handledBefore'[d], clock')
    <2>1. CASE d = c
      BY <1>1, <1>2, <1>4, <1>5, <2>1 DEF RateInv
    <2>2. CASE d # c
      BY <1>1, <1>5, <2>2 DEF RateInv
    <2> QED
      BY <2>1, <2>2
  <1>7. RateInv'
    BY <1>6 DEF RateInv, EntryOK, Rested, InWindow, Earlier, Settled
  <1> QED
    BY <1>5, <1>7

\* A message over the limit leaves the entry as it is.
LEMMA LimitedRate ==
    ASSUME ServerShape, RateInv, NEW c \in Clients, Limited(c)
    PROVE  rateLimit' = rateLimit
  <1>1. rateLimit' = [rateLimit EXCEPT ![c] = Counted(c)] /\ ~Allowed(c)
    BY DEF Limited
  <1>2. PICK e : e = rateLimit[c]
    OBVIOUS
  <1>3. e # None /\ ~(Current(c).count < Limit)
    BY <1>1, <1>2 DEF Allowed
  <1>4. e \in [count : 0 .. Limit, resetAt : Nat]
    BY <1>2, <1>3 DEF RateInv, EntryOK
  <1>5. Current(c) = e
    <2>1. Current(c) = [count |-> 0, resetAt |-> clock + Window] => FALSE
      BY <1>3, MinimalServerAssumption
    <2> QED
      BY <1>2, <2>1 DEF Current
  <1>6. Counted(c) = [e EXCEPT !.count = e.count]
    BY <1>2, <1>3, <1>5 DEF Counted
  <1>7. Counted(c) = e
    BY <1>4, <1>6
  <1> QED
    BY <1>1, <1>2, <1>7 DEF ServerShape

\* A thread that was just created, resumed or updated.
LEMMA SeenThread ==
    ASSUME ServerShape, NEW t \in Ids, touched'[t] = clock, threads'[t] = clock,
           UNCHANGED <<clock, sweepIn>>
    PROVE  ThreadOK(t)'
  <1>1. clock \in Nat /\ sweepIn \in 0 .. Period /\ Ttl \in Nat /\ Period \in Nat /\ None # clock
    BY MinimalServerAssumption DEF ServerShape
  <1> QED
    BY <1>1 DEF ThreadOK

\* A message touches at most the thread t.
LEMMA OneThread ==
    ASSUME ServerShape, ThreadInv, NEW t \in Ids, UNCHANGED <<clock, sweepIn>>,
           \A u \in 1 .. issued' : u # t => u \in 1 .. issued,
           \/ UNCHANGED <<threads, touched, issued>>
           \/ threads' = See(threads, t) /\ touched' = See(touched, t)
    PROVE  ThreadInv'
  <1>1. CASE UNCHANGED <<threads, touched, issued>>
    BY <1>1 DEF ThreadInv, ThreadOK
  <1>2. CASE threads' = See(threads, t) /\ touched' = See(touched, t)
    <2>1. /\ DOMAIN threads' = Ids /\ DOMAIN touched' = Ids
          /\ touched'[t] = clock /\ threads'[t] = clock
          /\ \A u \in Ids : u # t => touched'[u] = touched[u] /\ threads'[u] = threads[u]
      BY <1>2 DEF ThreadInv, See
    <2>2. ThreadOK(t)'
      BY <2>1, SeenThread
    <2>3. ASSUME NEW u \in 1 .. issued', u # t PROVE ThreadOK(u)'
      <3>1. u \in 1 .. issued /\ u \in Ids
        BY <2>3, MinimalServerAssumption DEF ServerShape, Ids
      <3> QED
        BY <2>1, <2>3, <3>1 DEF ThreadInv, ThreadOK
    <2> QED
      BY <2>1, <2>2, <2>3 DEF ThreadInv
  <1> QED
    BY <1>1, <1>2

LEMMA MessageStep ==
    ASSUME ServerInv, NEW s \in Sockets, NEW c \in Clients, HandleMessage(s, c)
    PROVE  ServerInv'
  <1>1. /\ ServerShape /\ RateInv /\ ThreadInv
        /\ MaxThreads \in Nat /\ issued \in 0 .. MaxThreads
    BY MinimalServerAssumption DEF ServerInv, ServerShape
  <1>2. PICK d : d = Charged(s, c)
    OBVIOUS
  <1>3. d \in Clients
    BY <1>1, <1>2, ChargedClient
  <1>4. CASE HandshakeInit(s, c)
    <2>1. /\ issued < MaxThreads /\ issued' = issued + 1
          /\ threads' = See(threads, issued + 1) /\ touched' = See(touched, issued + 1)
          /\ sessions' = [sessions EXCEPT ![s] = [client |-> c, thread |-> issued + 1]]
          /\ UNCHANGED <<clock, sweepIn, rateLimit, handled, handledBefore>>
      BY <1>4 DEF HandshakeInit, ServerTime
    <2>2. issued + 1 \in Ids /\ issued' \in 0 .. MaxThreads
      BY <1>1, <2>1 DEF Ids
    <2>3. ServerShape'
      BY <1>1, <2>1, <2>2 DEF ServerShape
    <2>4. RateInv'
      BY <1>1, <2>1 DEF RateInv, EntryOK, Rested, InWindow, Earlier, Settled
    <2>5. ThreadInv'
      <3>1. \A u \in 1 .. issued' : u # issued + 1 => u \in 1 .. issued
        BY <1>1, <2>1
      <3> QED
        BY <1>1, <2>1, <2>2, <3>1, OneThread
    <2> QED
      BY <2>3, <2>4, <2>5 DEF ServerInv
  <1>5. CASE Limited(d)
    <2>1. UNCHANGED <<clock, sweepIn, sessions, threads, issued, handled, handledBefore, touched>>
      BY <1>5 DEF Limited, ServerTime
    <2>2. UNCHANGED rateLimit
      BY <1>1, <1>3, <1>5, LimitedRate
    <2> QED
      BY <1>1, <2>1, <2>2 DEF ServerInv, ServerShape, RateInv, EntryOK, Rested, InWindow, Earlier, Settled,
                              ThreadInv, ThreadOK
  <1>6. ASSUME Handle(d), NEW t \in Ids, t <= issued,
               sessions' \in [Sockets -> {None} \cup [client : Clients, thread : Ids]],
               \/ UNCHANGED <<threads, touched>>
               \/ threads' = See(threads, t) /\ touched' = See(touched, t)
        PROVE  ServerInv'
    <2>1. /\ UNCHANGED <<clock, sweepIn, issued, handledBefore>>
          /\ rateLimit' = [rateLimit EXCEPT ![d] = Counted(d)]
      BY <1>6 DEF Handle, ServerTime
    <2>2. RateInv' /\ handled' \in [Clients -> Nat]
      BY <1>1, <1>3, <1>6, HandledRate
    <2>3. ServerShape'
      <3>1. rateLimit' = [x \in Clients |-> rateLimit'[x]]
        BY <1>1, <2>1 DEF ServerShape
      <3> QED
        BY <1>1, <1>6, <2>1, <2>2, <3>1 DEF ServerShape
    <2>4. ThreadInv'
      BY <1>1, <1>6, <2>1, OneThread
    <2> QED
      BY <2>2, <2>3, <2>4 DEF ServerInv
  <1>7. CASE OtherMessage(s, c)
    <2>1. CASE Handle(d) /\ UNCHANGED <<sessions, threads, touched>>
      <3>1. /\ UNCHANGED <<clock, sweepIn, issued, handledBefore>>
            /\ rateLimit' = [rateLimit EXCEPT ![d] = Counted(d)]
        BY <2>1 DEF Handle, ServerTime
      <3>2. RateInv' /\ handled' \in [Clients -> Nat]
        BY <1>1, <1>3, <2>1, HandledRate
      <3>3. ServerShape'
        <4>1. rateLimit' = [x \in Clients |-> rateLimit'[x]]
          BY <1>1, <3>1 DEF ServerShape
        <4> QED
          BY <1>1, <2>1, <3>1, <3>2, <4>1 DEF ServerShape
      <3>4. ThreadInv'
        BY <1>1, <2>1, <3>1 DEF ThreadInv, ThreadOK
      <3> QED
        BY <3>2, <3>3, <3>4 DEF ServerInv
    <2> QED
      BY <1>2, <1>5, <1>7, <2>1 DEF OtherMessage
  <1>8. ASSUME NEW t \in Ids, HandshakeResume(s, c, t)
        PROVE  ServerInv'
    <2>1. t <= issued /\ (Limited(d) \/ (Handle(d) /\ ~Limited(d)))
      BY <1>2, <1>8 DEF HandshakeResume
    <2>2. CASE Handle(d) /\ ~Limited(d)
      <3>1. \/ UNCHANGED <<threads, touched, sessions>>
            \/ /\ threads' = See(threads, t) /\ touched' = See(touched, t)
               /\ sessions' = [sessions EXCEPT ![s] = [client |-> c, thread |-> t]]
        BY <1>2, <1>8, <2>2 DEF HandshakeResume, ResumeThread
      <3>2. sessions' \in [Sockets -> {None} \cup [client : Clients, thread : Ids]]
        BY <1>1, <3>1 DEF ServerShape
      <3> QED
        BY <1>6, <2>1, <2>2, <3>1, <3>2
    <2> QED
      BY <1>5, <2>1, <2>2
  <1>9. ASSUME NEW t \in Ids, StateUpdate(s, c, t)
        PROVE  ServerInv'
    <2>1. t <= issued /\ (Limited(d) \/ (Handle(d) /\ ~Limited(d)))
      BY <1>2, <1>9 DEF StateUpdate
    <2>2. CASE Handle(d) /\ ~Limited(d)
      <3>1. /\ \/ UNCHANGED <<threads, touched>>
               \/ threads' = See(threads, t) /\ touched' = See(touched, t)
            /\ UNCHANGED sessions
        BY <1>2, <1>9, <2>2 DEF StateUpdate, UpdateThreadState
      <3>2. sessions' \in [Sockets -> {None} \cup [client : Clients, thread : Ids]]
        BY <1>1, <3>1 DEF ServerShape
      <3> QED
        BY <1>6, <2>1, <2>2, <3>1, <3>2
    <2> QED
      BY <1>5, <2>1, <2>2
  <1> QED
    BY <1>4, <1>7, <1>8, <1>9 DEF HandleMessage

LEMMA SweepStep == ASSUME ServerInv, Sweep PROVE ServerInv'
  <1>1. /\ sweepIn = 0 /\ sweepIn' = Period
        /\ threads' = [t \in Ids |-> SweptThread(t)] /\ rateLimit' = [c \in Clients |-> SweptRate(c)]
        /\ UNCHANGED <<clock, sessions, issued, handled, handledBefore, touched>>
    BY DEF Sweep
  <1>2. ServerShape /\ RateInv /\ ThreadInv /\ clock \in Nat /\ Period \in Nat /\ Ttl \in Nat /\ Grace \in Nat /\ Window \in Nat
    BY MinimalServerAssumption DEF ServerInv, ServerShape
  <1>3. ServerShape'
    BY <1>1, <1>2 DEF ServerShape
  <1>4. ASSUME NEW t \in 1 .. issued PROVE ThreadOK(t)'
    <2>1. t \in Ids /\ ThreadOK(t)
      BY <1>2, MinimalServerAssumption DEF ServerShape, ThreadInv, Ids
    <2>2. threads'[t] = IF threads[t] # None /\ threads[t] + Ttl < clock THEN None ELSE threads[t]
      BY <1>1, <2>1 DEF SweptThread
    <2>3. touched'[t] = touched[t] /\ touched[t] \in 0 .. clock /\ clock' = clock
      BY <1>1, <2>1 DEF ThreadOK
    <2>4. CASE threads[t] = None
      BY <1>1, <1>2, <2>1, <2>2, <2>3, <2>4 DEF ThreadOK
    <2>5. CASE threads[t] # None
      <3>1. threads[t] = touched[t]
        BY <2>1, <2>5 DEF ThreadOK
      <3>2. CASE touched[t] + Ttl < clock
        <4>1. threads'[t] = None
          BY <2>2, <2>5, <3>1, <3>2
        <4> QED
          BY <2>3, <3>2, <4>1 DEF ThreadOK
      <3>3. CASE ~(touched[t] + Ttl < clock)
        <4>1. threads'[t] = touched[t] /\ threads'[t] # None
          BY <2>2, <2>5, <3>1, <3>3
        <4> QED
          BY <1>1, <1>2, <2>3, <3>3, <4>1 DEF ThreadOK
      <3> QED
        BY <3>2, <3>3
    <2> QED
      BY <2>4, <2>5
  <1>5. ThreadInv'
    BY <1>1, <1>2, <1>4 DEF ThreadInv
  <1>6. ASSUME NEW c \in Clients
        PROVE  EntryOK(handled[c], handledBefore[c], clock, rateLimit'[c])
    <2>1. /\ EntryOK(handled[c], handledBefore[c], clock, rateLimit[c])
          /\ handled[c] \in Nat /\ handledBefore[c] \in Counts /\ clock \in 0 .. MaxClock
      BY <1>2 DEF RateInv, ServerShape
    <2>2. rateLimit'[c] = IF rateLimit[c] # None /\ rateLimit[c].resetAt + Grace < clock THEN None ELSE rateLimit[c]
      BY <1>1 DEF SweptRate
    <2>3. CASE rateLimit[c] # None /\ rateLimit[c].resetAt + Grace < clock
      <3>1. /\ rateLimit[c] \in [count : 0 .. Limit, resetAt : Nat]
            /\ InWindow(handled[c], handledBefore[c], clock, rateLimit[c].resetAt - Window, rateLimit[c].count)
        BY <2>1, <2>3 DEF EntryOK
      <3>2. PICK s, n : s = rateLimit[c].resetAt - Window /\ n = rateLimit[c].count
        OBVIOUS
      <3>3. InWindow(handled[c], handledBefore[c], clock, s, n)
        BY <3>1, <3>2
      <3>4. s \in Nat /\ n \in Nat /\ rateLimit[c].resetAt \in Nat
        BY <1>2, <3>1, <3>3, MinimalServerAssumption DEF InWindow
      <3>5. s + Window + Grace < clock
        BY <1>2, <2>3, <3>2, <3>4
      <3>6. Rested(handled[c], handledBefore[c], clock)
        BY <2>1, <3>3, <3>4, <3>5, SweptWindow
      <3> QED
        BY <2>2, <2>3, <3>6 DEF EntryOK
    <2>4. CASE ~(rateLimit[c] # None /\ rateLimit[c].resetAt + Grace < clock)
      BY <2>1, <2>2, <2>4
    <2> QED
      BY <2>3, <2>4
  <1>7. RateInv'
    <2>1. \A c \in Clients : EntryOK(handled'[c], handledBefore'[c], clock', rateLimit'[c]) /\ Settled(handledBefore'[c], clock')
      BY <1>1, <1>2, <1>6 DEF RateInv
    <2> QED
      BY <2>1 DEF RateInv, EntryOK, Rested, InWindow, Earlier, Settled
  <1> QED
    BY <1>3, <1>5, <1>7 DEF ServerInv

LEMMA TickStep == ASSUME ServerInv, ServerTick PROVE ServerInv'
  <1>1. /\ clock < MaxClock /\ sweepIn > 0 /\ clock' = clock + 1 /\ sweepIn' = sweepIn - 1
        /\ handledBefore' = [c \in Clients |-> [handledBefore[c] EXCEPT ![clock + 1] = handled[c]]]
        /\ UNCHANGED <<sessions, threads, rateLimit, issued, handled, touched>>
    BY DEF ServerTick
  <1>2. /\ ServerShape /\ RateInv /\ ThreadInv /\ clock \in Nat /\ MaxClock \in Nat
        /\ Period \in Nat /\ Ttl \in Nat /\ sweepIn \in 0 .. Period
    BY MinimalServerAssumption DEF ServerInv, ServerShape
  <1>3. ASSUME NEW c \in Clients
        PROVE  /\ handledBefore'[c] \in Counts
               /\ EntryOK(handled[c], handledBefore'[c], clock + 1, rateLimit[c])
               /\ Settled(handledBefore'[c], clock + 1)
    <2>1. /\ EntryOK(handled[c], handledBefore[c], clock, rateLimit[c]) /\ Settled(handledBefore[c], clock)
          /\ handled[c] \in Nat /\ handledBefore[c] \in Counts /\ clock \in 0 .. MaxClock
      BY <1>2 DEF RateInv, ServerShape
    <2>2. handledBefore'[c] = [handledBefore[c] EXCEPT ![clock + 1] = handled[c]] /\ clock + 1 <= MaxClock
      BY <1>1, <1>2
    <2> QED
      BY <2>1, <2>2, ClockMoves
  <1>4. ServerShape'
    <2>1. handledBefore' \in [Clients -> Counts]
      BY <1>1, <1>3
    <2>2. clock' \in 0 .. MaxClock /\ sweepIn' \in 0 .. Period
      BY <1>1, <1>2
    <2> QED
      BY <1>1, <1>2, <2>1, <2>2 DEF ServerShape
  <1>5. RateInv'
    <2>1. \A c \in Clients : EntryOK(handled'[c], handledBefore'[c], clock', rateLimit'[c]) /\ Settled(handledBefore'[c], clock')
      BY <1>1, <1>3
    <2> QED
      BY <2>1 DEF RateInv, EntryOK, Rested, InWindow, Earlier, Settled
  <1>6. ASSUME NEW t \in 1 .. issued PROVE ThreadOK(t)'
    BY <1>1, <1>2 DEF ThreadInv, ThreadOK
  <1>7. ThreadInv'
    BY <1>1, <1>2, <1>6 DEF ThreadInv
  <1> QED
    BY <1>4, <1>5, <1>7 DEF ServerInv

LEMMA ServerInvStep == ServerInv /\ [ServerNext]_serverVars => ServerInv'
  <1> SUFFICES ASSUME ServerInv, [ServerNext]_serverVars PROVE ServerInv'
    OBVIOUS
  <1>1. ASSUME sessions' \in [Sockets -> {None} \cup [client : Clients, thread : Ids]],
               UNCHANGED <<clock, sweepIn, threads, rateLimit, issued, handled, handledBefore, touched>>
        PROVE  ServerInv'
    BY <1>1 DEF ServerInv, ServerShape, RateInv, EntryOK, Rested, InWindow, Earlier, Settled, ThreadInv, ThreadOK
  <1>2. ASSUME NEW s \in Sockets, CloseSocket(s) PROVE ServerInv'
    BY <1>1, <1>2 DEF CloseSocket, ServerTime, ServerInv, ServerShape
  <1>3. CASE UNCHANGED serverVars
    BY <1>1, <1>3 DEF serverVars, ServerInv, ServerShape
  <1> QED
    BY <1>2, <1>3, MessageStep, SweepStep, TickStep DEF ServerNext

-----------------------------------------------------------------------------
(* The example server: theorems *)

LEMMA ServerAlways == ServerSpec => []ServerInv
  <1> QED
    BY ServerInvInit, ServerInvStep, PTL DEF ServerSpec

\* However a client spreads its messages, a stretch of one window holds no more
\* than two windows' worth, the one that checkRateLimit does not count included.
THEOREM ServerRateIsBounded == ServerSpec => []RateBounded
  <1>1. ServerInv => RateBounded
    <2> SUFFICES ASSUME ServerInv, NEW c \in Clients, NEW a \in 0 .. clock
                 PROVE  HandledIn(c, a, a + Window) <= 2 * Limit
      BY DEF RateBounded
    <2>1. /\ EntryOK(handled[c], handledBefore[c], clock, rateLimit[c]) /\ Settled(handledBefore[c], clock)
          /\ handled[c] \in Nat /\ handledBefore[c] \in Counts /\ clock \in 0 .. MaxClock
      BY DEF ServerInv, RateInv, ServerShape
    <2>2. a \in Nat /\ Window \in Nat /\ clock \in Nat /\ HandledBefore(c, a) = handledBefore[c][a]
      BY <2>1, MinimalServerAssumption DEF HandledBefore
    <2>3. CASE a + Window + 1 <= clock
      BY <2>1, <2>2, <2>3 DEF HandledIn, HandledBefore, Settled
    <2>4. CASE ~(a + Window + 1 <= clock)
      <3>1. a + Window >= clock
        BY <2>2, <2>4
      <3>2. handled[c] - handledBefore[c][a] <= 2 * Limit
        BY <2>1, <3>1, RecentBounded
      <3>3. HandledBefore(c, a + Window + 1) = handled[c]
        BY <2>4 DEF HandledBefore
      <3> QED
        BY <2>2, <3>2, <3>3 DEF HandledIn
    <2> QED
      BY <2>3, <2>4
  <1> QED
    BY <1>1, ServerAlways, PTL

\* The sweep loses no thread in use and keeps no idle one (the cleanup interval).
THEOREM ServerKeepsThreads == ServerSpec => []ThreadsKeptWhileActive
  <1>1. ServerInv => ThreadsKeptWhileActive
    <2> SUFFICES ASSUME ServerInv, NEW t \in 1 .. issued
                 PROVE  /\ clock <= touched[t] + Ttl => threads[t] # None
                        /\ clock > touched[t] + Ttl + Period => threads[t] = None
      BY DEF ThreadsKeptWhileActive
    <2>1. ThreadOK(t) /\ clock \in Nat /\ sweepIn \in Nat /\ Ttl \in Nat /\ Period \in Nat
      BY MinimalServerAssumption DEF ServerInv, ThreadInv, ServerShape
    <2> QED
      BY <2>1 DEF ThreadOK
  <1> QED
    BY <1>1, ServerAlways, PTL
=============================================================================
