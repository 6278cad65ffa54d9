---------------------------- MODULE NexxaProofs -----------------------------
(***************************************************************************)
(* The rate limiter and the endpoints behind it.                           *)
(*                                                                         *)
(* Filling up late and sweeping are invisible: the limiter implements      *)
(* buckets that are filled up all the time, and serves no client more than *)
(* such a bucket allows.  The argument: a bucket that may be swept is full *)
(* by then, because the idle time is at least a minute.  That the          *)
(* endpoints keep to their limiter follows: they do to it what its clients *)
(* may.                                                                    *)
(*                                                                         *)
(* The shares that match answers add up to 100, whatever numbers the model *)
(* said, an audit is the beginning of what it said, and answers come in    *)
(* time.                                                                   *)
(***************************************************************************)
EXTENDS Nexxa, FiniteSetTheorems, WellFoundedInduction, TLAPS

\* What was served in the window and what is left came out of a full bucket and
\* what flowed in.
Ledger == \A ip \in Ips : served[ip] * Minute + Refilled(ip) <= burst + age * perMinute

Inv == TypeOK /\ Ledger

\* What flows in during k ticks; a minute fills a bucket.
LEMMA Flow ==
  ASSUME NEW k \in Nat
  PROVE  /\ k * perMinute \in Nat
         /\ (k + 1) * perMinute = k * perMinute + perMinute
         /\ k >= Minute => k * perMinute >= burst
<1>1. /\ k * perMinute \in Nat
      /\ (k + 1) * perMinute = k * perMinute + perMinute
  BY RateLimiterAssumption
<1>2. ASSUME k >= Minute PROVE k * perMinute >= burst
  <2> DEFINE d == k - Minute
  <2>1. d \in Nat /\ k = Minute + d
    BY <1>2, RateLimiterAssumption
  <2> HIDE DEF d
  <2>2. d * perMinute \in Nat
    BY <2>1, RateLimiterAssumption
  <2>3. k * perMinute = perMinute * Minute + d * perMinute
    BY <2>1, RateLimiterAssumption
  <2> QED
    BY <2>2, <2>3, RateLimiterAssumption DEF burst
<1> QED
  BY <1>1, <1>2

\* The size of a bucket.
LEMMA BurstNat == burst \in Nat
  BY RateLimiterAssumption DEF burst

\* A bucket holds at most its size.
LEMMA RefilledType ==
  ASSUME TypeOK, NEW ip \in Ips
  PROVE  Refilled(ip) \in 0 .. burst
<1>1. now - last[ip] \in Nat
  BY DEF TypeOK
<1>2. (now - last[ip]) * perMinute \in Nat
  BY <1>1, Flow
<1> QED
  BY <1>2, BurstNat DEF TypeOK, Refilled, Least

\* A bucket that is swept is full.
LEMMA SweptIsFull ==
  ASSUME TypeOK, NEW ip \in Swept
  PROVE  ip \in Ips /\ Refilled(ip) = burst
<1>1. ip \in ips /\ ip \in Ips /\ now - last[ip] > bucketIdleTTL
  BY DEF Swept, Idle, TypeOK
<1>2. now - last[ip] \in Nat /\ now - last[ip] >= Minute
  BY <1>1, RateLimiterAssumption DEF TypeOK
<1>3. (now - last[ip]) * perMinute \in Nat /\ (now - last[ip]) * perMinute >= burst
  BY <1>2, Flow
<1> QED
  BY <1>1, <1>3, BurstNat DEF Refilled, Least, TypeOK

\* After a call the caller's bucket is what Allow stored, and the buckets of
\* others, swept or not, hold what they held.
LEMMA AfterAllow ==
  ASSUME TypeOK, NEW ip \in Ips, Allow(ip)
  PROVE  /\ Refilled(ip)' = IF Refilled(ip) >= Minute THEN Refilled(ip) - Minute ELSE Refilled(ip)
         /\ \A other \in Ips \ {ip} : Refilled(other)' = Refilled(other)
<1>1. /\ ip \in ips' /\ last'[ip] = now /\ now' = now
      /\ tokens'[ip] = IF Refilled(ip) >= Minute THEN Refilled(ip) - Minute ELSE Refilled(ip)
  BY DEF Allow, TypeOK
<1>2. Refilled(ip) \in 0 .. burst
  BY RefilledType
<1>3. tokens'[ip] \in 0 .. burst
  BY <1>1, <1>2, BurstNat, RateLimiterAssumption
<1>4. (now' - last'[ip]) * perMinute = 0
  BY <1>1, RateLimiterAssumption DEF TypeOK
<1>5. Refilled(ip)' = tokens'[ip]
  BY <1>1, <1>3, <1>4, BurstNat DEF Refilled, Least, burst
<1>6. ASSUME NEW other \in Ips \ {ip} PROVE Refilled(other)' = Refilled(other)
  <2>1. last'[other] = last[other] /\ tokens'[other] = tokens[other]
    BY DEF Allow, TypeOK
  <2>2. CASE other \in Swept /\ ip \notin ips
    <3>1. other \notin ips'
      BY <2>2 DEF Allow
    <3> QED
      BY <2>2, <3>1, SweptIsFull DEF Refilled, burst
  <2>3. CASE ~(other \in Swept /\ ip \notin ips)
    <3>1. other \in ips' <=> other \in ips
      BY <2>3 DEF Allow
    <3> QED
      BY <1>1, <2>1, <3>1 DEF Refilled, Least, burst
  <2> QED
    BY <2>2, <2>3
<1> QED
  BY <1>1, <1>5, <1>6

\* A tick fills every bucket up, whether it is looked at or not.
LEMMA AfterTick ==
  ASSUME TypeOK, Tick, NEW ip \in Ips
  PROVE  Refilled(ip)' = Least(Refilled(ip) + perMinute, burst)
<1> DEFINE k == now - last[ip]
<1>1. k \in Nat /\ now' - last'[ip] = k + 1
  BY DEF TypeOK, Tick, limiter
<1> HIDE DEF k
<1>2. k * perMinute \in Nat /\ (k + 1) * perMinute = k * perMinute + perMinute
  BY <1>1, Flow
<1>3. /\ ip \in ips' <=> ip \in ips
      /\ tokens'[ip] = tokens[ip] /\ tokens[ip] \in 0 .. burst
  BY DEF TypeOK, Tick, limiter
<1>4. CASE ip \notin ips
  BY <1>3, <1>4, BurstNat, RateLimiterAssumption DEF Refilled, Least, burst
<1>5. CASE ip \in ips
  <2>1. Refilled(ip) = Least(tokens[ip] + k * perMinute, burst)
    BY <1>5 DEF Refilled, k
  <2>2. Refilled(ip)' = Least(tokens[ip] + (k * perMinute + perMinute), burst)
    BY <1>1, <1>2, <1>3, <1>5 DEF Refilled, Least, burst
  <2> QED
    BY <1>2, <1>3, <2>1, <2>2, BurstNat, RateLimiterAssumption DEF Least
<1> QED
  BY <1>4, <1>5

LEMMA TypeStep == TypeOK /\ [Next]_vars => TypeOK'
<1> SUFFICES ASSUME TypeOK, [Next]_vars PROVE TypeOK'
  OBVIOUS
<1>1. ASSUME NEW ip \in Ips, Allow(ip) PROVE TypeOK'
  <2>1. Refilled(ip) \in 0 .. burst
    BY RefilledType
  <2>2. (IF Refilled(ip) >= Minute THEN Refilled(ip) - Minute ELSE Refilled(ip)) \in 0 .. burst
    BY <2>1, BurstNat, RateLimiterAssumption
  <2>3. tokens' \in [Ips -> 0 .. burst]
    BY <1>1, <2>2 DEF Allow, TypeOK
  <2>4. ips' \subseteq Ips /\ answer' \in [ip : Ips, ok : BOOLEAN]
    BY <1>1 DEF Allow, TypeOK
  <2>5. last' \in [Ips -> 0 .. now'] /\ now' \in Nat
    BY <1>1 DEF Allow, TypeOK
  <2>6. served' \in [Ips -> Nat] /\ age' \in Nat
    BY <1>1 DEF Allow, TypeOK
  <2> QED
    BY <2>3, <2>4, <2>5, <2>6 DEF TypeOK, burst
<1>2. CASE Tick
  BY <1>2 DEF Tick, TypeOK, limiter, burst
<1>3. CASE OpenWindow
  BY <1>3 DEF OpenWindow, TypeOK, limiter, burst
<1>4. CASE UNCHANGED vars
  BY <1>4 DEF vars, TypeOK, limiter, burst
<1> QED
  BY <1>1, <1>2, <1>3, <1>4 DEF Next

LEMMA LedgerStep == Inv /\ [Next]_vars => Ledger'
<1> SUFFICES ASSUME Inv, [Next]_vars, NEW ip \in Ips
             PROVE  served'[ip] * Minute + Refilled(ip)' <= burst + age' * perMinute
  BY DEF Ledger, burst
<1> USE DEF Inv
<1>1. Refilled(ip) \in 0 .. burst /\ burst \in Nat /\ served[ip] \in Nat /\ age \in Nat
  BY RefilledType, BurstNat DEF TypeOK
<1>2. served[ip] * Minute + Refilled(ip) <= burst + age * perMinute
  BY DEF Ledger
<1>3. served[ip] * Minute \in Nat /\ (served[ip] + 1) * Minute = served[ip] * Minute + Minute
  BY <1>1, RateLimiterAssumption
<1>4. age * perMinute \in Nat /\ (age + 1) * perMinute = age * perMinute + perMinute
  BY <1>1, Flow
<1>5. ASSUME NEW caller \in Ips, Allow(caller)
      PROVE  served'[ip] * Minute + Refilled(ip)' <= burst + age' * perMinute
  <2>1. age' = age
    BY <1>5 DEF Allow
  <2>2. CASE caller = ip /\ Refilled(ip) >= Minute
    <3>1. served'[ip] = served[ip] + 1 /\ Refilled(ip)' = Refilled(ip) - Minute
      BY <1>5, <2>2, AfterAllow DEF Allow, TypeOK
    <3> QED
      BY <1>1, <1>2, <1>3, <1>4, <2>1, <3>1, RateLimiterAssumption
  <2>3. CASE ~(caller = ip /\ Refilled(ip) >= Minute)
    <3>1. served'[ip] = served[ip] /\ Refilled(ip)' = Refilled(ip)
      BY <1>5, <2>3, AfterAllow DEF Allow, TypeOK
    <3> QED
      BY <1>2, <2>1, <3>1
  <2> QED
    BY <2>2, <2>3
<1>6. CASE Tick
  <2>1. served'[ip] = served[ip] /\ age' = age + 1
    BY <1>6 DEF Tick
  <2>2. Refilled(ip)' = Least(Refilled(ip) + perMinute, burst)
    BY <1>6, AfterTick
  <2>3. Refilled(ip)' <= Refilled(ip) + perMinute /\ Refilled(ip)' \in Nat
    BY <1>1, <2>2, RateLimiterAssumption DEF Least
  <2> QED
    BY <1>1, <1>2, <1>3, <1>4, <2>1, <2>3, RateLimiterAssumption
<1>7. CASE OpenWindow
  <2>1. served'[ip] = 0 /\ age' = 0 /\ Refilled(ip)' = Refilled(ip)
    BY <1>7 DEF OpenWindow, limiter, Refilled, burst
  <2> QED
    BY <1>1, <2>1, RateLimiterAssumption
<1>8. CASE UNCHANGED vars
  BY <1>2, <1>8 DEF vars, limiter, Refilled, burst
<1> QED
  BY <1>5, <1>6, <1>7, <1>8 DEF Next

\* Types, and the ledger of the window, are inductive.
THEOREM Invariance == Spec => []Inv
<1>1. Init => Inv
  <2> SUFFICES ASSUME Init PROVE Inv
    OBVIOUS
  <2>1. TypeOK
    <3>1. /\ now \in Nat /\ ips \subseteq Ips /\ served \in [Ips -> Nat] /\ age \in Nat
          /\ answer \in [ip : Ips, ok : BOOLEAN]
      <4>1. PICK caller \in Ips : answer = [ip |-> caller, ok |-> TRUE]
        BY DEF Init
      <4>2. answer \in [ip : Ips, ok : BOOLEAN]
        BY <4>1
      <4> QED
        BY <4>2 DEF Init
    <3>2. last \in [Ips -> 0 .. now]
      BY DEF Init
    <3>3. tokens \in [Ips -> 0 .. burst]
      <4>1. burst \in 0 .. burst
        BY BurstNat
      <4> QED
        BY <4>1 DEF Init
    <3> QED
      BY <3>1, <3>2, <3>3 DEF TypeOK
  <2>2. ASSUME NEW ip \in Ips
        PROVE  served[ip] * Minute + Refilled(ip) <= burst + age * perMinute
    <3>1. served[ip] = 0 /\ age = 0 /\ Refilled(ip) = burst
      BY DEF Init, Refilled
    <3> QED
      BY <3>1, BurstNat, RateLimiterAssumption
  <2> QED
    BY <2>1, <2>2 DEF Inv, Ledger
<1>2. Inv /\ [Next]_vars => Inv'
  BY TypeStep, LedgerStep DEF Inv
<1> QED
  BY <1>1, <1>2, PTL DEF Spec

\* In no window of time is a client served more than its bucket and what flows in
\* allow, for every rate, number of clients and limit on buckets.
THEOREM Bounded == Spec => []WindowBound
<1>1. Inv => WindowBound
  <2> SUFFICES ASSUME Inv, NEW ip \in Ips
               PROVE  served[ip] * Minute <= burst + age * perMinute
    BY DEF WindowBound, Buckets!WindowBound, Buckets!burst, burst
  <2>1. Refilled(ip) \in Nat
    BY RefilledType, BurstNat DEF Inv
  <2>2. /\ served[ip] * Minute \in Nat
        /\ burst + age * perMinute \in Nat
    BY BurstNat, RateLimiterAssumption DEF Inv, TypeOK
  <2> QED
    BY <2>1, <2>2 DEF Inv, Ledger
<1> QED
  BY <1>1, Invariance, PTL

\* The limiter with its late filling and its sweeps implements buckets that are
\* filled up all the time.
THEOREM Implementation == Spec => ImplementsBuckets
<1>1. Init => Buckets!Init
  BY DEF Init, Buckets!Init, Level, Refilled, burst, Buckets!burst
<1>2. Inv /\ [Next]_vars => [Buckets!Next]_(Buckets!vars)
  <2> SUFFICES ASSUME Inv, [Next]_vars PROVE [Buckets!Next]_(Buckets!vars)
    OBVIOUS
  <2> USE DEF Inv
  <2>1. ASSUME NEW ip \in Ips, Allow(ip) PROVE Buckets!Call(ip)
    <3>1. Level[ip] = Refilled(ip)
      BY DEF Level
    <3>2. Level' = [i \in Ips |-> Refilled(i)']
      BY DEF Level
    <3>3. Level' = IF Refilled(ip) >= Minute
                   THEN [Level EXCEPT ![ip] = @ - Minute] ELSE Level
      BY <2>1, <3>2, AfterAllow DEF Level
    <3> QED
      BY <2>1, <3>1, <3>3 DEF Buckets!Call, Allow
  <2>2. ASSUME Tick PROVE Buckets!Tick
    <3>1. Level' = [i \in Ips |-> Refilled(i)']
      BY DEF Level
    <3>2. Level' = [i \in Ips |-> Least(Level[i] + perMinute, burst)]
      BY <2>2, <3>1, AfterTick DEF Level
    <3> QED
      BY <2>2, <3>2 DEF Buckets!Tick, Tick, Buckets!Least, Buckets!burst, Least, burst
  <2>3. ASSUME OpenWindow PROVE Buckets!OpenWindow
    BY <2>3 DEF OpenWindow, Buckets!OpenWindow, Level, limiter, Refilled, burst
  <2>4. ASSUME UNCHANGED vars PROVE UNCHANGED Buckets!vars
    BY <2>4 DEF vars, Buckets!vars, Level, limiter, Refilled, burst
  <2> QED
    BY <2>1, <2>2, <2>3, <2>4 DEF Next, Buckets!Next
<1> QED
  BY <1>1, <1>2, Invariance, PTL DEF Spec, ImplementsBuckets, Buckets!Spec
-----------------------------------------------------------------------------
(***************************************************************************)
(* The endpoints.                                                          *)
(***************************************************************************)

\* Rounding moves a share by half a point at most: r is score * 100 / total, rounded.
LEMMA RoundingError ==
  ASSUME NEW x \in Nat, NEW t \in Nat, t > 0,
         NEW r \in Int, r = (200 * x + t) \div (2 * t)
  PROVE  /\ 2 * (t * r) <= 200 * x + t
         /\ 200 * x + t < 2 * (t * r) + 2 * t
         /\ r >= 0
<1> DEFINE n == 200 * x + t
           d == 2 * t
<1>1. n \in Nat /\ d \in Nat /\ d > 0
  OBVIOUS
<1>2. d * (n \div d) <= n /\ n < d * (n \div d) + d
  BY <1>1
<1>3. d * r = 2 * (t * r)
  OBVIOUS
<1>4. r >= 0
  <2>1. SUFFICES ASSUME r <= -1 PROVE FALSE
    OBVIOUS
  <2>2. d * r <= -d
    BY <2>1, <1>1
  <2> QED
    BY <2>2, <1>1, <1>2
<1> QED
  BY <1>2, <1>3, <1>4

\* What can be cancelled from t * k < t * j.
LEMMA Cancel ==
  ASSUME NEW t \in Nat, t > 0, NEW k \in Int, NEW j \in Int, t * k < t * j
  PROVE  k < j
<1>1. SUFFICES ASSUME k >= j PROVE FALSE
  OBVIOUS
<1> DEFINE e == k - j
<1>2. e \in Nat /\ k = j + e
  BY <1>1
<1> HIDE DEF e
<1> DEFINE tj == t * j
           te == t * e
<1>3. t * (j + e) = tj + te
  BY <1>2
<1>4. tj \in Int /\ te \in Int /\ te >= 0
  BY <1>2
<1>5. t * k = t * (j + e)
  BY <1>2
<1>6. t * k < tj
  OBVIOUS
<1> HIDE DEF tj, te
<1> QED
  BY <1>3, <1>4, <1>5, <1>6

\* Every rounded share is a number between 0 and 100, and together they miss 100 by
\* one at most: each is off by half a point.
LEMMA RoundedSum ==
  ASSUME NEW s \in [Majors -> Nat], Total(s) > 0
  PROVE  /\ Rounded(s) \in [Majors -> 0 .. 100]
         /\ Total(Rounded(s)) \in 99 .. 101
         /\ \A m \in Majors : /\ 2 * (Total(s) * Rounded(s)[m]) <= 200 * s[m] + Total(s)
                              /\ 200 * s[m] <= 2 * (Total(s) * Rounded(s)[m]) + Total(s)
<1> DEFINE t == Total(s)
           r == Rounded(s)
           p(m) == t * r[m]
<1>1. t \in Nat /\ t > 0
  BY DEF Total, Majors
<1>2. ASSUME NEW m \in Majors
      PROVE  /\ s[m] \in Nat /\ s[m] <= t
             /\ r[m] \in Int /\ r[m] >= 0
             /\ p(m) \in Int
             /\ 2 * p(m) <= 200 * s[m] + t
             /\ 200 * s[m] + t < 2 * p(m) + 2 * t
  <2>1. s[m] \in Nat /\ s[m] <= t
    BY DEF Total, Majors
  <2>2. r[m] = (200 * s[m] + t) \div (2 * t)
    BY DEF Rounded
  <2>3. r[m] \in Int
    BY <1>1, <2>1, <2>2
  <2> DEFINE x == s[m]
             y == r[m]
  <2> HIDE DEF t, r, x, y
  <2>4. /\ 2 * (t * y) <= 200 * x + t
        /\ 200 * x + t < 2 * (t * y) + 2 * t
        /\ y >= 0
    <3>1. x \in Nat /\ y \in Int /\ y = (200 * x + t) \div (2 * t)
      BY <2>1, <2>2, <2>3 DEF x, y
    <3> QED
      BY <1>1, <3>1, RoundingError
  <2>5. t * y \in Int
    BY <1>1, <2>3 DEF y
  <2> QED
    BY <2>1, <2>3, <2>4, <2>5 DEF x, y
<1>3. ASSUME NEW m \in Majors PROVE r[m] \in 0 .. 100
  <2>1. t * r[m] < t * 101
    BY <1>1, <1>2
  <2>2. r[m] \in Int /\ r[m] >= 0 /\ 101 \in Int
    BY <1>2
  <2> HIDE DEF t, r
  <2>3. r[m] < 101
    BY <1>1, <2>1, <2>2, Cancel
  <2> QED
    BY <2>2, <2>3
<1>4. Total(r) \in 99 .. 101
  <2> DEFINE q == Total(r)
             a == r["pplg"]
             b == r["akuntansi"]
             c == r["hotel"]
  <2>1. a \in Int /\ b \in Int /\ c \in Int /\ q = a + b + c
    BY <1>2 DEF Majors, Total
  <2>2. t * (a + b + c) = t * a + t * b + t * c
    BY <1>1, <2>1
  <2>3. /\ p("pplg") \in Int /\ p("akuntansi") \in Int /\ p("hotel") \in Int
        /\ 2 * (p("pplg") + p("akuntansi") + p("hotel")) <= 203 * t
        /\ 2 * (p("pplg") + p("akuntansi") + p("hotel")) > 197 * t
    <3>1. s["pplg"] + s["akuntansi"] + s["hotel"] = t
      BY DEF Total
    <3> HIDE DEF t, p
    <3> QED
      BY <1>1, <1>2, <3>1 DEF Majors
  <2>4. t * q < t * 102 /\ t * 98 < t * q
    <3>1. t * q = p("pplg") + p("akuntansi") + p("hotel")
      BY <2>1, <2>2
    <3> HIDE DEF t, p, q
    <3> QED
      BY <1>1, <2>3, <3>1
  <2>5. q \in Int
    BY <2>1
  <2> HIDE DEF t, r, q
  <2>6. q < 102 /\ 98 < q
    BY <1>1, <2>4, <2>5, Cancel
  <2> USE DEF q
  <2> QED
    BY <2>5, <2>6
<1>5. r \in [Majors -> 0 .. 100]
  <2>1. r = [m \in Majors |-> r[m]]
    BY DEF Rounded
  <2> HIDE DEF r
  <2> QED
    BY <1>3, <2>1
<1>6. ASSUME NEW m \in Majors
      PROVE  2 * p(m) <= 200 * s[m] + t /\ 200 * s[m] <= 2 * p(m) + t
  <2> HIDE DEF t, r, p
  <2> QED
    BY <1>1, <1>2
<1> QED
  BY <1>4, <1>5, <1>6

\* The share r is within half a point, and within one, of x / t.
Near(t, x, r)  == 2 * (t * r) <= 200 * x + t /\ 200 * x <= 2 * (t * r) + t
Close(t, x, r) == Distance(r * t, 100 * x) <= t

\* The largest share can pay what rounding took too much, and neither paying nor
\* receiving moves it by more than one from its exact value: when the shares miss
\* 100, all of them are off in the same direction.
LEMMA LargestPays ==
  ASSUME NEW t \in Nat, t > 0,
         NEW x \in Nat, NEW y \in Nat, NEW z \in Nat, x + y + z = t,
         NEW a \in 0 .. 100, NEW b \in 0 .. 100, NEW c \in 0 .. 100,
         a + b + c \in 99 .. 101, b <= a, c <= a,
         Near(t, x, a), Near(t, y, b), Near(t, z, c),
         NEW d \in Int, d = 100 - (a + b + c)
  PROVE  a + d \in 0 .. 100 /\ Close(t, x, a + d)
<1> DEFINE p == t * a
           q == t * b
           r == t * c
<1>1. a + d \in 0 .. 100
  OBVIOUS
<1>2. p \in Int /\ q \in Int /\ r \in Int
  OBVIOUS
<1>3. d \in {-1, 0, 1}
  OBVIOUS
<1>4. p + q + r = 100 * t - d * t
  <2>1. p + q + r = t * (a + b + c)
    OBVIOUS
  <2>2. CASE d = -1
    BY <2>1, <2>2
  <2>3. CASE d = 0
    BY <2>1, <2>3
  <2>4. CASE d = 1
    BY <2>1, <2>4
  <2> QED
    BY <1>3, <2>2, <2>3, <2>4
<1>5. (a + d) * t = p + d * t
  OBVIOUS
<1>6. p + d * t - 100 * x <= t /\ 100 * x - (p + d * t) <= t
  <2> HIDE DEF p, q, r
  <2>1. /\ 2 * p <= 200 * x + t /\ 200 * x <= 2 * p + t
        /\ 2 * q <= 200 * y + t /\ 200 * y <= 2 * q + t
        /\ 2 * r <= 200 * z + t /\ 200 * z <= 2 * r + t
    BY DEF p, q, r, Near
  <2>2. CASE d = -1
    BY <1>2, <1>4, <2>1, <2>2
  <2>3. CASE d = 0
    BY <1>2, <2>1, <2>3
  <2>4. CASE d = 1
    BY <1>2, <1>4, <2>1, <2>4
  <2> QED
    BY <1>3, <2>2, <2>3, <2>4
<1>7. Distance((a + d) * t, 100 * x) <= t
  <2>1. d * t \in Int
    OBVIOUS
  <2> HIDE DEF p
  <2> QED
    BY <1>2, <1>5, <1>6, <2>1 DEF Distance
<1> QED
  BY <1>1, <1>7 DEF Close

\* Shares(s) are shares of 100, each within one of the exact one.
Whole(s) ==
  /\ Total(Shares(s)) = 100
  /\ \A m \in Majors : /\ Shares(s)[m] \in 0 .. 100
                       /\ Distance(Shares(s)[m] * Total(s), 100 * s[m]) <= Total(s)

\* The three percentages that NormalizeNexxaOutput computes are whole, for all scores
\* of which one is not 0.
THEOREM SharesAddUp ==
  ASSUME NEW s \in [Majors -> Nat], Total(s) > 0
  PROVE  Whole(s)
<1> DEFINE t == Total(s)
           r == Rounded(s)
           l == Largest(r)
           d == 100 - Total(r)
<1>1. t \in Nat /\ t > 0 /\ t = s["pplg"] + s["akuntansi"] + s["hotel"]
  BY DEF Total, Majors
<1>2. /\ r \in [Majors -> 0 .. 100]
      /\ Total(r) \in 99 .. 101 /\ Total(r) = r["pplg"] + r["akuntansi"] + r["hotel"]
      /\ \A m \in Majors : 2 * (t * r[m]) <= 200 * s[m] + t /\ 200 * s[m] <= 2 * (t * r[m]) + t
  BY RoundedSum DEF Total
<1>3. l \in Majors /\ \A m \in Majors : r[m] <= r[l]
  <2> HIDE DEF r
  <2> QED
    BY <1>2 DEF Majors, Largest
<1>4. Shares(s) = [r EXCEPT ![l] = @ + d]
  BY DEF Shares, Corrected, Numbers
<1> HIDE DEF t, r, l, d
<1>5. r[l] + d \in 0 .. 100 /\ Distance((r[l] + d) * t, 100 * s[l]) <= t
  <2> DEFINE a == r["pplg"]
             b == r["akuntansi"]
             c == r["hotel"]
             x == s["pplg"]
             y == s["akuntansi"]
             z == s["hotel"]
  <2>1. /\ a \in 0 .. 100 /\ b \in 0 .. 100 /\ c \in 0 .. 100
        /\ x \in Nat /\ y \in Nat /\ z \in Nat /\ d \in Int
        /\ Near(t, x, a) /\ Near(t, y, b) /\ Near(t, z, c)
    BY <1>2 DEF Majors, d, Near
  <2>2. x + y + z = t /\ a + b + c \in 99 .. 101 /\ d = 100 - (a + b + c)
    BY <1>1, <1>2 DEF d
  <2>3. l \in Majors /\ a <= r[l] /\ b <= r[l] /\ c <= r[l]
    BY <1>3 DEF Majors
  <2> HIDE DEF a, b, c, x, y, z
  <2>4. CASE l = "pplg"
    <3>1. b <= a /\ c <= a
      BY <2>3, <2>4 DEF a
    <3>2. a + d \in 0 .. 100 /\ Close(t, x, a + d)
      BY <1>1, <2>1, <2>2, <3>1, LargestPays
    <3> QED
      BY <2>4, <3>2 DEF a, x, Close
  <2>5. CASE l = "akuntansi"
    <3>1. a <= b /\ c <= b
      BY <2>3, <2>5 DEF b
    <3>2. y + x + z = t /\ b + a + c \in 99 .. 101 /\ d = 100 - (b + a + c)
      BY <2>1, <2>2
    <3>3. b + d \in 0 .. 100 /\ Close(t, y, b + d)
      BY <1>1, <2>1, <3>1, <3>2, LargestPays
    <3> QED
      BY <2>5, <3>3 DEF b, y, Close
  <2>6. CASE l = "hotel"
    <3>1. a <= c /\ b <= c
      BY <2>3, <2>6 DEF c
    <3>2. z + x + y = t /\ c + a + b \in 99 .. 101 /\ d = 100 - (c + a + b)
      BY <2>1, <2>2
    <3>3. c + d \in 0 .. 100 /\ Close(t, z, c + d)
      BY <1>1, <2>1, <3>1, <3>2, LargestPays
    <3> QED
      BY <2>6, <3>3 DEF c, z, Close
  <2> QED
    BY <2>3, <2>4, <2>5, <2>6 DEF Majors
<1>6. Total(Shares(s)) = 100
  <2> DEFINE f == Shares(s)
  <2>1. /\ d \in Int /\ d = 100 - (r["pplg"] + r["akuntansi"] + r["hotel"])
        /\ r["pplg"] \in Int /\ r["akuntansi"] \in Int /\ r["hotel"] \in Int
    BY <1>2 DEF d, Majors
  <2>2. f[l] = r[l] + d /\ \A m \in Majors : m # l => f[m] = r[m]
    BY <1>2, <1>3, <1>4
  <2>3. Total(f) = f["pplg"] + f["akuntansi"] + f["hotel"]
    BY DEF Total
  <2> HIDE DEF f
  <2>4. ASSUME l = "pplg" PROVE Total(f) = 100
    <3>1. f["pplg"] = r["pplg"] + d /\ f["akuntansi"] = r["akuntansi"] /\ f["hotel"] = r["hotel"]
      BY <2>2, <2>4 DEF Majors
    <3> QED
      BY <2>1, <2>3, <3>1
  <2>5. ASSUME l = "akuntansi" PROVE Total(f) = 100
    <3>1. f["akuntansi"] = r["akuntansi"] + d /\ f["pplg"] = r["pplg"] /\ f["hotel"] = r["hotel"]
      BY <2>2, <2>5 DEF Majors
    <3> QED
      BY <2>1, <2>3, <3>1
  <2>6. ASSUME l = "hotel" PROVE Total(f) = 100
    <3>1. f["hotel"] = r["hotel"] + d /\ f["akuntansi"] = r["akuntansi"] /\ f["pplg"] = r["pplg"]
      BY <2>2, <2>6 DEF Majors
    <3> QED
      BY <2>1, <2>3, <3>1
  <2>7. Total(f) = 100
    BY <1>3, <2>4, <2>5, <2>6 DEF Majors
  <2> QED
    BY <2>7 DEF f
<1>7. ASSUME NEW m \in Majors, m # l
      PROVE  Shares(s)[m] \in 0 .. 100 /\ Distance(Shares(s)[m] * t, 100 * s[m]) <= t
  <2>1. Shares(s)[m] = r[m]
    BY <1>2, <1>4, <1>7
  <2> DEFINE p == t * r[m]
  <2>2. p \in Int /\ r[m] * t = p
    BY <1>1, <1>2
  <2>3. 2 * p <= 200 * s[m] + t /\ 200 * s[m] <= 2 * p + t /\ s[m] \in Nat
    BY <1>2
  <2> HIDE DEF p
  <2> QED
    BY <1>1, <1>2, <2>1, <2>2, <2>3 DEF Distance
<1> QED
  BY <1>2, <1>3, <1>4, <1>5, <1>6, <1>7 DEF Whole, t
-----------------------------------------------------------------------------
(* The endpoints.                                                          *)

\* What is answered at once, and not limited.
Stateless ==
  \/ Unauthorized
  \/ ValidateNexxaInput \/ NormalizeNexxaOutput \/ ValidateCvInput \/ NormalizeCvOutput

\* What a step of an endpoint does to its limiter is a step of the limiter or none.
LEMMA StepOfLimiter == [NexxaNext]_<<vars, nexxa>> => [Next]_vars
<1> SUFFICES ASSUME [NexxaNext]_<<vars, nexxa>> PROVE [Next]_vars
  OBVIOUS
<1>1. ASSUME NEW c \in Callers, NEW ip \in Ips, Arrive(c, ip) PROVE Next
  BY <1>1 DEF Arrive, Next
<1>2. ASSUME NEW c \in Callers, Retrieved(c) \/ Completed(c) \/ HangUp(c) PROVE UNCHANGED vars
  BY <1>2 DEF Retrieved, Completed, HangUp
<1>3. CASE Stateless
  BY <1>3 DEF Stateless, Unauthorized, ValidateNexxaInput, ValidateCvInput, Validate,
              NormalizeNexxaOutput, NormalizeCvOutput, Normalize
<1>4. CASE Pass
  BY <1>4 DEF Pass, Next
<1>5. CASE Count
  BY <1>5 DEF Count, Next
<1>6. CASE UNCHANGED <<vars, nexxa>>
  BY <1>6
<1> QED
  BY <1>1, <1>2, <1>3, <1>4, <1>5, <1>6 DEF NexxaNext, Stateless

\* Every endpoint keeps to its limiter: all that is proved of the limiter holds of it.
THEOREM KeepsToLimiter == NexxaSpec => Spec
<1>1. NexxaInit => Init
  BY DEF NexxaInit
<1> QED
  BY <1>1, StepOfLimiter, PTL DEF NexxaSpec, Spec

\* However many calls are under way, an endpoint serves no client more than the
\* bucket and what flows in allow, and late filling and sweeping do not show.
THEOREM ClientsAreLimited == NexxaSpec => []WindowBound /\ ImplementsBuckets
  BY KeepsToLimiter, Bounded, Implementation, PTL

\* What an answer says is what comes of what the model said.
Answered ==
  /\ reply.said # None =>
       /\ reply.said \in Outputs[route]
       /\ reply.code = Outcome(reply.said).code
       /\ reply.result = Outcome(reply.said).result
  /\ reply.said = None => reply.code # 422
  /\ ValidatedIsTaken

\* An endpoint stays what it is.
LEMMA RouteStays == [NexxaNext]_<<vars, nexxa>> => route' = route
  BY DEF NexxaNext, Arrive, Retrieved, Completed, HangUp, Unauthorized, ValidateNexxaInput,
         ValidateCvInput, Validate, NormalizeNexxaOutput, NormalizeCvOutput, Normalize, Pass,
         Count, nexxa

LEMMA AnsweredStep == route \in Routes /\ Answered /\ [NexxaNext]_<<vars, nexxa>> => Answered'
<1> SUFFICES ASSUME route \in Routes, Answered, [NexxaNext]_<<vars, nexxa>> PROVE Answered'
  OBVIOUS
<1>1. route' = route
  BY RouteStays
<1>2. ASSUME reply' = reply PROVE Answered'
  BY <1>1, <1>2 DEF Answered, Outcome, ValidatedIsTaken, FieldErrors, Bad
<1>3. ASSUME NEW code \in {400, 401, 429, 502, 504}, NEW since,
             Answer(code, None, None, since)
      PROVE  Answered'
  BY <1>3 DEF Answer, Answered, ValidatedIsTaken
<1>4. ASSUME NEW said \in Outputs[route], NEW since,
             Answer(Outcome(said).code, said, Outcome(said).result, since)
      PROVE  Answered'
  <2>1. reply'.said = said /\ said # None
    BY <1>4, NexxaAssumption DEF Answer
  <2>2. Outcome(reply.said)' = Outcome(said)
    BY <1>1, <2>1 DEF Outcome
  <2> QED
    BY <1>1, <1>4, <2>1, <2>2 DEF Answer, Answered, ValidatedIsTaken
<1>5. ASSUME NEW c \in Callers, NEW ip \in Ips, Arrive(c, ip) PROVE Answered'
  BY <1>2, <1>3, <1>5 DEF Arrive
<1>6. ASSUME NEW c \in Callers, Retrieved(c) \/ HangUp(c) PROVE Answered'
  BY <1>2, <1>6 DEF Retrieved, HangUp
<1>7. ASSUME NEW c \in Callers, Completed(c) PROVE Answered'
  BY <1>3, <1>4, <1>7 DEF Completed, GiveUp
<1>8. CASE Unauthorized
  BY <1>3, <1>8 DEF Unauthorized
<1>9. ASSUME NEW input \in Inputs, NEW errors, Validate(input, errors),
             route = "cv" => FieldErrors(Sanitized(input)) \subseteq errors
      PROVE  Answered'
  <2>1. CASE errors # {}
    BY <1>3, <1>9, <2>1 DEF Validate
  <2>2. CASE errors = {}
    <3>1. /\ reply'.said = None /\ reply'.code = 200 /\ reply'.result = Sanitized(input)
      BY <1>9, <2>2 DEF Validate, Answer
    <3>2. route = "cv" => FieldErrors(Sanitized(input)) = {}
      BY <1>9, <2>2
    <3> QED
      BY <1>1, <3>1, <3>2 DEF Answered, ValidatedIsTaken, FieldErrors, Bad
  <2> QED
    BY <2>1, <2>2
<1>10. CASE ValidateNexxaInput \/ ValidateCvInput
  BY <1>9, <1>10 DEF ValidateNexxaInput, ValidateCvInput
<1>11. CASE NormalizeNexxaOutput \/ NormalizeCvOutput
  BY <1>4, <1>11 DEF NormalizeNexxaOutput, NormalizeCvOutput, Normalize
<1>12. CASE Pass \/ Count \/ UNCHANGED <<vars, nexxa>>
  BY <1>2, <1>12 DEF Pass, Count, nexxa
<1> QED
  BY <1>5, <1>6, <1>7, <1>8, <1>10, <1>11, <1>12 DEF NexxaNext

LEMMA AnsweredAlways == NexxaSpec => [](route \in Routes /\ Answered)
<1>1. NexxaInit => route \in Routes /\ Answered
  BY DEF NexxaInit, Answered, ValidatedIsTaken
<1>2. route \in Routes /\ Answered /\ [NexxaNext]_<<vars, nexxa>> => (route \in Routes /\ Answered)'
  BY RouteStays, AnsweredStep
<1> QED
  BY <1>1, <1>2, PTL DEF NexxaSpec

\* Whatever scores the model gives that are numbers, match answers three shares that
\* add up to 100 and are within one of the exact ones, and refuses only what cannot be
\* rescaled.  Of scores with the string NaN, which match takes as well, only the second
\* is said.
THEOREM MatchAddsUp == NexxaSpec => []MatchIsWhole
<1>1. route \in Routes /\ Answered => MatchIsWhole
  <2> SUFFICES ASSUME route = "match", route \in Routes, Answered PROVE MatchIsWhole
    BY DEF MatchIsWhole, Said
  <2>1. reply.code = 422 => NoMatch(reply.said)
    BY DEF Answered, Outcome
  <2>2. ASSUME reply.said # None, reply.code = 200, Numbers(reply.said.scores)
        PROVE  /\ Total(reply.said.scores) > 0 /\ Whole(reply.said.scores)
               /\ reply.result.shares = Shares(reply.said.scores)
    <3>1. ~NoMatch(reply.said) /\ reply.result.shares = Shares(reply.said.scores)
      BY <2>2 DEF Answered, Outcome
    <3>2. /\ reply.said.scores \in [Majors -> Int \cup {NaN}]
          /\ Acceptable(reply.said.scores)
      BY <2>2, <3>1, NexxaAssumption DEF Answered, NoMatch
    <3>3. \A m \in Majors : reply.said.scores[m] \in 0 .. 100
      BY <2>2, <3>2, MatchScoresAssumption DEF Acceptable, Numbers
    <3>4. reply.said.scores \in [Majors -> Nat] /\ Total(reply.said.scores) > 0
      BY <2>2, <3>2, <3>3 DEF Acceptable
    <3> QED
      BY <3>1, <3>4, SharesAddUp
  <2> QED
    BY <2>1, <2>2 DEF MatchIsWhole, Whole, Said
<1> QED
  BY <1>1, AnsweredAlways, PTL

\* A CV that validate-input hands out passes the same checks at cv-review.
THEOREM ValidatedAlways == NexxaSpec => []ValidatedIsTaken
  BY AnsweredAlways, PTL DEF Answered
-----------------------------------------------------------------------------
(* Time.                                                                   *)

\* Nobody waits for a request to the model for more than LLMTimeout, and only chat
\* sends two of them.
InTime(call) ==
  /\ call.waited \in 0 .. LLMTimeout /\ call.since \in Nat /\ call.waited <= call.since
  /\ call.pc # "complete" \/ route # "chat" => call.since = call.waited
  /\ call.since <= LLMTimeout + call.waited
  /\ call.pc = "embed" => route = "chat"

CallsInTime ==
  /\ route \in Routes
  /\ calls \in [Callers -> [pc : {"idle", "embed", "complete"}, since : Nat, waited : Nat]]
  /\ \A c \in Callers : InTime(calls[c])
  /\ reply.since \in Nat /\ AnsweredInTime

LEMMA CallsInTimeStep == CallsInTime /\ [NexxaNext]_<<vars, nexxa>> => CallsInTime'
<1> SUFFICES ASSUME CallsInTime, [NexxaNext]_<<vars, nexxa>> PROVE CallsInTime'
  OBVIOUS
<1>1. route' = route
  BY RouteStays
<1> DEFINE Call == [pc : {"idle", "embed", "complete"}, since : Nat, waited : Nat]
\* A call that goes on as another that is in time leaves the calls in time.
<1>2. ASSUME NEW c \in Callers, NEW call \in Call, InTime(call),
             calls' = [calls EXCEPT ![c] = call]
      PROVE  calls' \in [Callers -> Call] /\ \A d \in Callers : InTime(calls[d])'
  <2>1. calls' \in [Callers -> Call]
    BY <1>2 DEF CallsInTime
  <2>2. ASSUME NEW d \in Callers PROVE InTime(calls[d])'
    <3>1. calls'[d] = call \/ calls'[d] = calls[d]
      BY <1>2 DEF CallsInTime
    <3> QED
      BY <1>1, <1>2, <3>1 DEF CallsInTime, InTime
  <2> QED
    BY <2>1, <2>2
<1>3. ASSUME UNCHANGED calls
      PROVE  calls' \in [Callers -> Call] /\ \A d \in Callers : InTime(calls[d])'
  BY <1>1, <1>3 DEF CallsInTime, InTime
<1>4. NoCall \in Call /\ InTime(NoCall)
  BY NexxaAssumption DEF NoCall, InTime
<1>5. ASSUME UNCHANGED reply PROVE reply'.since \in Nat /\ AnsweredInTime'
  BY <1>1, <1>5 DEF CallsInTime, AnsweredInTime
<1>6. ASSUME NEW since \in Nat, NEW code, NEW said, NEW result, Answer(code, said, result, since),
             since <= IF route = "chat" THEN 2 * LLMTimeout ELSE WriteTimeout
      PROVE  reply'.since \in Nat /\ AnsweredInTime'
  BY <1>1, <1>6 DEF Answer, AnsweredInTime
<1>7. 0 <= IF route = "chat" THEN 2 * LLMTimeout ELSE WriteTimeout
  BY NexxaAssumption
<1>8. ASSUME NEW c \in Callers, NEW ip \in Ips, Arrive(c, ip) PROVE CallsInTime'
  <2>1. CASE UNCHANGED calls
    <3>1. UNCHANGED reply \/ \E code \in Nat : Answer(code, None, None, 0)
      BY <1>8 DEF Arrive
    <3> QED
      BY <1>1, <1>3, <1>5, <1>6, <1>7, <2>1, <3>1 DEF CallsInTime
  <2>2. CASE ~UNCHANGED calls
    <3> DEFINE call == [calls[c] EXCEPT !["pc"] = IF route = "chat" THEN "embed" ELSE "complete"]
    <3>1. calls[c].pc = "idle" /\ calls' = [calls EXCEPT ![c] = call] /\ UNCHANGED reply
      BY <1>8, <2>2 DEF Arrive
    <3>2. call \in Call /\ InTime(call)
      BY <3>1, NexxaAssumption DEF CallsInTime, InTime
    <3> QED
      BY <1>1, <1>2, <1>5, <3>1, <3>2 DEF CallsInTime
  <2> QED
    BY <2>1, <2>2
<1>9. ASSUME NEW c \in Callers, Retrieved(c) PROVE CallsInTime'
  <2> DEFINE call == [pc |-> "complete", since |-> calls[c].since, waited |-> 0]
  <2>1. calls' = [calls EXCEPT ![c] = call] /\ UNCHANGED reply
    BY <1>9 DEF Retrieved, CallsInTime
  <2>2. call \in Call /\ InTime(call)
    BY <1>9, NexxaAssumption DEF Retrieved, CallsInTime, InTime
  <2> QED
    BY <1>1, <1>2, <1>5, <2>1, <2>2 DEF CallsInTime
<1>10. ASSUME NEW c \in Callers, Completed(c) \/ HangUp(c) PROVE CallsInTime'
  <2>1. calls' = [calls EXCEPT ![c] = NoCall]
    BY <1>10 DEF Completed, GiveUp, HangUp
  <2>2. /\ calls[c].since \in Nat
        /\ calls[c].since <= IF route = "chat" THEN 2 * LLMTimeout ELSE WriteTimeout
    BY NexxaAssumption DEF CallsInTime, InTime
  <2>3. UNCHANGED reply \/ \E code, said, result : Answer(code, said, result, calls[c].since)
    BY <1>10 DEF Completed, GiveUp, HangUp
  <2> QED
    BY <1>1, <1>2, <1>4, <1>5, <1>6, <2>1, <2>2, <2>3 DEF CallsInTime
<1>11. CASE Stateless
  <2>1. UNCHANGED calls /\ \E code, said, result : Answer(code, said, result, 0)
    BY <1>11 DEF Stateless, Unauthorized, ValidateNexxaInput, ValidateCvInput, Validate,
                 NormalizeNexxaOutput, NormalizeCvOutput, Normalize
  <2> QED
    BY <1>1, <1>3, <1>6, <1>7, <2>1 DEF CallsInTime
<1>12. CASE Pass
  <2>1. ASSUME NEW c \in Callers
        PROVE  Later(calls[c]) \in Call /\ InTime(Later(calls[c]))
    <3>1. calls[c] \in Call /\ InTime(calls[c]) /\ calls[c].waited < LLMTimeout
      BY <1>12 DEF Pass, CallsInTime
    <3> DEFINE later == [pc |-> calls[c].pc, since |-> calls[c].since + 1,
                         waited |-> calls[c].waited + 1]
    <3>2. calls[c].pc # "idle" => Later(calls[c]) = later
      BY <3>1 DEF Later
    <3>3. later \in Call /\ InTime(later)
      BY <3>1, NexxaAssumption DEF InTime
    <3> QED
      BY <3>1, <3>2, <3>3 DEF Later
  <2>2. calls' = [c \in Callers |-> Later(calls[c])] /\ UNCHANGED reply
    BY <1>12 DEF Pass
  <2>3. calls' \in [Callers -> Call]
    BY <2>1, <2>2
  <2>4. ASSUME NEW c \in Callers PROVE InTime(calls[c])'
    BY <1>1, <2>1, <2>2 DEF InTime
  <2> QED
    BY <1>1, <1>5, <2>2, <2>3, <2>4 DEF CallsInTime
<1>13. CASE Count \/ UNCHANGED <<vars, nexxa>>
  BY <1>1, <1>3, <1>5, <1>13 DEF Count, nexxa, CallsInTime
<1> QED
  BY <1>8, <1>9, <1>10, <1>11, <1>12, <1>13 DEF NexxaNext, Stateless

\* Match and cv-review answer within the time that the server allows, chat within
\* that of two requests to the model.
THEOREM InTimeAlways == NexxaSpec => []AnsweredInTime
<1>1. NexxaInit => CallsInTime
  BY NexxaAssumption DEF NexxaInit, CallsInTime, InTime, NoCall, AnsweredInTime
<1> QED
  BY <1>1, CallsInTimeStep, PTL DEF NexxaSpec, CallsInTime
-----------------------------------------------------------------------------
(* Types.                                                                  *)

\* Only the statuses of the endpoints are answered.
LEMMA CodesStep ==
  ASSUME reply.code \in Codes, [NexxaNext]_<<vars, nexxa>>
  PROVE  reply'.code \in Codes
<1>1. ASSUME NEW code \in Codes, NEW said, NEW result, NEW since, Answer(code, said, result, since)
      PROVE  reply'.code \in Codes
  BY <1>1 DEF Answer
<1>2. /\ {200, 400, 401, 422, 429, 502, 504} \subseteq Codes
      /\ \A said : Outcome(said).code \in Codes
  BY DEF Codes, Outcome
<1>3. CASE UNCHANGED reply
  BY <1>3
<1>4. ASSUME NEW c \in Callers, NEW ip \in Ips, Arrive(c, ip) PROVE reply'.code \in Codes
  <2>1. CASE ~answer'.ok
    <3>1. Answer(429, None, None, 0)
      BY <1>4, <2>1, Zenon DEF Arrive
    <3> QED
      BY <1>1, <1>2, <3>1
  <2>2. CASE answer'.ok
    <3>1. \/ Answer(400, None, None, 0)
          \/ \E input \in Inputs : Answer(400, None, None, 0) \/ UNCHANGED reply
      BY <1>4, <2>2, Zenon DEF Arrive
    <3> QED
      BY <1>1, <1>2, <1>3, <3>1
  <2> QED
    BY <2>1, <2>2
<1>5. ASSUME NEW c \in Callers, Completed(c) PROVE reply'.code \in Codes
  <2>1. CASE \E said \in Outputs[route] :
               Answer(Outcome(said).code, said, Outcome(said).result, calls[c].since)
    BY <1>1, <1>2, <2>1
  <2>2. CASE \E code \in {502, 504} : GiveUp(c, code)
    BY <1>1, <1>2, <2>2 DEF GiveUp
  <2>3. \/ \E said \in Outputs[route] :
             Answer(Outcome(said).code, said, Outcome(said).result, calls[c].since)
        \/ \E code \in {502, 504} : GiveUp(c, code)
    BY <1>5, Zenon DEF Completed
  <2> QED
    BY <2>1, <2>2, <2>3
<1>6. CASE Unauthorized
  BY <1>1, <1>2, <1>6 DEF Unauthorized
<1>7. CASE ValidateNexxaInput \/ ValidateCvInput
  <2>1. PICK input \in Inputs : Answer(400, None, None, 0) \/ Answer(200, None, Sanitized(input), 0)
    BY <1>7, Zenon DEF ValidateNexxaInput, ValidateCvInput, Validate
  <2> QED
    BY <1>1, <1>2, <2>1
<1>8. CASE NormalizeNexxaOutput \/ NormalizeCvOutput
  BY <1>1, <1>2, <1>8 DEF NormalizeNexxaOutput, NormalizeCvOutput, Normalize
<1>9. ASSUME NEW c \in Callers, Retrieved(c) \/ HangUp(c) PROVE UNCHANGED reply
  BY <1>9 DEF Retrieved, HangUp
<1>10. ASSUME Pass \/ Count \/ UNCHANGED <<vars, nexxa>> PROVE UNCHANGED reply
  BY <1>10 DEF Pass, Count, nexxa
<1> QED
  BY <1>3, <1>4, <1>5, <1>6, <1>7, <1>8, <1>9, <1>10 DEF NexxaNext

\* Every variable has its type; nobody waits for the model longer than LLM_TIMEOUT, or
\* for longer than the call has been under way.
THEOREM TypesAlways == NexxaSpec => []NexxaTypeOK
<1>1. NexxaInit => CallsInTime /\ reply.code \in Codes
  BY NexxaAssumption
  DEF NexxaInit, CallsInTime, InTime, NoCall, AnsweredInTime, Codes
<1>2. CallsInTime /\ reply.code \in Codes /\ [NexxaNext]_<<vars, nexxa>>
        => (CallsInTime /\ reply.code \in Codes)'
  BY CallsInTimeStep, CodesStep
<1>3. TypeOK /\ CallsInTime /\ reply.code \in Codes => NexxaTypeOK
  <2> SUFFICES ASSUME TypeOK, CallsInTime, reply.code \in Codes PROVE NexxaTypeOK
    OBVIOUS
  <2>1. calls \in [Callers -> [pc : {"idle", "embed", "complete"}, since : Nat,
                               waited : 0 .. LLMTimeout]]
    <3>1. ASSUME NEW c \in Callers
          PROVE  calls[c] \in [pc : {"idle", "embed", "complete"}, since : Nat,
                               waited : 0 .. LLMTimeout]
      BY DEF CallsInTime, InTime
    <3> QED
      BY <3>1 DEF CallsInTime
  <2> QED
    BY <2>1 DEF NexxaTypeOK, CallsInTime, InTime
<1>4. NexxaSpec => []TypeOK
  BY KeepsToLimiter, Invariance, PTL DEF Inv
<1> QED
  BY <1>1, <1>2, <1>3, <1>4, PTL DEF NexxaSpec
-----------------------------------------------------------------------------
(* Loops.                                                                  *)

\* A set of numbers that is not empty has a first.
LEMMA First ==
  ASSUME NEW T \in SUBSET Nat, T # {}
  PROVE  \E n \in T : \A m \in T : n <= m
<1>1. PICK R : R = OpToRel(<, Nat)
  BY Zenon
<1>2. IsWellFoundedOn(R, Nat)
  BY <1>1, NatLessThanWellFounded, Zenon
<1>3. PICK n \in T : \A m \in T : <<m, n>> \notin R
  BY <1>2, WFMin
<1>4. \A m, k \in Nat : m < k => <<m, k>> \in R
  BY <1>1 DEF OpToRel
<1>5. ASSUME NEW m \in T PROVE n <= m
  <2>1. m \in Nat /\ n \in Nat
    OBVIOUS
  <2>2. ~(m < n)
    BY <1>3, <1>4, <2>1, Zenon
  <2> QED
    BY <2>1, <2>2
<1> QED
  BY <1>5

\* What holds at first and is kept from each number to the next holds of all.
LEMMA FromFirstToLast ==
  ASSUME NEW n \in Nat, NEW T, 0 \in T, \A i \in 1 .. n : i - 1 \in T => i \in T
  PROVE  \A i \in 0 .. n : i \in T
<1> SUFFICES ASSUME NEW k \in 0 .. n, k \notin T PROVE FALSE
  OBVIOUS
<1> DEFINE U == {i \in 0 .. n : i \notin T}
<1>1. U \in SUBSET Nat /\ U # {}
  OBVIOUS
<1> HIDE DEF U
<1>2. PICK i \in U : \A j \in U : i <= j
  BY <1>1, First
<1>3. i \in 0 .. n /\ i # 0 /\ i \notin T
  BY DEF U
<1>4. i \in 1 .. n /\ i - 1 \in 0 .. n /\ ~(i <= i - 1)
  BY <1>3
<1>5. i - 1 \in T
  BY <1>2, <1>4 DEF U
<1> QED
  BY <1>3, <1>4, <1>5

\* A step repeated n times.
LEMMA Repeated ==
  ASSUME NEW n \in Nat, NEW R, NEW start \in R, NEW step \in [1 .. n -> [R -> R]]
  PROVE  \E f \in [0 .. n -> R] : f[0] = start /\ \A i \in 1 .. n : f[i] = step[i][f[i - 1]]
<1> DEFINE Goes(f, k) == f[0] = start /\ \A i \in 1 .. k : f[i] = step[i][f[i - 1]]
<1> DEFINE T == {k \in 0 .. n : \E f \in [0 .. k -> R] : Goes(f, k)}
<1>1. 0 \in T
  <2>1. [i \in 0 .. 0 |-> start] \in [0 .. 0 -> R] /\ Goes([i \in 0 .. 0 |-> start], 0)
    OBVIOUS
  <2> HIDE DEF Goes
  <2> QED
    BY <2>1
<1>2. ASSUME NEW k \in 1 .. n, k - 1 \in T PROVE k \in T
  <2>1. PICK g \in [0 .. k - 1 -> R] : Goes(g, k - 1)
    BY <1>2
  <2> DEFINE h == [i \in 0 .. k |-> IF i = k THEN step[k][g[k - 1]] ELSE g[i]]
  <2>2. h \in [0 .. k -> R]
    OBVIOUS
  <2>3. h[0] = start
    BY <2>1
  <2>4. ASSUME NEW i \in 1 .. k PROVE h[i] = step[i][h[i - 1]]
    <3>1. h[i - 1] = g[i - 1]
      OBVIOUS
    <3>2. i # k => h[i] = g[i] /\ i \in 1 .. k - 1
      OBVIOUS
    <3> QED
      BY <2>1, <3>1, <3>2
  <2>5. Goes(h, k)
    BY <2>3, <2>4
  <2> HIDE DEF Goes, h
  <2> QED
    BY <2>2, <2>5
<1>3. \A k \in 0 .. n : k \in T
  <2> HIDE DEF T
  <2> QED
    BY <1>1, <1>2, FromFirstToLast
<1>4. n \in T
  <2> HIDE DEF T
  <2> QED
    BY <1>3
<1> QED
  BY <1>4

-----------------------------------------------------------------------------
(* Audits.                                                                 *)

\* The loop over a list goes through its items.
Item == [name : STRING, object : BOOLEAN, complete : BOOLEAN]
Numbered == [id : Nat, name : STRING]
Readings == [ok : BOOLEAN, full : BOOLEAN, out : Seq(Numbered)]

LEMMA ReadItemType ==
  ASSUME NEW r \in Readings, NEW item \in Item, NEW cap \in Nat \ {0}
  PROVE  ReadItem(r, item, cap) \in Readings
<1> DEFINE next == [id |-> Len(r.out) + 1, name |-> item.name]
<1>1. next \in Numbered
  BY DEF Readings, Item, Numbered
<1> HIDE DEF next
<1>2. Append(r.out, next) \in Seq(Numbered) /\ Len(Append(r.out, next)) \in Nat
  BY <1>1 DEF Readings
<1>3. [r EXCEPT !.ok = FALSE] \in Readings
  BY DEF Readings
<1>4. [ok |-> TRUE, full |-> Full(Append(r.out, next), cap), out |-> Append(r.out, next)] \in Readings
  BY <1>2 DEF Readings, Full
<1> QED
  BY <1>3, <1>4 DEF ReadItem, next

LEMMA ListIsRead ==
  ASSUME NEW list \in Seq(Item), NEW cap \in Nat \ {0}
  PROVE  \E read \in [0 .. Len(list) -> Readings] :
           /\ read[0] = Reading
           /\ \A i \in 1 .. Len(list) : read[i] = ReadItem(read[i - 1], list[i], cap)
           /\ ReadList(list, cap) = read[Len(list)]
<1> DEFINE n == Len(list)
           step == [i \in 1 .. n |-> [r \in Readings |-> ReadItem(r, list[i], cap)]]
           Goes(f) == f = [i \in 0 .. n |-> IF i = 0 THEN Reading ELSE ReadItem(f[i - 1], list[i], cap)]
<1>1. n \in Nat /\ Reading \in Readings
  BY DEF Reading, Readings
<1>2. step \in [1 .. n -> [Readings -> Readings]]
  BY ReadItemType
<1>3. PICK g \in [0 .. n -> Readings] : g[0] = Reading /\ \A i \in 1 .. n : g[i] = step[i][g[i - 1]]
  <2> HIDE DEF n, step
  <2>1. PICK R : R = Readings
    OBVIOUS
  <2>2. n \in Nat /\ Reading \in R /\ step \in [1 .. n -> [R -> R]]
    BY <1>1, <1>2, <2>1
  <2>3. \E f \in [0 .. n -> R] : f[0] = Reading /\ \A i \in 1 .. n : f[i] = step[i][f[i - 1]]
    BY <2>2, Repeated
  <2> QED
    BY <2>1, <2>3
<1>4. ASSUME NEW i \in 1 .. n PROVE g[i] = ReadItem(g[i - 1], list[i], cap)
  <2>1. g[i - 1] \in Readings
    BY <1>1
  <2> QED
    BY <1>3, <2>1
<1>5. g = [i \in 0 .. n |-> IF i = 0 THEN Reading ELSE ReadItem(g[i - 1], list[i], cap)]
  <2> HIDE DEF n
  <2> QED BY <1>1, <1>3, <1>4
<1>6. PICK f : f = (CHOOSE e : Goes(e))
  OBVIOUS
<1>7. Goes(f)
  BY <1>5, <1>6
<1>8. ReadList(list, cap) = f[n]
  BY <1>6, Zenon DEF ReadList
<1>9. f[0] = Reading /\ \A i \in 1 .. n : f[i] = ReadItem(f[i - 1], list[i], cap)
  <2> HIDE DEF n
  <2>1. f = [i \in 0 .. n |-> IF i = 0 THEN Reading ELSE ReadItem(f[i - 1], list[i], cap)]
    BY <1>7
  <2> HIDE DEF Goes
  <2> QED
    BY <1>1, <2>1
<1>10. ASSUME NEW i \in 0 .. n PROVE f[i] = g[i]
  <2> DEFINE T == {j \in 0 .. n : f[j] = g[j]}
  <2>1. 0 \in T /\ \A j \in 1 .. n : j - 1 \in T => j \in T
    BY <1>1, <1>3, <1>4, <1>9
  <2> HIDE DEF n, T
  <2>2. i \in T
    BY <1>1, <2>1, FromFirstToLast
  <2> QED
    BY <2>2 DEF T
<1> QED
  BY <1>1, <1>3, <1>4, <1>8, <1>10

\* After the first i items: those up to the cap were taken, in order and numbered,
\* unless one of them is incomplete.
Taken(list, cap, i, r) ==
  IF r.ok
  THEN /\ Len(r.out) = Least(i, cap)
       /\ r.full <=> i >= cap
       /\ \A j \in 1 .. Least(i, cap) :
            list[j].complete /\ r.out[j] = [id |-> j, name |-> list[j].name]
  ELSE \E j \in 1 .. Least(i, cap) : ~list[j].complete

LEMMA ItemTaken ==
  ASSUME NEW list \in Seq(Item), NEW cap \in Nat \ {0}, NEW i \in 1 .. Len(list),
         NEW r \in Readings, Taken(list, cap, i - 1, r)
  PROVE  Taken(list, cap, i, ReadItem(r, list[i], cap))
<1>1. /\ i \in Nat /\ i - 1 \in Nat /\ list[i] \in Item
      /\ Least(i, cap) \in Nat /\ Least(i - 1, cap) \in Nat /\ Least(i - 1, cap) <= Least(i, cap)
  BY DEF Least
<1>2. CASE ~r.ok
  BY <1>1, <1>2 DEF Taken, ReadItem
<1>3. CASE r.ok /\ r.full
  <2>1. Least(i, cap) = cap /\ Least(i - 1, cap) = cap /\ i >= cap
    BY <1>1, <1>3 DEF Taken, Least
  <2> QED
    BY <1>1, <1>3, <2>1 DEF Taken, ReadItem
<1>4. CASE r.ok /\ ~r.full
  <2>1. Least(i, cap) = i /\ Least(i - 1, cap) = i - 1 /\ i <= cap
    BY <1>1, <1>4 DEF Taken, Least, Readings
  <2>2. CASE ~list[i].complete
    <3>1. ~ReadItem(r, list[i], cap).ok
      BY <1>4, <2>2 DEF ReadItem, Readings
    <3> QED
      BY <2>1, <2>2, <3>1 DEF Taken
  <2>3. CASE list[i].complete
    <3> DEFINE next == [id |-> Len(r.out) + 1, name |-> list[i].name]
               out  == Append(r.out, next)
    <3>1. ReadItem(r, list[i], cap) = [ok |-> TRUE, full |-> Full(out, cap), out |-> out]
      BY <1>4, <2>3 DEF ReadItem
    <3>2. Len(r.out) = i - 1 /\ r.out \in Seq(Numbered)
      BY <1>4, <2>1 DEF Taken, Readings
    <3>3. next = [id |-> i, name |-> list[i].name] /\ next \in Numbered
      BY <1>1, <3>2 DEF Item, Numbered
    <3> HIDE DEF next
    <3>4. /\ Len(out) = i
          /\ \A j \in 1 .. i : out[j] = IF j = i THEN next ELSE r.out[j]
      BY <1>1, <3>2, <3>3
    <3>5. \A j \in 1 .. i - 1 : list[j].complete /\ r.out[j] = [id |-> j, name |-> list[j].name]
      BY <1>4, <2>1 DEF Taken
    <3>6. \A j \in 1 .. i : list[j].complete /\ out[j] = [id |-> j, name |-> list[j].name]
      <4> HIDE DEF out
      <4> TAKE j \in 1 .. i
      <4>1. CASE j = i
        BY <2>3, <3>3, <3>4, <4>1
      <4>2. CASE j # i
        <5>1. j \in 1 .. i - 1
          BY <1>1, <4>2
        <5> QED
          BY <3>4, <3>5, <4>2, <5>1
      <4> QED
        BY <4>1, <4>2
    <3>7. Full(out, cap) <=> i >= cap
      BY <3>4 DEF Full
    <3> HIDE DEF out
    <3> QED
      BY <2>1, <3>1, <3>4, <3>6, <3>7 DEF Taken
  <2> QED
    BY <2>2, <2>3
<1> QED
  BY <1>2, <1>3, <1>4

\* What the loop makes of a list: its first items, or nothing if one of them is incomplete.
LEMMA ListsAreRead ==
  ASSUME NEW list \in Seq(Item), NEW cap \in Nat \ {0}
  PROVE  /\ Taken(list, cap, Len(list), ReadList(list, cap))
         /\ ReadList(list, cap) \in Readings
<1>1. PICK read \in [0 .. Len(list) -> Readings] :
        /\ read[0] = Reading
        /\ \A i \in 1 .. Len(list) : read[i] = ReadItem(read[i - 1], list[i], cap)
        /\ ReadList(list, cap) = read[Len(list)]
  BY ListIsRead
<1> DEFINE T == {i \in 0 .. Len(list) : Taken(list, cap, i, read[i])}
<1>2. 0 \in T
  BY <1>1 DEF Taken, Reading, Least
<1>3. \A i \in 1 .. Len(list) : i - 1 \in T => i \in T
  BY <1>1, ItemTaken
<1>4. Len(list) \in T
  <2>1. Len(list) \in Nat
    OBVIOUS
  <2> HIDE DEF T
  <2>2. \A i \in 0 .. Len(list) : i \in T
    BY <1>2, <1>3, <2>1, FromFirstToLast
  <2> QED
    BY <2>1, <2>2
<1>5. Len(list) \in 0 .. Len(list)
  BY <1>4
<1> QED
  BY <1>1, <1>4, <1>5

\* What comes of a list: its first items, or nothing if one of them is incomplete, or
\* any item at all is no object.
THEOREM ListsAreCut ==
  ASSUME NEW list \in Seq(Item), NEW cap \in Nat \ {0}
  PROVE  LET r == NormalizedList(list, cap) IN
         /\ r \in Readings
         /\ IF \E i \in DOMAIN list : ~list[i].object THEN ~r.ok
            ELSE Taken(list, cap, Len(list), r)
<1>1. CASE \E i \in DOMAIN list : ~list[i].object
  <2>1. NormalizedList(list, cap) = [Reading EXCEPT !.ok = FALSE]
    BY <1>1 DEF NormalizedList
  <2>2. PICK r \in Readings : r = Reading
    <3>1. Reading \in Readings
      BY DEF Reading, Readings
    <3> QED
      BY <3>1
  <2>3. [r EXCEPT !.ok = FALSE] \in Readings /\ ~[r EXCEPT !.ok = FALSE].ok
    BY DEF Readings
  <2> QED
    BY <1>1, <2>1, <2>2, <2>3
<1>2. CASE ~\E i \in DOMAIN list : ~list[i].object
  <2>1. NormalizedList(list, cap) = ReadList(list, cap)
    BY <1>2, Zenon DEF NormalizedList
  <2>2. ReadList(list, cap) \in Readings /\ Taken(list, cap, Len(list), ReadList(list, cap))
    BY ListsAreRead
  <2> QED
    BY <1>2, <2>1, <2>2, Zenon
<1> QED
  BY <1>1, <1>2

\* The loop over strings goes through them.
Gatherings == [ok : BOOLEAN, full : BOOLEAN, out : Seq(STRING)]

LEMMA StringsAreRead ==
  ASSUME NEW list \in Seq(STRING), NEW cap \in Nat \ {0}
  PROVE  \E read \in [0 .. Len(list) -> Gatherings] :
           /\ read[0] = Reading
           /\ \A i \in 1 .. Len(list) : read[i] = ReadString(read[i - 1], list[i], cap)
           /\ NormalizedStrings(list, cap) = read[Len(list)].out
<1> DEFINE n == Len(list)
           step == [i \in 1 .. n |-> [r \in Gatherings |-> ReadString(r, list[i], cap)]]
           Goes(f) == f = [i \in 0 .. n |-> IF i = 0 THEN Reading ELSE ReadString(f[i - 1], list[i], cap)]
<1>1. n \in Nat /\ Reading \in Gatherings
  BY DEF Reading, Gatherings
<1>2. step \in [1 .. n -> [Gatherings -> Gatherings]]
  <2>1. ASSUME NEW r \in Gatherings, NEW s \in STRING PROVE ReadString(r, s, cap) \in Gatherings
    <3>1. Append(r.out, s) \in Seq(STRING) /\ Len(Append(r.out, s)) \in Nat
      BY DEF Gatherings
    <3>2. [ok |-> TRUE, full |-> Full(Append(r.out, s), cap), out |-> Append(r.out, s)] \in Gatherings
      BY <3>1 DEF Gatherings, Full
    <3> QED
      BY <3>2 DEF ReadString
  <2>2. \A i \in 1 .. n : list[i] \in STRING
    OBVIOUS
  <2> HIDE DEF n
  <2> QED
    BY <2>1, <2>2
<1>3. PICK g \in [0 .. n -> Gatherings] : g[0] = Reading /\ \A i \in 1 .. n : g[i] = step[i][g[i - 1]]
  <2> HIDE DEF n, step
  <2>1. PICK R : R = Gatherings
    OBVIOUS
  <2>2. n \in Nat /\ Reading \in R /\ step \in [1 .. n -> [R -> R]]
    BY <1>1, <1>2, <2>1
  <2>3. \E f \in [0 .. n -> R] : f[0] = Reading /\ \A i \in 1 .. n : f[i] = step[i][f[i - 1]]
    BY <2>2, Repeated
  <2> QED
    BY <2>1, <2>3
<1>4. ASSUME NEW i \in 1 .. n PROVE g[i] = ReadString(g[i - 1], list[i], cap)
  <2>1. g[i - 1] \in Gatherings
    BY <1>1
  <2> QED
    BY <1>3, <2>1
<1>5. g = [i \in 0 .. n |-> IF i = 0 THEN Reading ELSE ReadString(g[i - 1], list[i], cap)]
  <2> HIDE DEF n
  <2> QED
    BY <1>1, <1>3, <1>4
<1>6. PICK f : f = (CHOOSE e : Goes(e))
  OBVIOUS
<1>7. Goes(f)
  BY <1>5, <1>6
<1>8. NormalizedStrings(list, cap) = f[n].out
  BY <1>6, Zenon DEF NormalizedStrings
<1>9. f[0] = Reading /\ \A i \in 1 .. n : f[i] = ReadString(f[i - 1], list[i], cap)
  <2> HIDE DEF n
  <2>1. f = [i \in 0 .. n |-> IF i = 0 THEN Reading ELSE ReadString(f[i - 1], list[i], cap)]
    BY <1>7
  <2> HIDE DEF Goes
  <2> QED
    BY <1>1, <2>1
<1>10. ASSUME NEW i \in 0 .. n PROVE f[i] = g[i]
  <2> DEFINE T == {j \in 0 .. n : f[j] = g[j]}
  <2>1. 0 \in T /\ \A j \in 1 .. n : j - 1 \in T => j \in T
    BY <1>1, <1>3, <1>4, <1>9
  <2> HIDE DEF n, T
  <2>2. i \in T
    BY <1>1, <2>1, FromFirstToLast
  <2> QED
    BY <2>2 DEF T
<1> QED
  BY <1>1, <1>3, <1>4, <1>8, <1>10

\* How many of the first i strings are not blank.
LEMMA WrittenCount ==
  ASSUME NEW list \in Seq(STRING), NEW i \in 1 .. Len(list)
  PROVE  /\ Cardinality(Written(list, i - 1)) \in Nat /\ Cardinality(Written(list, i)) \in Nat
         /\ list[i] = "" => Written(list, i) = Written(list, i - 1)
         /\ list[i] # "" => /\ Written(list, i) = Written(list, i - 1) \cup {i}
                            /\ Cardinality(Written(list, i)) = Cardinality(Written(list, i - 1)) + 1
         /\ \A j \in Written(list, i - 1) :
              Cardinality(Written(list, j)) \in 1 .. Cardinality(Written(list, i - 1))
<1>1. \A j \in 0 .. Len(list) : IsFiniteSet(Written(list, j))
                                 /\ Cardinality(Written(list, j)) \in Nat
  <2> TAKE j \in 0 .. Len(list)
  <2>1. IsFiniteSet(1 .. j)
    BY FS_Interval
  <2>2. Written(list, j) \subseteq 1 .. j
    BY DEF Written
  <2>3. IsFiniteSet(Written(list, j))
    BY <2>1, <2>2, FS_Subset
  <2> QED
    BY <2>3, FS_CardinalityType
<1>2. /\ i \in 0 .. Len(list) /\ i - 1 \in 0 .. Len(list)
      /\ 1 .. i = (1 .. i - 1) \cup {i} /\ i \notin 1 .. i - 1
  OBVIOUS
<1>3. list[i] = "" => Written(list, i) = Written(list, i - 1)
  BY <1>2 DEF Written
<1>4. list[i] # "" => Written(list, i) = Written(list, i - 1) \cup {i}
  BY <1>2 DEF Written
<1>5. list[i] # "" => Cardinality(Written(list, i)) = Cardinality(Written(list, i - 1)) + 1
  <2>1. PICK S : S = Written(list, i - 1)
    OBVIOUS
  <2>2. i \notin S /\ IsFiniteSet(S)
    BY <1>1, <1>2, <2>1 DEF Written
  <2>3. Cardinality(S \cup {i}) = Cardinality(S) + 1
    BY <2>2, FS_AddElement
  <2> QED
    BY <1>4, <2>1, <2>3
<1>6. ASSUME NEW j \in Written(list, i - 1)
      PROVE  Cardinality(Written(list, j)) \in 1 .. Cardinality(Written(list, i - 1))
  <2>1. j \in 1 .. i - 1 /\ list[j] # ""
    BY DEF Written
  <2>2. /\ j \in 0 .. Len(list) /\ j \in 1 .. j
        /\ 1 .. j \subseteq 1 .. i - 1
    <3>1. Len(list) \in Nat /\ i \in Nat /\ i <= Len(list)
      OBVIOUS
    <3>2. j \in 1 .. i - 1
      BY <2>1, Zenon
    <3> QED
      BY <3>1, <3>2
  <2>3. j \in Written(list, j) /\ Written(list, j) \subseteq Written(list, i - 1)
    BY <2>1, <2>2 DEF Written
  <2>4. Cardinality(Written(list, j)) <= Cardinality(Written(list, i - 1))
    BY <1>1, <1>2, <2>3, FS_Subset
  <2>5. Cardinality(Written(list, j)) # 0
    BY <1>1, <2>2, <2>3, FS_EmptySet
  <2> QED
    BY <1>1, <1>2, <2>2, <2>4, <2>5
<1> QED
  BY <1>1, <1>2, <1>3, <1>4, <1>5, <1>6

\* After the first i strings: those that are not blank were gathered, up to the cap.
Gathered(list, cap, i, r) ==
  LET n == Cardinality(Written(list, i)) IN
  /\ Len(r.out) = Least(n, cap)
  /\ r.full <=> n >= cap
  /\ \A j \in Written(list, i) :
       Cardinality(Written(list, j)) <= cap => r.out[Cardinality(Written(list, j))] = list[j]

LEMMA StringGathered ==
  ASSUME NEW list \in Seq(STRING), NEW cap \in Nat \ {0}, NEW i \in 1 .. Len(list),
         NEW r \in Gatherings, Gathered(list, cap, i - 1, r)
  PROVE  Gathered(list, cap, i, ReadString(r, list[i], cap))
<1>1. PICK n \in Nat : n = Cardinality(Written(list, i - 1))
  BY WrittenCount
<1>2. /\ Len(r.out) = Least(n, cap)
      /\ r.full <=> n >= cap
      /\ \A j \in Written(list, i - 1) :
           Cardinality(Written(list, j)) <= cap => r.out[Cardinality(Written(list, j))] = list[j]
  BY <1>1 DEF Gathered
<1>3. CASE list[i] = ""
  <2>1. Written(list, i) = Written(list, i - 1)
    BY <1>3, WrittenCount
  <2>2. ReadString(r, list[i], cap) = r
    BY <1>3 DEF ReadString
  <2> QED
    BY <1>1, <1>2, <2>1, <2>2 DEF Gathered
<1>4. CASE list[i] # ""
  <2>1. /\ Written(list, i) = Written(list, i - 1) \cup {i}
        /\ Cardinality(Written(list, i)) = n + 1
    BY <1>1, <1>4, WrittenCount
  <2>2. CASE r.full
    <3>1. ReadString(r, list[i], cap) = r
      BY <2>2 DEF ReadString
    <3>2. n >= cap /\ Least(n + 1, cap) = cap /\ Least(n, cap) = cap
      BY <1>2, <2>2 DEF Least
    <3>3. ~(n + 1 <= cap) /\ n + 1 >= cap
      BY <3>2
    <3>4. ASSUME NEW j \in Written(list, i), Cardinality(Written(list, j)) <= cap
          PROVE  r.out[Cardinality(Written(list, j))] = list[j]
      BY <1>2, <2>1, <3>3, <3>4
    <3> QED
      BY <1>2, <2>1, <2>2, <3>1, <3>2, <3>3, <3>4 DEF Gathered
  <2>3. CASE ~r.full
    <3>1. n < cap /\ Least(n + 1, cap) = n + 1 /\ Least(n, cap) = n
      BY <1>2, <2>3 DEF Least
    <3> DEFINE out == Append(r.out, list[i])
    <3>2. ReadString(r, list[i], cap) = [ok |-> TRUE, full |-> Full(out, cap), out |-> out]
      BY <1>4, <2>3 DEF ReadString
    <3>3. r.out \in Seq(STRING) /\ Len(r.out) = n
      BY <1>2, <3>1 DEF Gatherings
    <3>4. Len(out) = n + 1 /\ out[n + 1] = list[i] /\ \A k \in 1 .. n : out[k] = r.out[k]
      BY <3>3
    <3>5. Full(out, cap) <=> n + 1 >= cap
      BY <3>4 DEF Full
    <3> HIDE DEF out
    <3>6. ASSUME NEW j \in Written(list, i)
          PROVE  out[Cardinality(Written(list, j))] = list[j]
      <4>1. CASE j = i
        BY <2>1, <3>4, <4>1
      <4>2. CASE j # i
        <5>1. j \in Written(list, i - 1)
          BY <2>1, <4>2
        <5>2. Cardinality(Written(list, j)) \in 1 .. n
          BY <1>1, <5>1, WrittenCount
        <5> QED
          BY <1>2, <3>1, <3>4, <5>1, <5>2
      <4> QED
        BY <4>1, <4>2
    <3> QED
      BY <2>1, <3>1, <3>2, <3>4, <3>5, <3>6 DEF Gathered
  <2> QED
    BY <2>2, <2>3
<1> QED
  BY <1>3, <1>4

LEMMA StringsAreCut ==
  ASSUME NEW list \in Seq(STRING), NEW cap \in Nat \ {0}
  PROVE  \E r : /\ Gathered(list, cap, Len(list), r)
                /\ NormalizedStrings(list, cap) = r.out
<1>1. PICK read \in [0 .. Len(list) -> Gatherings] :
        /\ read[0] = Reading
        /\ \A i \in 1 .. Len(list) : read[i] = ReadString(read[i - 1], list[i], cap)
        /\ NormalizedStrings(list, cap) = read[Len(list)].out
  BY StringsAreRead
<1> DEFINE T == {i \in 0 .. Len(list) : Gathered(list, cap, i, read[i])}
<1>2. 0 \in T
  <2>1. Written(list, 0) = {}
    BY DEF Written
  <2>2. Cardinality(Written(list, 0)) = 0
    BY <2>1, FS_EmptySet
  <2> QED
    BY <1>1, <2>1, <2>2 DEF Gathered, Reading, Least
<1>3. \A i \in 1 .. Len(list) : i - 1 \in T => i \in T
  BY <1>1, StringGathered
<1>4. Len(list) \in T
  <2>1. Len(list) \in Nat
    OBVIOUS
  <2> HIDE DEF T
  <2>2. \A i \in 0 .. Len(list) : i \in T
    BY <1>2, <1>3, <2>1, FromFirstToLast
  <2> QED
    BY <2>1, <2>2
<1> QED
  BY <1>1, <1>4

\* What becomes of an audit: lists are cut and numbered, strings that are not blank
\* gathered, scores pressed into their range.
THEOREM AuditsArePrefixes == NexxaSpec => []CvIsPrefix
<1>1. route \in Routes /\ Answered => CvIsPrefix
  <2> SUFFICES ASSUME route = "cv", route \in Routes, Answered PROVE CvIsPrefix
    BY DEF CvIsPrefix, Said
  <2> DEFINE said == reply.said
  <2>1. ASSUME said # None
        PROVE  /\ \A l \in Lists : said.lists[l] \in Seq(Item)
               /\ \A k \in Keys : said.keys[k] \in Seq(STRING)
               /\ said.score \in Int /\ said.format_score \in Int
               /\ reply.code = Outcome(said).code /\ reply.result = Outcome(said).result
    BY <2>1, NexxaAssumption DEF Answered, Item
  <2>2. \A l \in Lists \cup Keys : Caps[l] \in Nat \ {0}
    BY CvAuditAssumption
  <2>3. ASSUME reply.code = 422
        PROVE  \/ said.form # "json" \/ ~said.summary \/ ~said.metrics
               \/ \E l \in Lists : \E i \in DOMAIN said.lists[l] : ~said.lists[l][i].object
               \/ \E l \in Lists : \E i \in 1 .. Least(Len(said.lists[l]), Caps[l]) :
                    ~said.lists[l][i].complete
    <3>1. said # None
      BY <2>3 DEF Answered
    <3>2. Unusable(said)
      BY <2>1, <2>3, <3>1 DEF Outcome
    <3>3. ASSUME NEW l \in Lists, ~NormalizedList(said.lists[l], Caps[l]).ok
          PROVE  \/ \E i \in DOMAIN said.lists[l] : ~said.lists[l][i].object
                 \/ \E i \in 1 .. Least(Len(said.lists[l]), Caps[l]) : ~said.lists[l][i].complete
      <4>1. \/ \E i \in DOMAIN said.lists[l] : ~said.lists[l][i].object
            \/ Taken(said.lists[l], Caps[l], Len(said.lists[l]),
                     NormalizedList(said.lists[l], Caps[l]))
        BY <2>1, <2>2, <3>1, ListsAreCut
      <4> QED
        BY <3>3, <4>1 DEF Taken
    <3> QED
      BY <3>2, <3>3 DEF Unusable
  <2>4. ASSUME said # None, reply.code = 200
        PROVE  ~Unusable(said) /\ reply.result = Audit(said)
    BY <2>1, <2>4 DEF Outcome
  <2>5. ASSUME said # None, reply.code = 200, NEW l \in Lists
        PROVE  LET in == said.lists[l]  out == reply.result.lists[l] IN
               /\ Len(out) = Least(Len(in), Caps[l])
               /\ \A i \in DOMAIN in : in[i].object
               /\ \A i \in DOMAIN out : in[i].complete /\ out[i] = [id |-> i, name |-> in[i].name]
    <3>1. PICK r : r = NormalizedList(said.lists[l], Caps[l])
      OBVIOUS
    <3>2. r.ok /\ reply.result.lists[l] = r.out
      BY <2>4, <2>5, <3>1 DEF Unusable, Audit
    <3>3. /\ Taken(said.lists[l], Caps[l], Len(said.lists[l]), r) /\ r \in Readings
          /\ \A i \in DOMAIN said.lists[l] : said.lists[l][i].object
      BY <2>1, <2>2, <2>5, <3>1, <3>2, ListsAreCut
    <3>4. DOMAIN r.out = 1 .. Len(r.out)
      BY <3>3 DEF Readings
    <3> QED
      BY <3>2, <3>3, <3>4 DEF Taken
  <2>6. ASSUME said # None, reply.code = 200, NEW k \in Keys
        PROVE  LET in == said.keys[k]  out == reply.result.keys[k] IN
               /\ Len(out) = Least(Cardinality(Written(in, Len(in))), Caps[k])
               /\ \A i \in Written(in, Len(in)) :
                    LET n == Cardinality(Written(in, i)) IN n <= Caps[k] => out[n] = in[i]
    <3>1. reply.result.keys[k] = NormalizedStrings(said.keys[k], Caps[k])
      BY <2>4, <2>6 DEF Audit
    <3>2. PICK r : /\ Gathered(said.keys[k], Caps[k], Len(said.keys[k]), r)
                   /\ NormalizedStrings(said.keys[k], Caps[k]) = r.out
      BY <2>1, <2>2, <2>6, StringsAreCut
    <3> QED
      BY <3>1, <3>2 DEF Gathered
  <2>7. ASSUME said # None, reply.code = 200
        PROVE  {reply.result.score, reply.result.format_score} \subseteq 0 .. 100
    <3>1. \A n \in Int : clampInt(n) \in 0 .. 100
      BY DEF clampInt
    <3>2. /\ reply.result.score = clampInt(said.score)
          /\ reply.result.format_score = clampInt(said.format_score)
      BY <2>4, <2>7 DEF Audit
    <3>3. clampInt(said.score) \in 0 .. 100 /\ clampInt(said.format_score) \in 0 .. 100
      BY <2>1, <2>7, <3>1
    <3> QED
      BY <3>2, <3>3
  <2> QED
    BY <2>3, <2>5, <2>6, <2>7 DEF CvIsPrefix, Said
<1> QED
  BY <1>1, AnsweredAlways, PTL
=============================================================================
