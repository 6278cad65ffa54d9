---------------------------- MODULE RateLimiter -----------------------------
(***************************************************************************)
(* The rate limiter of the AI endpoints.  Allow runs under a mutex, as one *)
(* step.  Buckets are made when a client calls for the first time, filled  *)
(* up only when it calls again, and swept away when there are many and     *)
(* they have been idle for long: there is no background goroutine.         *)
(*                                                                         *)
(* Tokens are counted in parts, perMinute of which flow in per tick, as in *)
(* TokenBuckets; the rounding of floats is left out.                       *)
(***************************************************************************)
EXTENDS Naturals, FiniteSets

CONSTANTS Ips, perMinute, Minute, \* as in TokenBuckets
          maxBuckets, bucketIdleTTL,
          End                     \* bound: the last tick

ASSUME RateLimiterAssumption ==
  /\ IsFiniteSet(Ips)
  /\ perMinute \in Nat \ {0} /\ Minute \in Nat \ {0}
  /\ maxBuckets \in Nat
  /\ bucketIdleTTL \in Nat /\ bucketIdleTTL >= Minute
  /\ End \in Nat

VARIABLES
  now,
  ips,    \* the clients with a bucket
  tokens, \* what was in each bucket when it was last looked at
  last,   \* and when that was
  answer, served, age \* as in TokenBuckets

limiter == <<ips, tokens, last>>
vars    == <<now, limiter, answer, served, age>>

burst == perMinute * Minute

Least(x, y) == IF x < y THEN x ELSE y

\* Every variable has its type; no bucket runs over or was used in the future.
TypeOK ==
  /\ now \in Nat
  /\ ips \subseteq Ips
  /\ tokens \in [Ips -> 0 .. burst]
  /\ last \in [Ips -> 0 .. now]
  /\ answer \in [ip : Ips, ok : BOOLEAN]
  /\ served \in [Ips -> Nat]
  /\ age \in Nat

Init ==
  /\ now = 0
  /\ ips = {}
  /\ tokens = [ip \in Ips |-> burst]
  /\ last = [ip \in Ips |-> 0]
  /\ answer \in {[ip |-> ip, ok |-> TRUE] : ip \in Ips}
  /\ served = [ip \in Ips |-> 0]
  /\ age = 0
-----------------------------------------------------------------------------
\* Slip: buckets are swept as soon as they are idle.
IdleAtAll(ip) == now > last[ip]

Idle(ip) == now - last[ip] > bucketIdleTTL

\* sweep: nothing is deleted as long as there are few buckets.
Swept == IF Cardinality(ips) <= maxBuckets THEN {} ELSE {ip \in ips : Idle(ip)}

\* Slip: a bucket is filled beyond its size.
Overfilled(ip) == tokens[ip] + (now - last[ip]) * perMinute

\* What is in the bucket of ip when it calls; a new one is full.
Refilled(ip) ==
  IF ip \notin ips THEN burst
  ELSE Least(tokens[ip] + (now - last[ip]) * perMinute, burst)

Allow(ip) ==
  LET ok == Refilled(ip) >= Minute IN
  /\ ips' = IF ip \in ips THEN ips ELSE (ips \ Swept) \cup {ip}
  /\ tokens' = [tokens EXCEPT ![ip] = IF ok THEN Refilled(ip) - Minute ELSE Refilled(ip)]
  /\ last' = [last EXCEPT ![ip] = now]
  /\ answer' = [ip |-> ip, ok |-> ok]
  /\ served' = IF ok THEN [served EXCEPT ![ip] = @ + 1] ELSE served
  /\ UNCHANGED <<now, age>>

Tick ==
  /\ now < End
  /\ now' = now + 1
  /\ age' = age + 1
  /\ UNCHANGED <<limiter, answer, served>>

OpenWindow ==
  /\ served' = [ip \in Ips |-> 0]
  /\ age' = 0
  /\ UNCHANGED <<now, limiter, answer>>

Next == (\E ip \in Ips : Allow(ip)) \/ Tick \/ OpenWindow

Spec == Init /\ [][Next]_vars
-----------------------------------------------------------------------------
\* The bucket that each client would have if it were filled up all the time.
Level == [ip \in Ips |-> Refilled(ip)]

Buckets == INSTANCE TokenBuckets WITH level <- Level

\* Filling up late and sweeping never change an answer ("opportunistic cleanup
\* only", nexxa.md): no client is served or turned away but for its bucket.
ImplementsBuckets == Buckets!Spec

\* In no window of time is a client served more than the bucket and what flows in
\* allow ("rate-limited per client IP", nexxa.md).
WindowBound == Buckets!WindowBound
=============================================================================
