---------------------------- MODULE TokenBuckets ----------------------------
(***************************************************************************)
(* What a rate limiter promises: every client has a bucket, full at first, *)
(* that is filled up steadily, and each call takes a token out of it or is *)
(* turned away.  A window of time is opened now and then, to count the     *)
(* calls that are served in it.                                            *)
(***************************************************************************)
EXTENDS Naturals

CONSTANTS Ips,       \* client addresses
          perMinute, \* tokens that a bucket holds, and gets in a minute
          Minute     \* ticks in a minute; a token is counted as that many parts

VARIABLES
  level,  \* what is in each bucket
  answer, \* who called last, and whether the call was served
  served, \* calls served since the window was opened
  age     \* ticks since then

vars == <<level, answer, served, age>>

burst == perMinute * Minute

Least(x, y) == IF x < y THEN x ELSE y

Init ==
  /\ level = [ip \in Ips |-> burst]
  /\ answer \in {[ip |-> ip, ok |-> TRUE] : ip \in Ips}
  /\ served = [ip \in Ips |-> 0]
  /\ age = 0

\* A client calls.
Call(ip) ==
  LET ok == level[ip] >= Minute IN
  /\ level'  = IF ok THEN [level EXCEPT ![ip] = @ - Minute] ELSE level
  /\ served' = IF ok THEN [served EXCEPT ![ip] = @ + 1] ELSE served
  /\ answer' = [ip |-> ip, ok |-> ok]
  /\ UNCHANGED age

\* Time passes; every bucket gets its share.
Tick ==
  /\ level' = [ip \in Ips |-> Least(level[ip] + perMinute, burst)]
  /\ age' = age + 1
  /\ UNCHANGED <<answer, served>>

OpenWindow ==
  /\ served' = [ip \in Ips |-> 0]
  /\ age' = 0
  /\ UNCHANGED <<level, answer>>

Next == (\E ip \in Ips : Call(ip)) \/ Tick \/ OpenWindow

Spec == Init /\ [][Next]_vars

\* In no window of time is a client served more often than a full bucket and
\* what flows in during the window allow: in any minute, 2 * perMinute calls.
WindowBound == \A ip \in Ips : served[ip] * Minute <= burst + age * perMinute
=============================================================================
