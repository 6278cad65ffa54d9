----------------------------- MODULE Snowflake ------------------------------
(***************************************************************************)
(* Ids: id.New packs a time in milliseconds, a node id and a sequence      *)
(* number into one number.  It runs under a mutex, so that each process    *)
(* has at most one call under way; that call reads the clock, sleeps as    *)
(* long as the clock is behind the last id's time, and, when all sequence  *)
(* numbers of a millisecond are used up, until the next one.  The clock    *)
(* may be set back, and processes may be restarted.                        *)
(***************************************************************************)
EXTENDS Integers, FiniteSets

CONSTANTS Processes,  \* running programs: the server, cmd/seed
          nodeID,     \* SNOWFLAKE_NODE_ID of each of them
          Nodes,      \* 2^nodeBits
          Seqs,       \* 2^seqBits
          Start,      \* bound: the clock when everything begins
          End,        \* bound: the last millisecond
          Skew,       \* bound: how far the clock is set back
          Skews,      \* bound: how often
          Restarts    \* bound: how often processes are restarted

ASSUME SnowflakeAssumption ==
  /\ Nodes \in Nat \ {0} /\ Seqs \in Nat \ {0}
  /\ nodeID \in [Processes -> 0 .. Nodes - 1]
  /\ {Start, End} \subseteq Nat /\ Skew \in Nat
  /\ Skews \in Nat /\ Restarts \in Nat

VARIABLES
  clock,    \* milliseconds since the epoch
  pc,       \* where the call of each process is
  lastTime, \* of each process, as in the code
  sequence,
  issued,   \* the ids each process has handed out
  skews,    \* how often the clock was set back
  restarts

gen  == <<pc, lastTime, sequence, issued>>
vars == <<clock, gen, skews, restarts>>

\* The fields of an id, and the number they are packed into.
Fields == [time : Nat, node : 0 .. Nodes - 1, seq : 0 .. Seqs - 1]

Pack(f) == (f.time * Nodes + f.node) * Seqs + f.seq

\* Every variable has its type, and the fields of ids fit into their bits.
TypeOK ==
  /\ clock \in Nat
  /\ pc \in [Processes -> {"idle", "read", "full"}]
  /\ lastTime \in [Processes -> Nat]
  /\ sequence \in [Processes -> 0 .. Seqs - 1]
  /\ issued \in [Processes -> SUBSET Fields]
  /\ skews \in Nat /\ restarts \in Nat
  /\ \A p \in Processes : pc[p] = "full" => sequence[p] = 0

Init ==
  /\ clock = Start
  /\ pc = [p \in Processes |-> "idle"]
  /\ lastTime = [p \in Processes |-> 0]
  /\ sequence = [p \in Processes |-> 0]
  /\ issued = [p \in Processes |-> {}]
  /\ skews = 0 /\ restarts = 0
-----------------------------------------------------------------------------
\* A call takes the mutex.
Lock(p) ==
  /\ pc[p] = "idle"
  /\ lastTime[p] < End
  /\ pc' = [pc EXCEPT ![p] = "read"]
  /\ UNCHANGED <<clock, lastTime, sequence, issued, skews, restarts>>

\* The call returns the id of time now and sequence number n.
Issue(p, now, n) ==
  /\ lastTime' = [lastTime EXCEPT ![p] = now]
  /\ sequence' = [sequence EXCEPT ![p] = n]
  /\ issued' = [issued EXCEPT ![p] = @ \cup {[time |-> now, node |-> nodeID[p], seq |-> n]}]
  /\ pc' = [pc EXCEPT ![p] = "idle"]

\* Slip: the clock is taken as it is.
NeverBehind(p) == FALSE

\* The clock is behind the last id: the call goes on sleeping.
Behind(p) == clock < lastTime[p]

\* Slip: the sequence number is not masked.
NoMask(n) == n + 1

\* (sequence + 1) & seqMask.
NextSeq(n) == IF n + 1 = Seqs THEN 0 ELSE n + 1

\* All sequence numbers of the millisecond are used up.
Full(n) == n = 0

\* The call reads the clock, and finds that it is not behind.
Read(p) ==
  LET next == NextSeq(sequence[p]) IN
  /\ pc[p] = "read"
  /\ ~Behind(p)
  /\ \/ clock # lastTime[p] /\ Issue(p, clock, 0)
     \/ clock = lastTime[p] /\ ~Full(next) /\ Issue(p, clock, next)
     \/ /\ clock = lastTime[p] /\ Full(next)
        /\ pc' = [pc EXCEPT ![p] = "full"]
        /\ sequence' = [sequence EXCEPT ![p] = 0]
        /\ UNCHANGED <<lastTime, issued>>
  /\ UNCHANGED <<clock, skews, restarts>>

\* Slip: the loop waits for exactly the next millisecond.
ExactlyNext(p) == clock = lastTime[p] + 1

\* The loop that waits for the next millisecond ends.
NextMillisecond(p) == clock > lastTime[p]

Wait(p) ==
  /\ pc[p] = "full"
  /\ NextMillisecond(p)
  /\ Issue(p, clock, 0)
  /\ UNCHANGED <<clock, skews, restarts>>

Tick ==
  /\ clock < End
  /\ clock' = clock + 1
  /\ UNCHANGED <<gen, skews, restarts>>

\* Not after a restart: with both, ids may well come twice.
SetBack(d) ==
  /\ skews < Skews
  /\ restarts = 0
  /\ d <= clock
  /\ clock' = clock - d
  /\ skews' = skews + 1
  /\ UNCHANGED <<gen, restarts>>

\* A program that is started knows of no ids.  Starting it takes a millisecond, and
\* is not done while the clock is behind.
Restart(p) ==
  /\ restarts < Restarts
  /\ ~Behind(p)
  /\ restarts' = restarts + 1
  /\ clock < End
  /\ clock' = clock + 1
  /\ pc' = [pc EXCEPT ![p] = "idle"]
  /\ lastTime' = [lastTime EXCEPT ![p] = 0]
  /\ sequence' = [sequence EXCEPT ![p] = 0]
  /\ UNCHANGED <<issued, skews>>

New(p) == Lock(p) \/ Read(p) \/ Wait(p)

Next == \/ \E p \in Processes : New(p) \/ Restart(p)
        \/ Tick
        \/ \E d \in 1 .. Skew : SetBack(d)

\* The clock moves on, and a sleep ends.
Fairness == WF_vars(Tick) /\ \A p \in Processes : WF_vars(Read(p)) /\ WF_vars(Wait(p))

Spec == Init /\ [][Next]_vars

FairSpec == Spec /\ Fairness
-----------------------------------------------------------------------------
(* Properties.                                                             *)

\* "The sync.Mutex-guarded generator guarantees monotonicity under concurrency,
\* including clock-skew sleeps" (design.md): the id that a call returns is greater
\* than every id that its process has handed out, as a number.
IdsIncrease ==
  [][\A p \in Processes : (pc[p] # "idle" /\ pc'[p] = "idle" /\ restarts' = restarts) =>
       \A old \in issued[p] :
         Pack(old) < Pack([time |-> lastTime'[p], node |-> nodeID[p], seq |-> sequence'[p]])]_vars

\* Processes with node ids of their own never hand out the same number.
IdsAreUnique ==
  \A p, q \in Processes : p # q =>
    \A f \in issued[p], g \in issued[q] : Pack(f) # Pack(g)

\* Every call returns, however often the clock is set back.
EveryCallReturns == \A p \in Processes : pc[p] # "idle" ~> pc[p] = "idle"
=============================================================================
