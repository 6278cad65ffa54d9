-------------------------- MODULE SnowflakeProofs ---------------------------
(***************************************************************************)
(* Ids are handed out in ascending order and never twice, for any numbers  *)
(* of nodes and sequence numbers, any clock, any skew and any number of    *)
(* restarts.  The argument: what a process has handed out is never above   *)
(* its lastTime and sequence, or, when a restart has reset these, lies in  *)
(* the past for good; and numbers are ordered as their fields are.         *)
(***************************************************************************)
EXTENDS Snowflake, TLAPS

\* The last id of a process is its greatest.  In the "full" state the sequence
\* was reset, and any sequence number of lastTime may have been handed out.  What
\* was handed out before a restart is older than the clock, which is not set back
\* any more.
Latest ==
  \A p \in Processes : \A f \in issued[p] :
    /\ f.node = nodeID[p]
    /\ \/ f.time < lastTime[p]
       \/ f.time = lastTime[p] /\ (pc[p] = "full" \/ f.seq <= sequence[p])
       \/ restarts > 0 /\ f.time < clock

Inv == TypeOK /\ Latest

\* A number is ordered by its leading part first.
LEMMA Leading ==
  ASSUME NEW K \in Nat \ {0}, NEW a \in Nat, NEW b \in Nat,
         NEW r \in 0 .. K - 1, NEW s \in 0 .. K - 1, a < b
  PROVE  a * K + r < b * K + s
<1> DEFINE d == b - a - 1
<1>1. d \in Nat
  OBVIOUS
<1>2. b = a + 1 + d
  OBVIOUS
<1> HIDE DEF d
<1>3. d * K \in Nat /\ a * K \in Nat
  BY <1>1
<1>4. b * K = a * K + K + d * K
  BY <1>1, <1>2
<1> QED
  BY <1>3, <1>4

\* Packed ids are in the order of their times, ...
LEMMA PackByTime ==
  ASSUME NEW f \in Fields, NEW g \in Fields, f.time < g.time
  PROVE  Pack(f) < Pack(g)
<1>1. f.time * Nodes + f.node < g.time * Nodes + g.node
  BY Leading, SnowflakeAssumption DEF Fields
<1>2. f.time * Nodes + f.node \in Nat /\ g.time * Nodes + g.node \in Nat
  BY SnowflakeAssumption DEF Fields
<1>3. f.seq \in 0 .. Seqs - 1 /\ g.seq \in 0 .. Seqs - 1
  BY DEF Fields
<1> QED
  BY <1>1, <1>2, <1>3, Leading, SnowflakeAssumption DEF Pack

\* ... then of their nodes, ...
LEMMA PackByNode ==
  ASSUME NEW f \in Fields, NEW g \in Fields, f.time = g.time, f.node < g.node
  PROVE  Pack(f) < Pack(g)
<1>1. f.time * Nodes \in Nat
  BY SnowflakeAssumption DEF Fields
<1>2. f.time * Nodes + f.node < g.time * Nodes + g.node
  BY <1>1 DEF Fields
<1>3. f.time * Nodes + f.node \in Nat /\ g.time * Nodes + g.node \in Nat
  BY <1>1, SnowflakeAssumption DEF Fields
<1>4. f.seq \in 0 .. Seqs - 1 /\ g.seq \in 0 .. Seqs - 1
  BY DEF Fields
<1> QED
  BY <1>2, <1>3, <1>4, Leading, SnowflakeAssumption DEF Pack

\* ... then of their sequence numbers.
LEMMA PackBySeq ==
  ASSUME NEW f \in Fields, NEW g \in Fields,
         f.time = g.time, f.node = g.node, f.seq < g.seq
  PROVE  Pack(f) < Pack(g)
<1>1. (f.time * Nodes + f.node) * Seqs \in Nat
  BY SnowflakeAssumption DEF Fields
<1> QED
  BY <1>1 DEF Pack, Fields

\* A call that returns leaves the other processes alone, and its id is new.
LEMMA TypeStep == TypeOK /\ [Next]_vars => TypeOK'
<1> SUFFICES ASSUME TypeOK, [Next]_vars PROVE TypeOK'
  OBVIOUS
<1> USE SnowflakeAssumption
<1>1. ASSUME NEW p \in Processes, NEW now \in Nat, NEW n \in 0 .. Seqs - 1,
             Issue(p, now, n), UNCHANGED <<clock, skews, restarts>>
      PROVE  TypeOK'
  <2>1. [time |-> now, node |-> nodeID[p], seq |-> n] \in Fields
    BY DEF Fields
  <2>2. issued' \in [Processes -> SUBSET Fields]
    BY <1>1, <2>1 DEF TypeOK, Issue
  <2> QED
    BY <1>1, <2>2 DEF TypeOK, Issue
<1>2. ASSUME NEW p \in Processes, Lock(p) PROVE TypeOK'
  BY <1>2 DEF TypeOK, Lock
<1>3. ASSUME NEW p \in Processes, Read(p) PROVE TypeOK'
  <2> DEFINE next == NextSeq(sequence[p])
  <2>1. next \in 0 .. Seqs - 1 /\ 0 \in 0 .. Seqs - 1
    BY DEF NextSeq, TypeOK
  <2>2. CASE Issue(p, clock, 0)
    BY <1>3, <2>1, <2>2, <1>1 DEF Read, TypeOK
  <2>3. CASE Issue(p, clock, next)
    BY <1>3, <2>1, <2>3, <1>1 DEF Read, TypeOK
  <2>4. CASE /\ pc' = [pc EXCEPT ![p] = "full"]
             /\ sequence' = [sequence EXCEPT ![p] = 0]
             /\ UNCHANGED <<lastTime, issued>>
    BY <1>3, <2>1, <2>4 DEF Read, TypeOK
  <2> QED
    BY <1>3, <2>2, <2>3, <2>4 DEF Read
<1>4. ASSUME NEW p \in Processes, Wait(p) PROVE TypeOK'
  <2>1. 0 \in 0 .. Seqs - 1
    OBVIOUS
  <2> QED
    BY <1>4, <2>1, <1>1 DEF Wait, TypeOK
<1>5. CASE Tick
  BY <1>5 DEF TypeOK, Tick, gen
<1>6. ASSUME NEW e \in 1 .. Skew, SetBack(e) PROVE TypeOK'
  BY <1>6 DEF TypeOK, SetBack, gen
<1>7. ASSUME NEW p \in Processes, Restart(p) PROVE TypeOK'
  BY <1>7 DEF TypeOK, Restart
<1>8. CASE UNCHANGED vars
  BY <1>8 DEF TypeOK, vars, gen
<1> QED
  BY <1>2, <1>3, <1>4, <1>5, <1>6, <1>7, <1>8 DEF Next, New

\* What New may have handed out stays below what it remembers, or below the clock.
LEMMA LatestStep == Inv /\ [Next]_vars => Latest'
<1> SUFFICES ASSUME Inv, [Next]_vars PROVE Latest'
  OBVIOUS
<1> USE SnowflakeAssumption DEF Inv
<1>1. ASSUME NEW p \in Processes, NEW n \in 0 .. Seqs - 1, Issue(p, clock, n),
             UNCHANGED <<clock, restarts>>,
             \/ lastTime[p] < clock
             \/ lastTime[p] = clock /\ pc[p] # "full" /\ sequence[p] < n
      PROVE  Latest'
  <2> SUFFICES ASSUME NEW q \in Processes, NEW f \in issued'[q]
               PROVE  /\ f.node = nodeID[q]
                      /\ \/ f.time < lastTime'[q]
                         \/ f.time = lastTime'[q] /\ (pc'[q] = "full" \/ f.seq <= sequence'[q])
                         \/ restarts' > 0 /\ f.time < clock'
    BY DEF Latest
  <2>1. CASE q # p
    BY <1>1, <2>1 DEF Issue, Latest, TypeOK
  <2>2. CASE q = p /\ f \in issued[p]
    <3>1. f.time \in Nat /\ f.seq \in Nat
      BY <2>2 DEF TypeOK, Fields
    <3>2. lastTime'[p] = clock /\ sequence'[p] = n /\ pc'[p] = "idle"
      BY <1>1 DEF Issue, TypeOK
    <3> QED
      BY <1>1, <2>2, <3>1, <3>2 DEF Latest, TypeOK
  <2>3. CASE q = p /\ f = [time |-> clock, node |-> nodeID[p], seq |-> n]
    BY <1>1, <2>3 DEF Issue, TypeOK
  <2> QED
    BY <1>1, <2>1, <2>2, <2>3 DEF Issue, TypeOK
<1>2. ASSUME NEW p \in Processes, Lock(p) PROVE Latest'
  BY <1>2 DEF TypeOK, Latest, Lock
<1>3. ASSUME NEW p \in Processes, Read(p) PROVE Latest'
  <2> DEFINE next == NextSeq(sequence[p])
  <2>1. /\ next \in 0 .. Seqs - 1 /\ 0 \in 0 .. Seqs - 1
        /\ ~Full(next) => sequence[p] < next
    BY DEF NextSeq, Full, TypeOK
  <2>2. lastTime[p] <= clock /\ pc[p] = "read"
    BY <1>3 DEF Read, Behind, TypeOK
  <2>3. CASE clock # lastTime[p] /\ Issue(p, clock, 0)
    BY <1>3, <2>1, <2>2, <2>3, <1>1 DEF TypeOK, Read
  <2>4. CASE clock = lastTime[p] /\ ~Full(next) /\ Issue(p, clock, next)
    BY <1>3, <2>1, <2>2, <2>4, <1>1 DEF TypeOK, Read
  <2>5. CASE /\ clock = lastTime[p]
             /\ pc' = [pc EXCEPT ![p] = "full"]
             /\ sequence' = [sequence EXCEPT ![p] = 0]
             /\ UNCHANGED <<lastTime, issued>>
    BY <1>3, <2>5 DEF TypeOK, Latest, Read
  <2> QED
    BY <1>3, <2>3, <2>4, <2>5 DEF Read
<1>4. ASSUME NEW p \in Processes, Wait(p) PROVE Latest'
  <2>1. 0 \in 0 .. Seqs - 1 /\ lastTime[p] < clock
    BY <1>4 DEF Wait, NextMillisecond, TypeOK
  <2> QED
    BY <1>4, <2>1, <1>1 DEF Wait
<1>5. CASE Tick
  <2>1. \A p \in Processes : \A f \in issued[p] : f.time \in Nat
    BY DEF TypeOK, Fields
  <2>2. clock \in Nat /\ clock' = clock + 1 /\ UNCHANGED <<gen, restarts>>
    BY <1>5 DEF Tick, TypeOK
  <2> QED
    BY <2>1, <2>2 DEF Latest, gen
<1>6. ASSUME NEW e \in 1 .. Skew, SetBack(e) PROVE Latest'
  BY <1>6 DEF Latest, SetBack, gen
<1>7. ASSUME NEW p \in Processes, Restart(p) PROVE Latest'
  <2>1. lastTime[p] <= clock /\ clock' = clock + 1 /\ restarts' > 0 /\ issued' = issued
    BY <1>7 DEF Restart, Behind, TypeOK
  <2> SUFFICES ASSUME NEW q \in Processes, NEW f \in issued[q]
               PROVE  /\ f.node = nodeID[q]
                      /\ \/ f.time < lastTime'[q]
                         \/ f.time = lastTime'[q] /\ (pc'[q] = "full" \/ f.seq <= sequence'[q])
                         \/ f.time < clock'
    BY <2>1 DEF Latest
  <2>2. f.time \in Nat
    BY DEF TypeOK, Fields
  <2>3. CASE q = p
    BY <2>1, <2>2, <2>3 DEF Latest, TypeOK
  <2>4. CASE q # p
    BY <1>7, <2>1, <2>2, <2>4 DEF Latest, TypeOK, Restart
  <2> QED
    BY <2>3, <2>4
<1>8. CASE UNCHANGED vars
  BY <1>8 DEF Latest, vars, gen
<1> QED
  BY <1>2, <1>3, <1>4, <1>5, <1>6, <1>7, <1>8 DEF Next, New

\* Types hold of every behaviour, restarts and all.
THEOREM TypeCorrect == Spec => []TypeOK
<1>1. Init => TypeOK
  BY SnowflakeAssumption DEF Init, TypeOK
<1> QED
  BY <1>1, TypeStep, PTL DEF Spec

\* Latest is an invariant.
LEMMA Invariance == Spec => []Inv
<1>1. Init => Inv
  BY SnowflakeAssumption DEF Init, Inv, TypeOK, Latest
<1>2. Inv /\ [Next]_vars => Inv'
  BY TypeStep, LatestStep DEF Inv
<1> QED
  BY <1>1, <1>2, PTL DEF Spec

\* A process hands out its ids in ascending order, the claim of design.md: however the
\* clock jumps, and however often it is restarted.
THEOREM Monotonicity == Spec => IdsIncrease
<1> DEFINE NewId(p) == [time |-> lastTime'[p], node |-> nodeID[p], seq |-> sequence'[p]]
           Increase == \A p \in Processes :
             (pc[p] # "idle" /\ pc'[p] = "idle" /\ restarts' = restarts) =>
                \A old \in issued[p] : Pack(old) < Pack(NewId(p))
<1>1. Inv /\ Inv' /\ [Next]_vars => Increase
  <2> SUFFICES ASSUME Inv, Inv', [Next]_vars, NEW p \in Processes,
                      pc[p] # "idle", pc'[p] = "idle", restarts' = restarts,
                      NEW old \in issued[p]
               PROVE  Pack(old) < Pack(NewId(p))
    OBVIOUS
  <2> USE SnowflakeAssumption
  <2>1. old \in Fields /\ NewId(p) \in Fields
    BY DEF Inv, TypeOK, Fields
  <2>2. /\ lastTime'[p] = clock
        /\ \/ lastTime[p] < lastTime'[p]
           \/ lastTime[p] = lastTime'[p] /\ pc[p] = "read" /\ sequence[p] < sequence'[p]
    <3>1. Read(p) \/ Wait(p)
      BY DEF Next, New, Lock, Read, Wait, Issue, Tick, SetBack, Restart, vars, gen, Inv, TypeOK
    <3>2. CASE Wait(p)
      BY <3>2 DEF Wait, NextMillisecond, Issue, Inv, TypeOK
    <3>3. CASE Read(p)
      <4>1. lastTime[p] <= clock
        BY <3>3 DEF Read, Behind, Inv, TypeOK
      <4>2. ~Full(NextSeq(sequence[p])) => sequence[p] < NextSeq(sequence[p])
        BY DEF NextSeq, Full, Inv, TypeOK
      <4> QED
        BY <3>3, <4>1, <4>2 DEF Read, Issue, Inv, TypeOK
    <3> QED
      BY <3>1, <3>2, <3>3
  <2>3. /\ old.node = nodeID[p]
        /\ \/ old.time < lastTime[p]
           \/ old.time = lastTime[p] /\ (pc[p] = "full" \/ old.seq <= sequence[p])
           \/ old.time < clock
    BY DEF Inv, Latest
  <2>4. \/ old.time < NewId(p).time
        \/ old.time = NewId(p).time /\ old.node = NewId(p).node /\ old.seq < NewId(p).seq
    BY <2>1, <2>2, <2>3 DEF Inv, TypeOK, Fields
  <2> HIDE DEF NewId
  <2> QED
    BY <2>1, <2>4, PackByTime, PackBySeq
<1>2. Spec => [][Increase]_vars
  BY <1>1, Invariance, PTL DEF Spec
<1> QED
  BY <1>2 DEF IdsIncrease

\* Programs with node ids of their own never hand out the same number.
THEOREM Uniqueness ==
  ASSUME \A p, q \in Processes : p # q => nodeID[p] # nodeID[q]
  PROVE  Spec => []IdsAreUnique
<1>1. Inv => IdsAreUnique
  <2> SUFFICES ASSUME Inv, NEW p \in Processes, NEW q \in Processes, p # q,
                      NEW f \in issued[p], NEW g \in issued[q]
               PROVE  Pack(f) # Pack(g)
    BY DEF IdsAreUnique
  <2>1. f \in Fields /\ g \in Fields
    BY DEF Inv, TypeOK
  <2>2. f.node # g.node
    BY DEF Inv, Latest
  <2>3. Pack(f) \in Int /\ Pack(g) \in Int
    BY <2>1, SnowflakeAssumption DEF Pack, Fields
  <2>4. \/ f.time < g.time \/ g.time < f.time
        \/ f.time = g.time /\ (f.node < g.node \/ g.node < f.node)
    BY <2>1, <2>2 DEF Fields
  <2> QED
    BY <2>1, <2>3, <2>4, PackByTime, PackByNode
<1> QED
  BY <1>1, Invariance, PTL
=============================================================================
