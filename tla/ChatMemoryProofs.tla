-------------------------- MODULE ChatMemoryProofs --------------------------
(***************************************************************************)
(* For any number of sessions and requests and any limits: the chat memory *)
(* keeps whole turns, no more than it may, and implements Transcripts.     *)
(* The lemmas about sequences say what cutting a history down does to its  *)
(* turns.                                                                  *)
(***************************************************************************)
EXTENDS ChatMemory, Integers, SequenceTheorems, TLAPS

(***************************************************************************)
(* Histories as sequences of turns.                                        *)
(***************************************************************************)

\* A function on 1 .. n is a sequence of length n.
LEMMA FunctionIsSeq ==
  ASSUME NEW S, NEW n \in Nat, NEW f \in [1 .. n -> S]
  PROVE  f \in Seq(S) /\ Len(f) = n
<1>1. f \in Seq(S)
  BY SeqDef
<1>2. Len(f) \in Nat /\ 1 .. Len(f) = 1 .. n
  BY <1>1, LenProperties
<1>3. QED
  BY <1>1, <1>2

\* An even number is twice its half.
LEMMA Halves ==
  ASSUME NEW n \in Nat, n % 2 = 0
  PROVE  n \div 2 \in Nat /\ n = 2 * (n \div 2)
OBVIOUS

\* The double of a number is even, and its half is the number.
LEMMA Doubles ==
  ASSUME NEW k \in Nat
  PROVE  (2 * k) % 2 = 0 /\ (2 * k) \div 2 = k
OBVIOUS

\* The question of a turn and the answer to it.
LEMMA PairIsSeq ==
  ASSUME NEW t \in Turns
  PROVE  /\ Pair(t) \in Seq(Messages) /\ Len(Pair(t)) = 2
         /\ Pair(t)[1] = [role |-> "user", turn |-> t]
         /\ Pair(t)[2] = [role |-> "assistant", turn |-> t]
  BY DEF Pair, Messages

\* Sequences of two elements.
LEMMA TwoEqual ==
  ASSUME NEW S, NEW p \in Seq(S), NEW q \in Seq(S), Len(p) = 2, Len(q) = 2
  PROVE  p = q <=> p[1] = q[1] /\ p[2] = q[2]
<1>1. ASSUME p[1] = q[1], p[2] = q[2] PROVE p = q
  <2>1. \A j \in 1 .. Len(p) : j = 1 \/ j = 2
    OBVIOUS
  <2>2. \A j \in 1 .. Len(p) : p[j] = q[j]
    BY <1>1, <2>1
  <2>3. QED
    BY <2>2, SeqEqual
<1>2. QED
  BY <1>1

\* Two neighbours in a sequence.
LEMMA TwoOf ==
  ASSUME NEW S, NEW q \in Seq(S), NEW m \in 1 .. Len(q), NEW n \in 1 .. Len(q), n = m + 1
  PROVE  /\ SubSeq(q, m, n) \in Seq(S) /\ Len(SubSeq(q, m, n)) = 2
         /\ SubSeq(q, m, n)[1] = q[m] /\ SubSeq(q, m, n)[2] = q[n]
<1>1. \A j \in m .. n : q[j] \in S
  <2>1. \A j \in m .. n : j = m \/ j = n
    BY LenProperties
  <2>2. QED
    BY <2>1, ElementOfSeq
<1>2. m \in Int /\ n \in Int /\ m <= n /\ n - m + 1 = 2 /\ m + 1 - 1 = m /\ m + 2 - 1 = n
  BY LenProperties
<1>3. /\ SubSeq(q, m, n) \in Seq(S)
      /\ Len(SubSeq(q, m, n)) = IF m <= n THEN n - m + 1 ELSE 0
      /\ \A j \in 1 .. n - m + 1 : SubSeq(q, m, n)[j] = q[m + j - 1]
  BY <1>1, <1>2, SubSeqProperties
<1>4. 1 \in 1 .. n - m + 1 /\ 2 \in 1 .. n - m + 1
  BY <1>2
<1>5. SubSeq(q, m, n)[1] = q[m + 1 - 1] /\ SubSeq(q, m, n)[2] = q[m + 2 - 1]
  BY <1>3, <1>4
<1>6. QED
  BY <1>2, <1>3, <1>5

\* A history of 2 * k messages is whole if each second message answers the one before.
LEMMA WholeAt ==
  ASSUME NEW msgs \in Seq(Messages), NEW k \in Nat, Len(msgs) = 2 * k
  PROVE  Whole(msgs) <=>
           \A i \in 1 .. k : /\ msgs[2 * i].role = "assistant"
                             /\ msgs[2 * i - 1] = [role |-> "user", turn |-> msgs[2 * i].turn]
<1>1. Len(msgs) % 2 = 0 /\ Len(msgs) \div 2 = k
  BY Doubles
<1>2. ASSUME NEW i \in 1 .. k
      PROVE  SubSeq(msgs, 2 * i - 1, 2 * i) = Pair(msgs[2 * i].turn) <=>
               /\ msgs[2 * i].role = "assistant"
               /\ msgs[2 * i - 1] = [role |-> "user", turn |-> msgs[2 * i].turn]
  <2>1. PICK m \in 1 .. Len(msgs), n \in 1 .. Len(msgs) : m = 2 * i - 1 /\ n = 2 * i /\ n = m + 1
    OBVIOUS
  <2> DEFINE s == SubSeq(msgs, m, n)
             p == Pair(msgs[n].turn)
  <2>2. s \in Seq(Messages) /\ Len(s) = 2 /\ s[1] = msgs[m] /\ s[2] = msgs[n]
    BY <2>1, TwoOf
  <2>3. msgs[n] \in Messages
    BY ElementOfSeq
  <2>4. msgs[n].turn \in Turns /\ msgs[n] = [role |-> msgs[n].role, turn |-> msgs[n].turn]
    BY <2>3 DEF Messages
  <2>5. /\ p \in Seq(Messages) /\ Len(p) = 2
        /\ p[1] = [role |-> "user", turn |-> msgs[n].turn]
        /\ p[2] = [role |-> "assistant", turn |-> msgs[n].turn]
    BY <2>4, PairIsSeq
  <2>6. p[2] = msgs[n] <=> msgs[n].role = "assistant"
    BY <2>4, <2>5
  <2>7. s = p <=> s[1] = p[1] /\ s[2] = p[2]
    <3> HIDE DEF s, p
    <3>1. QED
      BY <2>2, <2>5, TwoEqual
  <2>8. s = p <=> /\ msgs[n].role = "assistant"
                  /\ msgs[m] = [role |-> "user", turn |-> msgs[n].turn]
    <3> HIDE DEF s, p
    <3>1. QED
      BY <2>2, <2>5, <2>6, <2>7
  <2>9. QED
    BY <2>1, <2>8
<1>3. QED
  BY <1>1, <1>2 DEF Whole

\* The turns of a history of 2 * k messages.
LEMMA TurnsOfWhole ==
  ASSUME NEW msgs \in Seq(Messages), NEW k \in Nat, Len(msgs) = 2 * k
  PROVE  /\ TurnsOf(msgs) \in Seq(Turns) /\ Len(TurnsOf(msgs)) = k
         /\ \A i \in 1 .. k : TurnsOf(msgs)[i] = msgs[2 * i].turn
<1>1. Len(msgs) \div 2 = k
  BY Doubles
<1>2. ASSUME NEW i \in 1 .. k PROVE msgs[2 * i].turn \in Turns
  <2>1. 2 * i \in 1 .. Len(msgs)
    OBVIOUS
  <2>2. msgs[2 * i] \in Messages
    BY <2>1, ElementOfSeq
  <2>3. QED
    BY <2>2 DEF Messages
<1>3. TurnsOf(msgs) = [i \in 1 .. k |-> msgs[2 * i].turn]
  BY <1>1 DEF TurnsOf
<1>4. TurnsOf(msgs) \in [1 .. k -> Turns]
  BY <1>2, <1>3
<1>5. QED
  BY <1>3, <1>4, FunctionIsSeq

\* No messages are no turns.
LEMMA NoTurns == TurnsOf(<<>>) = <<>>
<1>1. <<>> \in Seq(Messages) /\ Len(<<>>) = 2 * 0
  BY EmptySeq
<1>2. TurnsOf(<<>>) \in Seq(Turns) /\ Len(TurnsOf(<<>>)) = 0
  BY <1>1, TurnsOfWhole
<1>3. QED
  BY <1>2, EmptySeq

\* What is left of a sequence without its first d elements.
LEMMA RestOf ==
  ASSUME NEW S, NEW q \in Seq(S), NEW d \in 0 .. Len(q)
  PROVE  /\ SubSeq(q, d + 1, Len(q)) \in Seq(S)
         /\ Len(SubSeq(q, d + 1, Len(q))) = Len(q) - d
         /\ \A i \in 1 .. Len(q) - d : SubSeq(q, d + 1, Len(q))[i] = q[d + i]
<1>0. Len(q) \in Nat
  BY LenProperties
<1>1. PICK m \in Nat, n \in Nat : m = d + 1 /\ n = Len(q) /\ m \in Int /\ n \in Int
  BY <1>0
<1>2. \A i \in m .. n : q[i] \in S
  BY <1>1, ElementOfSeq
<1>3. /\ SubSeq(q, m, n) \in Seq(S)
      /\ Len(SubSeq(q, m, n)) = IF m <= n THEN n - m + 1 ELSE 0
      /\ \A i \in 1 .. n - m + 1 : SubSeq(q, m, n)[i] = q[m + i - 1]
  BY <1>1, <1>2, SubSeqProperties
<1>4. n - m + 1 = Len(q) - d /\ (~(m <= n) => Len(q) - d = 0)
  BY <1>0, <1>1
<1>5. \A i \in 1 .. Len(q) - d : m + i - 1 = d + i
  BY <1>0, <1>1
<1>6. Len(SubSeq(q, m, n)) = Len(q) - d
  BY <1>3, <1>4
<1>7. \A i \in 1 .. Len(q) - d : SubSeq(q, m, n)[i] = q[d + i]
  BY <1>3, <1>4, <1>5
<1>8. QED
  BY <1>1, <1>3, <1>6, <1>7

\* How many of k turns go when no more than max messages may stay.
Dropped(k, max) == IF k > max \div 2 THEN k - (max \div 2) ELSE 0

\* The excess, rounded up, is that number of turns.
LEMMA ExcessIsTurns ==
  ASSUME NEW k \in Nat, NEW max \in Nat \ {0}, NEW excess,
         excess = IF 2 * k > max THEN 2 * k - max ELSE 0
  PROVE  /\ Dropped(k, max) \in 0 .. k
         /\ excess + (excess % 2) = 2 * Dropped(k, max)
         /\ 2 * (k - Dropped(k, max)) <= max
<1>1. PICK h \in Nat, b \in {0, 1} : max = 2 * h + b /\ max \div 2 = h
  <2>1. max % 2 \in {0, 1} /\ max \div 2 \in Nat /\ max = 2 * (max \div 2) + (max % 2)
    OBVIOUS
  <2>2. QED
    BY <2>1
<1>2. CASE k > h
  <2>1. excess = 2 * (k - h) - b
    BY <1>1, <1>2
  <2>2. excess % 2 = b
    BY <1>1, <1>2, <2>1
  <2>3. QED
    BY <1>1, <1>2, <2>1, <2>2 DEF Dropped
<1>3. CASE ~(k > h)
  <2>1. excess = 0
    BY <1>1, <1>3
  <2>2. QED
    BY <1>1, <1>3, <2>1 DEF Dropped
<1>4. QED
  BY <1>2, <1>3

\* A whole history has so many turns.
LEMMA WholeTurns ==
  ASSUME NEW msgs \in Seq(Messages), Whole(msgs)
  PROVE  \E k \in Nat : Len(msgs) = 2 * k
<1>1. Len(msgs) \in Nat /\ Len(msgs) % 2 = 0
  BY LenProperties DEF Whole
<1>2. QED
  BY <1>1, Halves

\* Cut down, a whole history is whole and short enough, and has its last turns.
LEMMA TrimmedWhole ==
  ASSUME NEW msgs \in Seq(Messages), Whole(msgs)
  PROVE  /\ Trimmed(msgs) \in Seq(Messages) /\ Whole(Trimmed(msgs))
         /\ Len(Trimmed(msgs)) <= maxMsg
         /\ TurnsOf(Trimmed(msgs)) = Memory!LastOf(TurnsOf(msgs))
<1>1. PICK k \in Nat : Len(msgs) = 2 * k
  BY WholeTurns
<1>2. PICK j : j = Dropped(k, maxMsg)
  OBVIOUS
<1>3. PICK excess : excess = IF Len(msgs) > maxMsg THEN Len(msgs) - maxMsg ELSE 0
  OBVIOUS
<1>4. j \in 0 .. k /\ excess + (excess % 2) = 2 * j /\ 2 * (k - j) <= maxMsg
  BY <1>1, <1>2, <1>3, ExcessIsTurns, ChatMemoryAssumption
<1>5. PICK short : short = Trimmed(msgs)
  OBVIOUS
<1>6. PICK d \in 0 .. Len(msgs) : d = 2 * j
  BY <1>1, <1>4
<1>7. short = SubSeq(msgs, d + 1, Len(msgs))
  BY <1>3, <1>4, <1>5, <1>6 DEF Trimmed
<1>8. PICK left \in Nat : left = k - j
  BY <1>4
<1>9. /\ short \in Seq(Messages) /\ Len(short) = 2 * left
      /\ \A i \in 1 .. 2 * left : short[i] = msgs[d + i]
  <2>1. Len(msgs) - d = 2 * left
    BY <1>1, <1>4, <1>6, <1>8
  <2>2. QED
    BY <2>1, <1>7, RestOf
<1>10. ASSUME NEW i \in 1 .. left
       PROVE  /\ i + j \in 1 .. k
              /\ short[2 * i] = msgs[2 * (i + j)] /\ short[2 * i - 1] = msgs[2 * (i + j) - 1]
  <2>1. /\ i + j \in 1 .. k
        /\ 2 * i \in 1 .. 2 * left /\ 2 * i - 1 \in 1 .. 2 * left
        /\ d + 2 * i = 2 * (i + j) /\ d + (2 * i - 1) = 2 * (i + j) - 1
    BY <1>4, <1>6, <1>8
  <2>2. short[2 * i] = msgs[d + 2 * i] /\ short[2 * i - 1] = msgs[d + (2 * i - 1)]
    BY <2>1, <1>9
  <2>3. QED
    BY <2>1, <2>2
<1>11. Whole(short)
  <2>1. \A i \in 1 .. k : /\ msgs[2 * i].role = "assistant"
                          /\ msgs[2 * i - 1] = [role |-> "user", turn |-> msgs[2 * i].turn]
    BY <1>1, WholeAt
  <2>2. ASSUME NEW i \in 1 .. left
        PROVE  /\ short[2 * i].role = "assistant"
               /\ short[2 * i - 1] = [role |-> "user", turn |-> short[2 * i].turn]
    <3>1. PICK n \in 1 .. k : /\ short[2 * i] = msgs[2 * n]
                              /\ short[2 * i - 1] = msgs[2 * n - 1]
      BY <1>10
    <3>2. QED
      BY <3>1, <2>1
  <2>3. QED
    BY <2>2, <1>9, WholeAt
<1>12. Len(short) <= maxMsg
  BY <1>4, <1>8, <1>9
<1>13. PICK all : all = TurnsOf(msgs)
  OBVIOUS
<1>14. /\ all \in Seq(Turns) /\ Len(all) = k
       /\ \A i \in 1 .. k : all[i] = msgs[2 * i].turn
  BY <1>1, <1>13, TurnsOfWhole
<1>15. /\ TurnsOf(short) \in Seq(Turns) /\ Len(TurnsOf(short)) = left
       /\ \A i \in 1 .. left : TurnsOf(short)[i] = short[2 * i].turn
  BY <1>9, TurnsOfWhole
<1>16. Memory!LastOf(all) = SubSeq(all, j + 1, Len(all))
  <2>1. CASE k > maxMsg \div 2
    <3>1. j = k - (maxMsg \div 2)
      BY <2>1, <1>2 DEF Dropped
    <3>2. QED
      BY <2>1, <3>1, <1>14 DEF Memory!LastOf
  <2>2. CASE ~(k > maxMsg \div 2)
    <3>1. j = 0
      BY <2>2, <1>2 DEF Dropped
    <3>2. SubSeq(all, 1, Len(all)) = all
      BY <1>14, SubSeqFull
    <3>3. j + 1 = 1
      BY <3>1
    <3>4. QED
      BY <2>2, <3>2, <3>3, <1>14 DEF Memory!LastOf
  <2>3. QED
    BY <2>1, <2>2
<1>17. /\ Memory!LastOf(all) \in Seq(Turns) /\ Len(Memory!LastOf(all)) = left
       /\ \A i \in 1 .. left : Memory!LastOf(all)[i] = all[j + i]
  <2>1. j \in 0 .. Len(all) /\ Len(all) - j = left
    BY <1>4, <1>8, <1>14
  <2>2. QED
    BY <2>1, <1>14, <1>16, RestOf
<1>18. \A i \in 1 .. left : TurnsOf(short)[i] = Memory!LastOf(all)[i]
  <2> SUFFICES ASSUME NEW i \in 1 .. left
               PROVE  TurnsOf(short)[i] = Memory!LastOf(all)[i]
    OBVIOUS
  <2>1. i + j \in 1 .. k /\ j + i = i + j /\ short[2 * i] = msgs[2 * (i + j)]
    BY <1>4, <1>10
  <2>2. all[i + j] = msgs[2 * (i + j)].turn
    BY <2>1, <1>14
  <2>3. QED
    BY <2>1, <2>2, <1>15, <1>17
<1>19. TurnsOf(short) = Memory!LastOf(all)
  BY <1>15, <1>17, <1>18, SeqEqual
<1>20. QED
  BY <1>5, <1>9, <1>11, <1>12, <1>13, <1>19

\* A whole history with one more turn is whole, and has that turn last.
LEMMA AppendedWhole ==
  ASSUME NEW msgs \in Seq(Messages), Whole(msgs), NEW t \in Turns
  PROVE  /\ msgs \o Pair(t) \in Seq(Messages) /\ Whole(msgs \o Pair(t))
         /\ TurnsOf(msgs \o Pair(t)) = Append(TurnsOf(msgs), t)
<1>1. PICK k \in Nat : Len(msgs) = 2 * k
  BY WholeTurns
<1>2. PICK long : long = msgs \o Pair(t)
  OBVIOUS
<1>3. PICK pair : pair = Pair(t)
  OBVIOUS
<1>4. /\ pair \in Seq(Messages) /\ Len(pair) = 2
      /\ pair[1] = [role |-> "user", turn |-> t] /\ pair[2] = [role |-> "assistant", turn |-> t]
  BY <1>3, PairIsSeq
<1>5. /\ long \in Seq(Messages) /\ Len(long) = Len(msgs) + Len(pair)
      /\ \A i \in 1 .. Len(msgs) + Len(pair) :
           long[i] = IF i <= Len(msgs) THEN msgs[i] ELSE pair[i - Len(msgs)]
  BY <1>2, <1>3, <1>4, ConcatProperties
<1>6. Len(long) = 2 * (k + 1) /\ k + 1 \in Nat
  BY <1>1, <1>4, <1>5
<1>7. ASSUME NEW i \in 1 .. k
      PROVE  long[2 * i] = msgs[2 * i] /\ long[2 * i - 1] = msgs[2 * i - 1]
  <2>1. /\ 2 * i \in 1 .. Len(msgs) + Len(pair) /\ 2 * i <= Len(msgs)
        /\ 2 * i - 1 \in 1 .. Len(msgs) + Len(pair) /\ 2 * i - 1 <= Len(msgs)
    BY <1>1, <1>4
  <2>2. QED
    BY <2>1, <1>5
<1>8. long[2 * (k + 1)] = pair[2] /\ long[2 * (k + 1) - 1] = pair[1]
  <2>1. PICK m, n : m = 2 * (k + 1) /\ n = 2 * (k + 1) - 1
    OBVIOUS
  <2>2. /\ m \in 1 .. Len(msgs) + Len(pair) /\ ~(m <= Len(msgs)) /\ m - Len(msgs) = 2
        /\ n \in 1 .. Len(msgs) + Len(pair) /\ ~(n <= Len(msgs)) /\ n - Len(msgs) = 1
    BY <1>1, <1>4, <2>1
  <2>3. long[m] = pair[2] /\ long[n] = pair[1]
    BY <2>2, <1>5
  <2>4. QED
    BY <2>1, <2>3
<1>9. Whole(long)
  <2>1. \A i \in 1 .. k : /\ msgs[2 * i].role = "assistant"
                          /\ msgs[2 * i - 1] = [role |-> "user", turn |-> msgs[2 * i].turn]
    BY <1>1, WholeAt
  <2>2. ASSUME NEW i \in 1 .. k + 1
        PROVE  /\ long[2 * i].role = "assistant"
               /\ long[2 * i - 1] = [role |-> "user", turn |-> long[2 * i].turn]
    <3>1. CASE i \in 1 .. k
      BY <3>1, <1>7, <2>1
    <3>2. CASE i = k + 1
      <4>1. long[2 * i] = pair[2] /\ long[2 * i - 1] = pair[1]
        BY <3>2, <1>8
      <4>2. QED
        BY <4>1, <1>4
    <3>3. QED
      BY <3>1, <3>2
  <2>3. QED
    BY <2>2, <1>5, <1>6, WholeAt
<1>10. PICK turns : turns = TurnsOf(msgs)
  OBVIOUS
<1>11. /\ turns \in Seq(Turns) /\ Len(turns) = k
       /\ \A i \in 1 .. k : turns[i] = msgs[2 * i].turn
  BY <1>1, <1>10, TurnsOfWhole
<1>12. /\ TurnsOf(long) \in Seq(Turns) /\ Len(TurnsOf(long)) = k + 1
       /\ \A i \in 1 .. k + 1 : TurnsOf(long)[i] = long[2 * i].turn
  BY <1>5, <1>6, TurnsOfWhole
<1>13. /\ Append(turns, t) \in Seq(Turns) /\ Len(Append(turns, t)) = k + 1
       /\ \A i \in 1 .. k : Append(turns, t)[i] = turns[i]
       /\ Append(turns, t)[k + 1] = t
  BY <1>11, AppendProperties
<1>14. ASSUME NEW i \in 1 .. k + 1 PROVE TurnsOf(long)[i] = Append(turns, t)[i]
  <2>1. CASE i \in 1 .. k
    BY <2>1, <1>7, <1>11, <1>12, <1>13
  <2>2. CASE i = k + 1
    <3>1. long[2 * i] = pair[2]
      BY <2>2, <1>8
    <3>2. QED
      BY <3>1, <2>2, <1>4, <1>12, <1>13
  <2>3. i \in 1 .. k \/ i = k + 1
    OBVIOUS
  <2>4. QED
    BY <2>1, <2>2, <2>3
<1>15. TurnsOf(long) = Append(turns, t)
  BY <1>12, <1>13, <1>14, SeqEqual
<1>16. QED
  BY <1>2, <1>5, <1>9, <1>10, <1>15

-----------------------------------------------------------------------------
(***************************************************************************)
(* The invariant.                                                          *)
(***************************************************************************)

\* A request that waits for the model has a session.
Inv == TypeOK /\ \A t \in Turns : chat[t].pc = "asked" => chat[t].session \in Sessions

Places == [pc : {"over", "asked"}, session : Sessions \cup {None}, history : Seq(Messages)]

\* No messages are a whole history, and never too many.
LEMMA NothingIsWhole == <<>> \in Seq(Messages) /\ Whole(<<>>) /\ Len(<<>>) <= maxMsg
<1>1. <<>> \in Seq(Messages) /\ Len(<<>>) = 0
  BY EmptySeq
<1>2. 0 % 2 = 0 /\ 0 \div 2 = 0 /\ 1 .. 0 = {}
  OBVIOUS
<1>3. Whole(<<>>)
  BY <1>1, <1>2 DEF Whole
<1>4. QED
  BY <1>1, <1>3, ChatMemoryAssumption

\* What Messages shows is a whole history, or nothing.
LEMMA ShownWhole ==
  ASSUME TypeOK, NEW s \in Sessions
  PROVE  Shown(s) \in Seq(Messages) /\ Whole(Shown(s))
<1>1. QED
  BY NothingIsWhole DEF Shown, TypeOK

LEMMA OverPlace == Over \in Places /\ Over.pc = "over"
  BY EmptySeq DEF Over, Places

LEMMA InitInv == Init => Inv
<1> SUFFICES ASSUME Init PROVE Inv
  OBVIOUS
<1>1. chat \in [Turns -> Places] /\ \A t \in Turns : chat[t].pc = "over"
  BY OverPlace DEF Init
<1>2. age \in [Sessions -> 0 .. ttl + 1]
  BY ChatMemoryAssumption DEF Init
<1>3. QED
  BY <1>1, <1>2, NothingIsWhole DEF Init, Inv, TypeOK, Places

LEMMA AskKeeps ==
  ASSUME Inv, NEW t \in Turns, NEW s \in Sessions, Ask(t, s)
  PROVE  Inv'
<1>1. PICK new : new = [pc |-> "asked", session |-> s, history |-> Shown(s)]
  OBVIOUS
<1>2. new \in Places /\ new.session = s
  BY <1>1, ShownWhole DEF Inv, Places
<1>3. chat' = [chat EXCEPT ![t] = new] /\ chat \in [Turns -> Places]
  BY <1>1 DEF Ask, Inv, TypeOK, Places
<1>4. chat' \in [Turns -> Places]
  BY <1>2, <1>3
<1>5. ASSUME NEW u \in Turns, chat'[u].pc = "asked" PROVE chat'[u].session \in Sessions
  BY <1>2, <1>3, <1>5 DEF Inv
<1>6. stored' \subseteq Sessions
  BY DEF Ask, Inv, TypeOK
<1>7. messages' \in [Sessions -> Seq(Messages)]
  BY NothingIsWhole DEF Ask, Inv, TypeOK
<1>8. age' \in [Sessions -> 0 .. ttl + 1]
  <2>1. 0 \in 0 .. ttl + 1
    BY ChatMemoryAssumption
  <2>2. QED
    BY <2>1 DEF Ask, Inv, TypeOK
<1>9. ASSUME NEW x \in Sessions
       PROVE  /\ Whole(messages'[x]) /\ Len(messages'[x]) <= maxMsg
              /\ x \notin stored' => messages'[x] = <<>> /\ age'[x] = 0
  BY NothingIsWhole DEF Ask, Inv, TypeOK
<1>10. QED
  BY <1>4, <1>5, <1>6, <1>7, <1>8, <1>9 DEF Inv, TypeOK, Places, Whole

\* What Append makes of the session is whole and short enough.
LEMMA AppendTurnKeeps ==
  ASSUME Inv, NEW t \in Turns, AppendTurn(t)
  PROVE  Inv'
<1>1. PICK s \in Sessions : s = chat[t].session
  BY DEF AppendTurn, Inv
<1>2. PICK new : new = Trimmed(Shown(s) \o Pair(t))
  OBVIOUS
<1>3. new \in Seq(Messages) /\ Whole(new) /\ Len(new) <= maxMsg
  BY <1>2, ShownWhole, AppendedWhole, TrimmedWhole DEF Inv
<1>4. Swept \subseteq stored
  BY DEF Swept
<1>5. messages' = [x \in Sessions |-> IF x = s THEN new ELSE IF x \in Swept THEN <<>>
                                      ELSE messages[x]]
  BY <1>1, <1>2 DEF AppendTurn, Appended
<1>6. stored' = (stored \ Swept) \cup {s}
  BY <1>1 DEF AppendTurn
<1>7. age' = [x \in Sessions |-> IF x \in Swept \cup {s} THEN 0 ELSE age[x]]
  BY <1>1 DEF AppendTurn
<1>8. messages' \in [Sessions -> Seq(Messages)]
  BY <1>3, <1>5, NothingIsWhole DEF Inv, TypeOK
<1>9. age' \in [Sessions -> 0 .. ttl + 1]
  <2>1. 0 \in 0 .. ttl + 1
    BY ChatMemoryAssumption
  <2>2. QED
    BY <2>1, <1>7 DEF Inv, TypeOK
<1>10. ASSUME NEW x \in Sessions
       PROVE  /\ Whole(messages'[x]) /\ Len(messages'[x]) <= maxMsg
              /\ x \notin stored' => messages'[x] = <<>> /\ age'[x] = 0
  <2>1. CASE x = s
    BY <2>1, <1>3, <1>5, <1>6
  <2>2. CASE x # s /\ x \in Swept
    BY <2>2, <1>5, <1>7, NothingIsWhole
  <2>3. CASE x # s /\ x \notin Swept
    BY <2>3, <1>5, <1>6, <1>7 DEF Inv, TypeOK
  <2>4. QED
    BY <2>1, <2>2, <2>3
<1>11. chat' \in [Turns -> Places] /\ \A u \in Turns : chat'[u].pc = "asked" => chat'[u].session \in Sessions
  BY OverPlace DEF AppendTurn, Inv, TypeOK, Places
<1>12. stored' \subseteq Sessions
  BY <1>6 DEF Inv, TypeOK
<1>13. QED
  BY <1>8, <1>9, <1>10, <1>11, <1>12 DEF Inv, TypeOK, Places, Whole

LEMMA FailKeeps ==
  ASSUME Inv, NEW t \in Turns, Fail(t)
  PROVE  Inv'
<1>1. chat' \in [Turns -> Places] /\ \A u \in Turns : chat'[u].pc = "asked" => chat'[u].session \in Sessions
  BY OverPlace DEF Fail, Inv, TypeOK, Places
<1>2. QED
  BY <1>1 DEF Fail, Inv, TypeOK, Places, Whole

LEMMA TickKeeps ==
  ASSUME Inv, Tick
  PROVE  Inv'
<1>1. ASSUME NEW n \in 0 .. ttl + 1, ~(n > ttl) PROVE n + 1 \in 0 .. ttl + 1
  BY <1>1, ChatMemoryAssumption
<1>2. age' \in [Sessions -> 0 .. ttl + 1]
  BY <1>1 DEF Tick, Inv, TypeOK, Expired
<1>3. \A s \in Sessions : s \notin stored => age'[s] = 0
  BY DEF Tick, Inv, TypeOK
<1>4. QED
  BY <1>2, <1>3 DEF Tick, Inv, TypeOK, Whole

LEMMA RestartKeeps ==
  ASSUME Inv, Restart
  PROVE  Inv'
<1>1. chat' \in [Turns -> Places] /\ \A t \in Turns : chat'[t].pc = "over"
  BY OverPlace DEF Restart
<1>2. age' \in [Sessions -> 0 .. ttl + 1]
  BY ChatMemoryAssumption DEF Restart
<1>3. QED
  BY <1>1, <1>2, NothingIsWhole DEF Restart, Inv, TypeOK, Places, Whole

LEMMA NextKeeps == Inv /\ [Next]_vars => Inv'
<1> SUFFICES ASSUME Inv, [Next]_vars PROVE Inv'
  OBVIOUS
<1>1. CASE UNCHANGED vars
  BY <1>1 DEF vars, Inv, TypeOK, Whole
<1>2. QED
  BY <1>1, AskKeeps, AppendTurnKeeps, FailKeeps, TickKeeps, RestartKeeps DEF Next

\* What holds of sessions and requests together, in every reachable state.
THEOREM Invariance == Spec => []Inv
<1>1. QED
  BY InitInv, NextKeeps, PTL DEF Spec

\* Histories are whole turns and never longer than CHAT_HISTORY_MAX, and a session that
\* was deleted or swept leaves nothing behind, whichever requests overlap.
THEOREM TypeCorrect == Spec => []TypeOK
<1>1. Inv => TypeOK
  BY DEF Inv
<1>2. QED
  BY <1>1, Invariance, PTL

-----------------------------------------------------------------------------
(***************************************************************************)
(* The refinement.                                                         *)
(***************************************************************************)

\* What is known of the sessions, how long they are idle, and what the requests are
\* at, as Transcripts has it.
Known == [s \in Sessions |-> TurnsOf(Shown(s))]

IdleFor(s) == IF Shown(s) = <<>> THEN 0 ELSE age[s]

Idle == [s \in Sessions |-> IdleFor(s)]

InTurns(c) == [c EXCEPT !.history = TurnsOf(@)]

Chat == [t \in Turns |-> InTurns(chat[t])]

\* Only a history without turns has none to show.
LEMMA NothingKnown ==
  ASSUME TypeOK, NEW s \in Sessions
  PROVE  Known[s] = <<>> <=> Shown(s) = <<>>
<1>1. PICK msgs : msgs = Shown(s)
  OBVIOUS
<1>2. msgs \in Seq(Messages) /\ Whole(msgs)
  BY <1>1, ShownWhole
<1>3. PICK k \in Nat : Len(msgs) = 2 * k
  BY <1>2, WholeTurns
<1>4. TurnsOf(msgs) \in Seq(Turns) /\ Len(TurnsOf(msgs)) = k
  BY <1>2, <1>3, TurnsOfWhole
<1>5. TurnsOf(msgs) = <<>> => msgs = <<>>
  <2>1. ASSUME TurnsOf(msgs) = <<>> PROVE msgs = <<>>
    <3>1. Len(<<>>) = 0
      BY EmptySeq
    <3>2. k = 0
      BY <2>1, <3>1, <1>4
    <3>3. Len(msgs) = 0
      BY <3>2, <1>3
    <3>4. QED
      BY <3>3, <1>2, EmptySeq
  <2>2. QED
    BY <2>1
<1>6. QED
  BY <1>1, <1>5, NoTurns DEF Known

LEMMA ChatStep ==
  ASSUME NEW t \in Turns, NEW new, chat \in [Turns -> Places], new \in Places,
         chat' = [chat EXCEPT ![t] = new]
  PROVE  Chat' = [Chat EXCEPT ![t] = InTurns(new)]
<1>1. Chat' = [u \in Turns |-> InTurns(chat'[u])]
  BY DEF Chat, InTurns
<1>2. \A u \in Turns : chat'[u] = IF u = t THEN new ELSE chat[u]
  OBVIOUS
<1>3. Chat' = [u \in Turns |-> IF u = t THEN InTurns(new) ELSE InTurns(chat[u])]
  BY <1>1, <1>2
<1>4. QED
  BY <1>3 DEF Chat

LEMMA OverInTurns == InTurns(Over) = Over
  BY NoTurns DEF InTurns, Over

LEMMA ChatAt ==
  ASSUME TypeOK, NEW t \in Turns
  PROVE  /\ chat \in [Turns -> Places]
         /\ Chat[t].pc = chat[t].pc /\ Chat[t].session = chat[t].session
  BY DEF TypeOK, Places, Chat, InTurns

\* A question is put with what is known; deleting an expired session changes nothing.
LEMMA AskIsAsk ==
  ASSUME Inv, NEW t \in Turns, NEW s \in Sessions, Ask(t, s)
  PROVE  Memory!Ask(t, s)
<1>1. PICK new : new = [pc |-> "asked", session |-> s, history |-> Shown(s)]
  OBVIOUS
<1>2. new \in Places
  BY <1>1, ShownWhole DEF Inv, Places
<1>3. chat' = [chat EXCEPT ![t] = new] /\ chat[t].pc = "over"
  BY <1>1 DEF Ask
<1>4. Chat' = [Chat EXCEPT ![t] = InTurns(new)] /\ Chat[t].pc = "over"
  BY <1>2, <1>3, ChatStep, ChatAt DEF Inv
<1>5. InTurns(new) = [pc |-> "asked", session |-> s, history |-> Known[s]]
  BY <1>1 DEF InTurns, Known
<1>6. ASSUME NEW x \in Sessions PROVE Shown(x)' = Shown(x) /\ IdleFor(x)' = IdleFor(x)
  BY ChatMemoryAssumption DEF Inv, TypeOK, Ask, Shown, Expired, IdleFor
<1>7. Known' = Known /\ Idle' = Idle
  BY <1>6 DEF Known, Idle
<1>8. QED
  BY <1>4, <1>5, <1>7 DEF Memory!Ask, Known, Idle, IdleFor, Chat, InTurns

\* An answer becomes the last turn of its session as it is known then, and sweeping
\* changes nothing that is known.
LEMMA AppendTurnIsAnswer ==
  ASSUME Inv, NEW t \in Turns, AppendTurn(t)
  PROVE  Memory!Answer(t)
<1>1. PICK s \in Sessions : s = chat[t].session
  BY DEF AppendTurn, Inv
<1>2. PICK long : long = Shown(s) \o Pair(t)
  OBVIOUS
<1>3. /\ long \in Seq(Messages) /\ Whole(long)
      /\ TurnsOf(long) = Append(TurnsOf(Shown(s)), t)
  BY <1>2, ShownWhole, AppendedWhole DEF Inv
<1>4. PICK new : new = Trimmed(long)
  OBVIOUS
<1>5. TurnsOf(new) = Memory!LastOf(Append(TurnsOf(Shown(s)), t))
  BY <1>3, <1>4, TrimmedWhole
<1>6. /\ stored' = (stored \ Swept) \cup {s}
      /\ messages' = [x \in Sessions |-> IF x = s THEN new ELSE IF x \in Swept THEN <<>>
                                         ELSE messages[x]]
      /\ age' = [x \in Sessions |-> IF x \in Swept \cup {s} THEN 0 ELSE age[x]]
  BY <1>1, <1>2, <1>4 DEF AppendTurn, Appended
<1>7. Shown(s)' = new
  BY <1>6, ChatMemoryAssumption DEF Shown, Expired
<1>8. ASSUME NEW x \in Sessions, x # s PROVE Shown(x)' = Shown(x) /\ IdleFor(x)' = IdleFor(x)
  <2>1. CASE x \in Swept
    <3>1. Expired(x) /\ x \notin stored'
      BY <2>1, <1>6, <1>8 DEF Swept
    <3>2. QED
      BY <3>1 DEF Shown, IdleFor
  <2>2. CASE x \notin Swept
    BY <2>2, <1>6, <1>8 DEF Shown, Expired, IdleFor
  <2>3. QED
    BY <2>1, <2>2
<1>9. IdleFor(s)' = 0
  BY <1>6 DEF IdleFor
<1>10. Known' = [Known EXCEPT ![s] = Memory!LastOf(Append(Known[s], t))]
  <2>1. ASSUME NEW x \in Sessions
        PROVE  Known'[x] = IF x = s THEN TurnsOf(new) ELSE Known[x]
    BY <1>7, <1>8 DEF Known
  <2>2. Known[s] = TurnsOf(Shown(s))
    BY DEF Known
  <2>3. Known' = [x \in Sessions |-> Known'[x]] /\ Known = [x \in Sessions |-> Known[x]]
    BY DEF Known
  <2>4. QED
    BY <2>1, <2>2, <2>3, <1>5
<1>11. Idle' = [Idle EXCEPT ![s] = 0]
  <2>1. ASSUME NEW x \in Sessions PROVE Idle'[x] = IF x = s THEN 0 ELSE Idle[x]
    BY <1>8, <1>9 DEF Idle
  <2>2. Idle' = [x \in Sessions |-> Idle'[x]] /\ Idle = [x \in Sessions |-> Idle[x]]
    BY DEF Idle
  <2>3. QED
    BY <2>1, <2>2
<1>12. Chat' = [Chat EXCEPT ![t] = InTurns(Over)]
  BY OverPlace, ChatStep, ChatAt DEF Inv, AppendTurn
<1>13. Chat[t].pc = "asked" /\ Chat[t].session = s
  BY <1>1, ChatAt DEF Inv, AppendTurn
<1>14. Memory!Over = Over
  BY DEF Memory!Over, Over
<1>15. QED
  BY <1>10, <1>11, <1>12, <1>13, <1>14, OverInTurns
     DEF Memory!Answer, Known, Idle, IdleFor, Chat, InTurns

LEMMA FailIsGiveUp ==
  ASSUME Inv, NEW t \in Turns, Fail(t)
  PROVE  Memory!GiveUp(t)
<1>1. Chat' = [Chat EXCEPT ![t] = InTurns(Over)]
  BY OverPlace, ChatStep, ChatAt DEF Inv, Fail
<1>2. Chat[t].pc = "asked"
  BY ChatAt DEF Inv, Fail
<1>3. Known' = Known /\ Idle' = Idle
  BY DEF Fail, Known, Idle, IdleFor, Shown, Expired
<1>4. Memory!Over = Over
  BY DEF Memory!Over, Over
<1>5. QED
  BY <1>1, <1>2, <1>3, <1>4, OverInTurns DEF Memory!GiveUp, Known, Idle, IdleFor, Chat, InTurns

\* A session is forgotten when its age passes the limit, deleted or not.
LEMMA TickIsTick ==
  ASSUME Inv, Tick
  PROVE  Memory!Tick
<1> DEFINE late(s) == Known[s] # <<>> /\ Idle[s] = ttl
<1>1. ASSUME NEW s \in Sessions
      PROVE  /\ Shown(s)' = IF Shown(s) # <<>> /\ IdleFor(s) = ttl THEN <<>> ELSE Shown(s)
             /\ IdleFor(s)' = IF Shown(s) = <<>> \/ IdleFor(s) = ttl THEN 0 ELSE IdleFor(s) + 1
  <2>1. age[s] \in Nat /\ ttl \in Nat /\ age[s] \in 0 .. ttl + 1
    BY ChatMemoryAssumption DEF Inv, TypeOK
  <2>2. /\ age'[s] = IF s \notin stored \/ Expired(s) THEN age[s] ELSE age[s] + 1
        /\ stored' = stored /\ messages' = messages
    BY DEF Tick
  <2>3. QED
    BY <2>1, <2>2 DEF Shown, Expired, IdleFor
<1>2. ASSUME NEW s \in Sessions PROVE Known[s] = <<>> <=> Shown(s) = <<>>
  BY NothingKnown DEF Inv
<1>3. ASSUME NEW s \in Sessions
      PROVE  /\ Known'[s] = IF late(s) THEN <<>> ELSE Known[s]
             /\ Idle'[s] = IF Known[s] = <<>> \/ late(s) THEN 0 ELSE Idle[s] + 1
  <2>1. Known'[s] = TurnsOf(Shown(s)') /\ Known[s] = TurnsOf(Shown(s))
    BY DEF Known, TurnsOf
  <2>2. Idle'[s] = IdleFor(s)' /\ Idle[s] = IdleFor(s)
    BY DEF Idle
  <2>3. QED
    BY <2>1, <2>2, <1>1, <1>2, NoTurns
<1>4. Known' = [s \in Sessions |-> Known'[s]] /\ Idle' = [s \in Sessions |-> Idle'[s]]
  BY DEF Known, Idle
<1>5. /\ Known' = [s \in Sessions |-> IF late(s) THEN <<>> ELSE Known[s]]
      /\ Idle' = [s \in Sessions |-> IF Known[s] = <<>> \/ late(s) THEN 0 ELSE Idle[s] + 1]
  <2> HIDE DEF late
  <2>1. QED
    BY <1>3, <1>4
<1>6. Chat' = Chat
  BY DEF Tick, Chat, InTurns
<1>7. QED
  BY <1>5, <1>6 DEF Memory!Tick, Memory!Expired, Known, Idle, IdleFor, Chat, InTurns

LEMMA RestartIsRestart ==
  ASSUME Restart
  PROVE  Memory!Restart
<1>1. \A s \in Sessions : Shown(s)' = <<>> /\ IdleFor(s)' = 0
  BY DEF Restart, Shown, IdleFor
<1>2. Known' = [s \in Sessions |-> <<>>] /\ Idle' = [s \in Sessions |-> 0]
  BY <1>1, NoTurns DEF Known, Idle
<1>3. Chat' = [t \in Turns |-> Over]
  BY OverInTurns DEF Restart, Chat, InTurns
<1>4. Memory!Over = Over
  BY DEF Memory!Over, Over
<1>5. QED
  BY <1>2, <1>3, <1>4 DEF Memory!Restart, Known, Idle, IdleFor, Chat, InTurns

\* With late deletion, sweeping, trimming by messages and requests that overlap, the
\* memory does what Transcripts promises: a request is shown the last turns of its
\* session, none lost, none twice, none of an idle session.
THEOREM Implementation == Spec => ImplementsTranscripts
<1>1. Init => Memory!Init
  <2> SUFFICES ASSUME Init PROVE Memory!Init
    OBVIOUS
  <2>1. \A s \in Sessions : Shown(s) = <<>> /\ IdleFor(s) = 0
    BY DEF Init, Shown, IdleFor
  <2>2. Known = [s \in Sessions |-> <<>>] /\ Idle = [s \in Sessions |-> 0]
    BY <2>1, NoTurns DEF Known, Idle
  <2>3. Chat = [t \in Turns |-> Over]
    BY OverInTurns DEF Init, Chat
  <2>4. Memory!Over = Over
    BY DEF Memory!Over, Over
  <2>5. QED
    BY <2>2, <2>3, <2>4 DEF Memory!Init, Known, Idle, IdleFor, Chat, InTurns
<1>2. Inv /\ [Next]_vars => [Memory!Next]_(Memory!vars)
  <2> SUFFICES ASSUME Inv, [Next]_vars PROVE [Memory!Next]_(Memory!vars)
    OBVIOUS
  <2>1. CASE UNCHANGED vars
    BY <2>1 DEF vars, Memory!vars, Shown, Expired
  <2>2. QED
    BY <2>1, AskIsAsk, AppendTurnIsAnswer, FailIsGiveUp, TickIsTick, RestartIsRestart
       DEF Next, Memory!Next
<1>3. QED
  BY <1>1, <1>2, Invariance, PTL DEF Spec, ImplementsTranscripts, Memory!Spec

=============================================================================
