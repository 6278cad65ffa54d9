--------------------------- MODULE StartupProofs ----------------------------
(***************************************************************************)
(* For any number of programs, starts, crashes and rollbacks, any files    *)
(* and any order of statements: what the migrations leave behind, and that *)
(* the knowledge base is whole when all have done.                         *)
(***************************************************************************)
EXTENDS Startup, FiniteSetTheorems, SequenceTheorems, WellFoundedInduction, TLAPS

(***************************************************************************)
(* Migrations: the scripts.                                                *)
(***************************************************************************)

\* Which script makes what.
Maker == [users |-> 1, sessions |-> 2, sessions_fk |-> 2, berita |-> 3, berita_fk |-> 3,
          profile |-> 4, pkl |-> 5, pkl_fk |-> 5, analytics |-> 7, analytics_fk |-> 7, kb |-> 8]

\* No two scripts make the same.
LEMMA MadeByOne ==
  ASSUME NEW v \in Versions, NEW x \in Makes[v]
  PROVE  Maker[x] = v
<1>1. v \in {1, 2, 3, 4, 5, 6, 7, 8}
  BY DEF Versions
<1>2. CASE v = 1
  BY <1>2 DEF Makes, Maker
<1>3. CASE v = 2
  BY <1>3 DEF Makes, Maker
<1>4. CASE v = 3
  BY <1>4 DEF Makes, Maker
<1>5. CASE v = 4
  BY <1>5 DEF Makes, Maker
<1>6. CASE v = 5
  BY <1>6 DEF Makes, Maker
<1>7. CASE v = 6
  BY <1>7 DEF Makes, Maker
<1>8. CASE v = 7
  BY <1>8 DEF Makes, Maker
<1>9. CASE v = 8
  BY <1>9 DEF Makes, Maker
<1>10. QED
  BY <1>1, <1>2, <1>3, <1>4, <1>5, <1>6, <1>7, <1>8, <1>9

\* A rollback drops what its script made; all but the first drop no more than that.
LEMMA DropsMade ==
  ASSUME NEW v \in Versions
  PROVE  /\ Makes[v] \subseteq Drops[v]
         /\ v # 1 => Drops[v] = Makes[v]
<1>1. DOMAIN Makes = Versions
  BY DEF Makes, Versions
<1>2. CASE v = 1
  BY <1>1, <1>2 DEF Drops, Makes
<1>3. CASE v # 1
  BY <1>1, <1>3 DEF Drops
<1>4. QED
  BY <1>2, <1>3

\* The tables of the knowledge base are made by the last script, and dropped with it.
LEMMA BaseIsLast ==
  /\ Makes[8] = {"kb"}
  /\ \A v \in Versions : "kb" \in Drops[v] => v = 8
<1>1. Makes[8] = {"kb"} /\ DOMAIN Makes = Versions
  BY DEF Makes, Versions
<1>2. "kb" \notin Drops[1]
  BY <1>1 DEF Drops, Versions
<1>3. ASSUME NEW v \in Versions, "kb" \in Drops[v] PROVE v = 8
  <2>1. v # 1
    BY <1>2, <1>3
  <2>2. "kb" \in Makes[v] /\ "kb" \in Makes[8] /\ 8 \in Versions
    BY <1>1, <1>3, <2>1, DropsMade DEF Versions
  <2>3. QED
    BY <2>2, MadeByOne
<1>4. QED
  BY <1>1, <1>3

\* What there is once all versions were applied.
LEMMA AllMakeWhole ==
  ASSUME schema \subseteq Whole, \A v \in Versions : Makes[v] \subseteq schema
  PROVE  schema = Whole
  BY DEF Whole
-----------------------------------------------------------------------------
(***************************************************************************)
(* Migrations: the invariant.                                              *)
(***************************************************************************)

\* What is recorded is there, and so is what a program is about to record.
Applied ==
  /\ \A v \in recorded : Makes[v] \subseteq schema
  /\ \A p \in Starters : run[p].pc = "record" => Makes[run[p].version] \subseteq schema

Working(p) == run[p].pc \in {"check", "apply", "record"}

\* The versions that a program is past are recorded.
Behind == \A p \in Starters, v \in Versions : Working(p) /\ v < run[p].version => v \in recorded

\* A program that has not done is at one of the versions.
LEMMA AtVersion ==
  ASSUME TypeOK, NEW p \in Starters
  PROVE  /\ run[p] \in Runs /\ run[p].version \in Nat
         /\ run[p].pc # "ready" => run[p].version \in Versions
  BY DEF TypeOK, Runs, Versions

\* Going on keeps the record of a program in its type.
LEMMA OnToNextType ==
  ASSUME NEW r \in Runs, r.version \in Versions
  PROVE  /\ OnToNext(r) \in Runs /\ OnToNext(r).version = r.version + 1
         /\ OnToNext(r).pc = IF r.version = 8 THEN "ready" ELSE "check"
         /\ OnToNext(r).version = 9 <=> OnToNext(r).pc = "ready"
<1>1. PICK pc, n : pc = (IF r.version = 8 THEN "ready" ELSE "check") /\ n = r.version + 1
  OBVIOUS
<1>2. pc \in {"check", "ready"} /\ n \in 1 .. 9 /\ (n = 9 <=> pc = "ready")
  BY <1>1 DEF Versions
<1>3. OnToNext(r) = [r EXCEPT !.version = n, !.pc = pc]
  BY <1>1 DEF OnToNext
<1>4. OnToNext(r) = [pc |-> pc, version |-> n, starts |-> r.starts]
  BY <1>3 DEF Runs
<1>5. OnToNext(r) \in Runs
  BY <1>2, <1>4 DEF Runs
<1>6. QED
  BY <1>1, <1>2, <1>4, <1>5

LEMMA SchemaType == \A v \in Versions : Makes[v] \subseteq Whole
  BY DEF Whole

\* The types are kept.
LEMMA TypeStep == TypeOK /\ [Next]_vars => TypeOK'
<1> SUFFICES ASSUME TypeOK, [Next]_vars PROVE TypeOK'
  OBVIOUS
<1>1. ASSUME NEW p \in Starters, NEW r \in Runs, run' = [run EXCEPT ![p] = r],
             r.version = 9 <=> r.pc = "ready"
      PROVE  /\ run' \in [Starters -> Runs]
             /\ \A q \in Starters : run'[q].version = 9 <=> run'[q].pc = "ready"
  BY <1>1 DEF TypeOK
<1>2. ASSUME NEW p \in Starters, NEW pc \in {"apply", "record", "failed"}, Goto(p, pc),
             run[p].pc # "ready"
      PROVE  /\ run' \in [Starters -> Runs]
             /\ \A q \in Starters : run'[q].version = 9 <=> run'[q].pc = "ready"
  <2>1. PICK r : r = [run[p] EXCEPT !.pc = pc]
    OBVIOUS
  <2>2. r \in Runs /\ r.pc = pc /\ r.version = run[p].version /\ run[p].version # 9
    BY <1>2, <2>1, AtVersion DEF Runs, TypeOK
  <2>3. run' = [run EXCEPT ![p] = r]
    BY <1>2, <2>1 DEF Goto
  <2>4. QED
    BY <1>2, <2>2, <2>3, <1>1
<1>3. ASSUME NEW p \in Starters, Start(p) PROVE TypeOK'
  <2>1. PICK r : r = [pc |-> "check", version |-> 1, starts |-> run[p].starts + 1]
    OBVIOUS
  <2>2. r \in Runs /\ ~(r.version = 9) /\ r.pc # "ready"
    BY <1>3, <2>1, MigrationsAssumption DEF TypeOK, Runs, Start
  <2>3. run' = [run EXCEPT ![p] = r]
    BY <1>3, <2>1 DEF Start
  <2>4. QED
    BY <1>1, <1>3, <2>2, <2>3 DEF Start, TypeOK
<1>4. ASSUME NEW p \in Starters, Check(p) PROVE TypeOK'
  <2>1. run[p] \in Runs /\ run[p].version \in Versions /\ run[p].pc # "ready"
    BY <1>4, AtVersion DEF Check
  <2>2. CASE IsRecorded(run[p].version)
    BY <1>1, <1>4, <2>1, <2>2, OnToNextType DEF Check, TypeOK
  <2>3. CASE ~IsRecorded(run[p].version)
    BY <1>2, <1>4, <2>1, <2>3 DEF Check, TypeOK
  <2>4. QED
    BY <2>2, <2>3
<1>5. ASSUME NEW p \in Starters, Apply(p) PROVE TypeOK'
  <2>1. run[p].version \in Versions /\ run[p].pc # "ready"
    BY <1>5, AtVersion DEF Apply
  <2>2. schema' \subseteq Whole
    BY <1>5, <2>1, SchemaType DEF Apply, TypeOK
  <2>3. QED
    BY <1>2, <1>5, <2>1, <2>2 DEF Apply, TypeOK
<1>6. ASSUME NEW p \in Starters, Record(p) PROVE TypeOK'
  <2>1. run[p] \in Runs /\ run[p].version \in Versions /\ run[p].pc # "ready"
    BY <1>6, AtVersion DEF Record
  <2>2. CASE run[p].version \in recorded
    BY <1>2, <1>6, <2>1, <2>2 DEF Record, TypeOK
  <2>3. CASE run[p].version \notin recorded
    BY <1>1, <1>6, <2>1, <2>3, OnToNextType DEF Record, TypeOK
  <2>4. QED
    BY <2>2, <2>3
<1>7. ASSUME NEW p \in Starters, Fail(p) PROVE TypeOK'
  <2>1. crashes' \in 0 .. Crashes
    BY <1>7, MigrationsAssumption DEF Fail, TypeOK
  <2>2. QED
    BY <1>2, <1>7, <2>1 DEF Fail, TypeOK
<1>8. ASSUME NEW v \in Rollable, Rollback(v) PROVE TypeOK'
  <2>1. rollbacks' \in 0 .. Rollbacks
    BY <1>8, MigrationsAssumption DEF Rollback, TypeOK
  <2>2. QED
    BY <1>8, <2>1 DEF Rollback, TypeOK
<1>9. CASE UNCHANGED vars
  BY <1>9 DEF vars, TypeOK
<1>10. QED
  BY <1>3, <1>4, <1>5, <1>6, <1>7, <1>8, <1>9 DEF Next

\* Moving one program, with more recorded than before, keeps the others past what is
\* recorded.
LEMMA BehindMove ==
  ASSUME TypeOK, Behind, NEW p \in Starters, NEW r,
         run' = [run EXCEPT ![p] = r], recorded \subseteq recorded',
         \A v \in Versions : r.pc \in {"check", "apply", "record"} /\ v < r.version => v \in recorded'
  PROVE  Behind'
<1> SUFFICES ASSUME NEW q \in Starters, NEW v \in Versions, Working(q)', v < run'[q].version
             PROVE  v \in recorded'
  BY DEF Behind
<1>1. CASE q = p
  BY <1>1 DEF TypeOK, Working
<1>2. CASE q # p
  BY <1>2 DEF TypeOK, Working, Behind
<1>3. QED
  BY <1>1, <1>2

LEMMA BehindStep == TypeOK /\ Behind /\ [Next]_vars => Behind'
<1> SUFFICES ASSUME TypeOK, Behind, [Next]_vars PROVE Behind'
  OBVIOUS
<1>1. ASSUME NEW p \in Starters, Start(p) PROVE Behind'
  <2>1. PICK r : r = [pc |-> "check", version |-> 1, starts |-> run[p].starts + 1]
    OBVIOUS
  <2>2. run' = [run EXCEPT ![p] = r] /\ recorded' = recorded
    BY <1>1, <2>1 DEF Start
  <2>3. \A v \in Versions : ~(v < r.version)
    BY <2>1 DEF Versions
  <2>4. QED
    BY <2>2, <2>3, BehindMove
<1>2. ASSUME NEW p \in Starters, NEW pc, Goto(p, pc), Working(p), recorded' = recorded PROVE Behind'
  <2>1. PICK r : r = [run[p] EXCEPT !.pc = pc]
    OBVIOUS
  <2>2. r.version = run[p].version /\ run' = [run EXCEPT ![p] = r]
    BY <1>2, <2>1, AtVersion DEF Goto, Runs
  <2>3. \A v \in Versions : v < r.version => v \in recorded'
    BY <1>2, <2>2 DEF Behind
  <2>4. QED
    BY <1>2, <2>2, <2>3, BehindMove
<1>3. ASSUME NEW p \in Starters, Working(p), run' = [run EXCEPT ![p] = OnToNext(@)],
             recorded \subseteq recorded', run[p].version \in recorded'
      PROVE  Behind'
  <2>1. PICK r : r = OnToNext(run[p])
    OBVIOUS
  <2>2. run[p] \in Runs /\ run[p].version \in Versions
    BY <1>3, AtVersion DEF Working
  <2>3. r.version = run[p].version + 1 /\ run' = [run EXCEPT ![p] = r]
    BY <1>3, <2>1, <2>2, OnToNextType
  <2>4. ASSUME NEW v \in Versions, v < r.version PROVE v \in recorded'
    <3>1. v < run[p].version \/ v = run[p].version
      BY <2>2, <2>3, <2>4 DEF Versions
    <3>2. QED
      BY <1>3, <3>1 DEF Behind
  <2>5. QED
    BY <1>3, <2>3, <2>4, BehindMove
<1>4. ASSUME NEW p \in Starters, Check(p) PROVE Behind'
  BY <1>2, <1>3, <1>4 DEF Check, IsRecorded, Working
<1>5. ASSUME NEW p \in Starters, Apply(p) PROVE Behind'
  BY <1>2, <1>5 DEF Apply, Working
<1>6. ASSUME NEW p \in Starters, Record(p) PROVE Behind'
  <2>1. CASE run[p].version \in recorded
    BY <1>2, <1>6, <2>1 DEF Record, Working
  <2>2. CASE run[p].version \notin recorded
    BY <1>3, <1>6, <2>2 DEF Record, Working
  <2>3. QED
    BY <2>1, <2>2
<1>7. ASSUME NEW p \in Starters, Fail(p) PROVE Behind'
  BY <1>2, <1>7 DEF Fail, Working
<1>8. ASSUME NEW v \in Rollable, Rollback(v) PROVE Behind'
  BY <1>8 DEF Rollback, Behind, Working
<1>9. CASE UNCHANGED vars
  BY <1>9 DEF vars, Behind, Working
<1>10. QED
  BY <1>1, <1>4, <1>5, <1>6, <1>7, <1>8, <1>9 DEF Next

\* Only the first script's rollback drops what stays recorded.
LEMMA AppliedStep ==
  ASSUME 1 \notin Rollable, TypeOK, Applied, [Next]_vars
  PROVE  Applied'
<1>1. ASSUME NEW p \in Starters, NEW pc, NEW n, run'[p].pc = pc, run'[p].version = n,
             \A q \in Starters \ {p} : run'[q] = run[q],
             schema \subseteq schema', recorded' = recorded,
             pc = "record" => Makes[n] \subseteq schema'
      PROVE  Applied'
  <2>1. ASSUME NEW q \in Starters, run'[q].pc = "record" PROVE Makes[run'[q].version] \subseteq schema'
    <3>1. CASE q = p
      BY <1>1, <2>1, <3>1
    <3>2. CASE q # p
      BY <1>1, <2>1, <3>2 DEF Applied
    <3>3. QED
      BY <3>1, <3>2
  <2>2. \A v \in recorded' : Makes[v] \subseteq schema'
    BY <1>1 DEF Applied
  <2>3. QED
    BY <2>1, <2>2 DEF Applied
<1>2. ASSUME NEW p \in Starters, NEW pc \in {"apply", "record", "failed"}, Goto(p, pc)
      PROVE  /\ run'[p].pc = pc /\ run'[p].version = run[p].version
             /\ \A q \in Starters \ {p} : run'[q] = run[q]
  BY <1>2, AtVersion DEF Goto, TypeOK, Runs
<1>3. ASSUME NEW p \in Starters, Start(p) PROVE Applied'
  <2>1. run'[p].pc = "check" /\ \A q \in Starters \ {p} : run'[q] = run[q]
    BY <1>3 DEF Start, TypeOK
  <2>2. QED
    BY <1>1, <1>3, <2>1 DEF Start
<1>4. ASSUME NEW p \in Starters, Check(p) PROVE Applied'
  <2>1. CASE IsRecorded(run[p].version)
    <3>1. run[p] \in Runs /\ run[p].version \in Versions
      BY <1>4, AtVersion DEF Check
    <3>2. run'[p] = OnToNext(run[p]) /\ \A q \in Starters \ {p} : run'[q] = run[q]
      BY <1>4, <2>1 DEF Check, TypeOK
    <3>3. run'[p].pc # "record"
      BY <3>1, <3>2, OnToNextType
    <3>4. QED
      BY <1>1, <1>4, <3>2, <3>3 DEF Check
  <2>2. CASE ~IsRecorded(run[p].version)
    BY <1>1, <1>2, <1>4, <2>2 DEF Check
  <2>3. QED
    BY <2>1, <2>2
<1>5. ASSUME NEW p \in Starters, Apply(p) PROVE Applied'
  <2>1. CASE Applicable(run[p].version)
    BY <1>1, <1>2, <1>5, <2>1 DEF Apply
  <2>2. CASE ~Applicable(run[p].version)
    BY <1>1, <1>2, <1>5, <2>2 DEF Apply
  <2>3. QED
    BY <2>1, <2>2
<1>6. ASSUME NEW p \in Starters, Record(p) PROVE Applied'
  <2>1. CASE run[p].version \in recorded
    BY <1>1, <1>2, <1>6, <2>1 DEF Record
  <2>2. CASE run[p].version \notin recorded
    <3>1. run[p] \in Runs /\ run[p].version \in Versions
      BY <1>6, AtVersion DEF Record
    <3>2. run'[p] = OnToNext(run[p]) /\ \A q \in Starters \ {p} : run'[q] = run[q]
      BY <1>6, <2>2 DEF Record, TypeOK
    <3>3. run'[p].pc # "record"
      BY <3>1, <3>2, OnToNextType
    <3>4. Makes[run[p].version] \subseteq schema
      BY <1>6 DEF Record, Applied
    <3>5. QED
      BY <1>6, <2>2, <3>2, <3>3, <3>4 DEF Record, Applied
  <2>3. QED
    BY <2>1, <2>2
<1>7. ASSUME NEW p \in Starters, Fail(p) PROVE Applied'
  BY <1>1, <1>2, <1>7 DEF Fail
<1>8. ASSUME NEW v \in Rollable, Rollback(v) PROVE Applied'
  <2>1. v \in Versions /\ Drops[v] = Makes[v]
    BY <1>8, DropsMade DEF Rollback, TypeOK
  <2>2. ASSUME NEW w \in recorded' PROVE Makes[w] \subseteq schema'
    <3>1. w \in Versions /\ w # v /\ Makes[w] \subseteq schema
      BY <1>8, <2>2 DEF Rollback, Forgotten, TypeOK, Applied
    <3>2. \A x \in Makes[w] : x \notin Makes[v]
      BY <2>1, <3>1, MadeByOne
    <3>3. QED
      BY <1>8, <2>1, <3>1, <3>2 DEF Rollback
  <2>3. \A p \in Starters : run'[p].pc # "record"
    BY <1>8 DEF Rollback
  <2>4. QED
    BY <2>2, <2>3 DEF Applied
<1>9. CASE UNCHANGED vars
  BY <1>9 DEF vars, Applied
<1>10. QED
  BY <1>3, <1>4, <1>5, <1>6, <1>7, <1>8, <1>9 DEF Next

\* What is there without being recorded, or about to be, grows by crashes only, and by
\* one version at most.
LEMMA UnrecordedStep ==
  ASSUME TypeOK, [Next]_vars
  PROVE  \/ Unrecorded' \subseteq Unrecorded /\ crashes' = crashes
         \/ crashes' = crashes + 1 /\ \E v : Unrecorded' \subseteq Unrecorded \cup {v}
<1>1. ASSUME schema' = schema, recorded \subseteq recorded', NEW p \in Starters,
             run[p].pc = "record" => run[p].version \in recorded',
             \A q \in Starters \ {p} : run'[q] = run[q]
      PROVE  Unrecorded' \subseteq Unrecorded
  BY <1>1 DEF Unrecorded
<1>2. ASSUME NEW p \in Starters, Start(p) PROVE Unrecorded' \subseteq Unrecorded
  <2>1. \A q \in Starters \ {p} : run'[q] = run[q]
    BY <1>2 DEF Start, TypeOK
  <2>2. QED
    BY <1>1, <1>2, <2>1 DEF Start
<1>3. ASSUME NEW p \in Starters, Check(p) PROVE Unrecorded' \subseteq Unrecorded
  <2>1. \A q \in Starters \ {p} : run'[q] = run[q]
    BY <1>3 DEF Check, Goto, TypeOK
  <2>2. QED
    BY <1>1, <1>3, <2>1 DEF Check
<1>4. ASSUME NEW p \in Starters, Apply(p) PROVE Unrecorded' \subseteq Unrecorded
  <2>1. \A q \in Starters \ {p} : run'[q] = run[q]
    BY <1>4 DEF Apply, Goto, TypeOK
  <2>2. CASE Applicable(run[p].version)
    <3>1. PICK v \in Versions : v = run[p].version
      BY <1>4, AtVersion DEF Apply
    <3>2. run'[p].pc = "record" /\ run'[p].version = v
      BY <1>4, <2>2, <3>1, AtVersion DEF Apply, Goto, TypeOK, Runs
    <3>3. schema' = schema \cup Makes[v] /\ recorded' = recorded
      BY <1>4, <2>2, <3>1 DEF Apply
    <3>4. ASSUME NEW w \in Unrecorded' PROVE w \in Unrecorded
      <4>1. w \in Versions /\ w # v
        BY <3>2, <3>4 DEF Unrecorded
      <4>2. Makes[w] \cap Makes[v] = {}
        BY <4>1, <3>1, MadeByOne
      <4>3. Makes[w] \cap schema # {}
        BY <3>3, <3>4, <4>2 DEF Unrecorded
      <4>4. ASSUME NEW q \in Starters, run[q].pc = "record", run[q].version = w PROVE FALSE
        <5>1. q # p
          BY <1>4, <4>4 DEF Apply
        <5>2. run'[q] = run[q]
          BY <2>1, <5>1
        <5>3. QED
          BY <3>4, <4>4, <5>2 DEF Unrecorded
      <4>5. w \notin recorded
        BY <3>3, <3>4 DEF Unrecorded
      <4>6. QED
        BY <4>1, <4>3, <4>4, <4>5 DEF Unrecorded
    <3>5. QED
      BY <3>4
  <2>3. CASE ~Applicable(run[p].version)
    BY <1>1, <1>4, <2>1, <2>3 DEF Apply
  <2>4. QED
    BY <2>2, <2>3
<1>5. ASSUME NEW p \in Starters, Record(p) PROVE Unrecorded' \subseteq Unrecorded
  <2>1. \A q \in Starters \ {p} : run'[q] = run[q]
    BY <1>5 DEF Record, Goto, TypeOK
  <2>2. QED
    BY <1>1, <1>5, <2>1 DEF Record
<1>6. ASSUME NEW p \in Starters, Fail(p) PROVE Unrecorded' \subseteq Unrecorded \cup {run[p].version}
  <2>1. \A q \in Starters \ {p} : run'[q] = run[q]
    BY <1>6 DEF Fail, Goto, TypeOK
  <2>2. QED
    BY <1>6, <2>1 DEF Fail, Unrecorded
<1>7. ASSUME NEW v \in Rollable, Rollback(v) PROVE Unrecorded' \subseteq Unrecorded
  <2>1. v \in Versions /\ Makes[v] \subseteq Drops[v]
    BY <1>7, DropsMade DEF Rollback, TypeOK
  <2>2. schema' = schema \ Drops[v] /\ recorded' = recorded \ {v} /\ run' = run
    BY <1>7 DEF Rollback, Forgotten
  <2>3. ASSUME NEW w \in Unrecorded' PROVE w \in Unrecorded
    <3>1. w # v
      BY <2>1, <2>2, <2>3 DEF Unrecorded
    <3>2. QED
      BY <2>2, <2>3, <3>1 DEF Unrecorded
  <2>4. QED
    BY <2>3
<1>8. CASE UNCHANGED vars
  BY <1>8 DEF vars, Unrecorded
<1>9. QED
  BY <1>2, <1>3, <1>4, <1>5, <1>6, <1>7, <1>8
     DEF Next, vars, Start, Check, Apply, Record, Fail, Rollback

\* Counting what a crash may add.
LEMMA OneMore ==
  ASSUME NEW S \in SUBSET Versions, NEW T \in SUBSET Versions, NEW v, T \subseteq S \cup {v}
  PROVE  /\ Cardinality(S) \in Nat /\ Cardinality(T) \in Nat
         /\ Cardinality(T) <= Cardinality(S) + 1
         /\ T \subseteq S => Cardinality(T) <= Cardinality(S)
<1>1. IsFiniteSet(Versions)
  <2>1. 1 \in Int /\ 8 \in Int
    OBVIOUS
  <2>2. IsFiniteSet(1 .. 8)
    BY <2>1, FS_Interval
  <2>3. QED
    BY <2>2 DEF Versions
<1>2. IsFiniteSet(S) /\ IsFiniteSet(T) /\ Cardinality(S) \in Nat /\ Cardinality(T) \in Nat
  BY <1>1, FS_Subset, FS_CardinalityType
<1>3. PICK U : U = S \cup {v}
  OBVIOUS
<1>4. IsFiniteSet(U) /\ Cardinality(U) = IF v \in S THEN Cardinality(S) ELSE Cardinality(S) + 1
  BY <1>2, <1>3, FS_AddElement, Zenon
<1>5. Cardinality(T) <= Cardinality(U)
  BY <1>3, <1>4, FS_Subset
<1>6. T \subseteq S => Cardinality(T) <= Cardinality(S)
  BY <1>2, FS_Subset
<1>7. QED
  BY <1>2, <1>4, <1>5, <1>6

LEMMA CountStep == TypeOK /\ AppliedIsRecorded /\ [Next]_vars => AppliedIsRecorded'
<1> SUFFICES ASSUME TypeOK, AppliedIsRecorded, [Next]_vars PROVE AppliedIsRecorded'
  OBVIOUS
<1>1. PICK S \in SUBSET Versions, T \in SUBSET Versions : S = Unrecorded /\ T = Unrecorded'
  BY DEF Unrecorded
<1>2. PICK n \in Nat : n = crashes
  BY MigrationsAssumption DEF TypeOK
<1>3. Cardinality(S) <= n
  BY <1>1, <1>2 DEF AppliedIsRecorded
<1>4. AppliedIsRecorded' <=> Cardinality(T) <= crashes'
  BY <1>1, Zenon DEF AppliedIsRecorded
<1>5. CASE T \subseteq S /\ crashes' = crashes
  <2>1. T \subseteq S \cup {n}
    BY <1>5
  <2>2. Cardinality(T) <= n
    BY <1>2, <1>3, <1>5, <2>1, OneMore
  <2>3. QED
    BY <1>2, <1>4, <1>5, <2>2
<1>6. ASSUME crashes' = crashes + 1, NEW v, T \subseteq S \cup {v} PROVE AppliedIsRecorded'
  <2>1. Cardinality(T) <= Cardinality(S) + 1 /\ Cardinality(S) \in Nat /\ Cardinality(T) \in Nat
    BY <1>6, OneMore
  <2>2. Cardinality(T) <= n + 1
    BY <1>3, <2>1
  <2>3. QED
    BY <1>2, <1>4, <1>6, <2>2
<1>7. QED
  BY <1>1, <1>5, <1>6, UnrecordedStep

\* What holds of the schema and its record whatever is rolled back.
MigrationsInv == TypeOK /\ Behind /\ AppliedIsRecorded

LEMMA MigrationsInit == Init => MigrationsInv /\ Applied
<1> SUFFICES ASSUME Init PROVE MigrationsInv /\ Applied
  OBVIOUS
<1>1. TypeOK
  BY MigrationsAssumption DEF Init, TypeOK, Runs
<1>2. Behind /\ Applied
  BY DEF Init, Behind, Working, Applied
<1>3. AppliedIsRecorded
  <2>1. Unrecorded = {}
    BY DEF Init, Unrecorded
  <2>2. Cardinality({}) = 0
    BY FS_EmptySet
  <2>3. crashes = 0
    BY DEF Init
  <2>4. QED
    BY <2>1, <2>2, <2>3 DEF AppliedIsRecorded
<1>4. QED
  BY <1>1, <1>2, <1>3 DEF MigrationsInv

LEMMA MigrationsAlways == Spec => []MigrationsInv
<1>1. MigrationsInv /\ [Next]_vars => MigrationsInv'
  BY TypeStep, BehindStep, CountStep DEF MigrationsInv
<1>2. QED
  BY <1>1, MigrationsInit, PTL DEF Spec

\* Each crash leaves at most one version applied and unrecorded, however many programs
\* migrate at once, whatever is rolled back.
THEOREM CrashesAreCounted == Spec => []AppliedIsRecorded
<1>1. MigrationsInv => AppliedIsRecorded
  BY DEF MigrationsInv
<1>2. QED
  BY <1>1, MigrationsAlways, PTL

\* A program that becomes ready finds all that the scripts make.
LEMMA ReadyStep ==
  ASSUME TypeOK, Behind, Applied, [Next]_vars, NEW p \in Starters,
         run[p].pc # "ready", run'[p].pc = "ready"
  PROVE  schema = Whole
<1>1. run[p] \in Runs /\ run[p].version \in Versions
  BY AtVersion
<1>2. ASSUME NEW v, v = run[p].version, Working(p), run'[p] = OnToNext(run[p]),
             Makes[v] \subseteq schema
      PROVE  schema = Whole
  <2>1. v = 8
    BY <1>1, <1>2, OnToNextType
  <2>2. ASSUME NEW w \in Versions PROVE Makes[w] \subseteq schema
    <3>1. w = v \/ w < v
      BY <2>1 DEF Versions
    <3>2. CASE w = v
      BY <1>2, <3>2
    <3>3. CASE w < v
      BY <1>2, <3>3 DEF Behind, Applied
    <3>4. QED
      BY <3>1, <3>2, <3>3
  <2>3. QED
    BY <2>2, AllMakeWhole DEF TypeOK
<1>3. ASSUME NEW q \in Starters, NEW pc \in {"apply", "record", "failed"}, Goto(q, pc) PROVE FALSE
  BY <1>3 DEF Goto, TypeOK, Runs
<1>4. ASSUME NEW q \in Starters, Start(q) PROVE FALSE
  BY <1>4 DEF Start, TypeOK
<1>5. ASSUME NEW q \in Starters, Check(q) PROVE schema = Whole
  <2>1. IsRecorded(run[q].version) /\ run' = [run EXCEPT ![q] = OnToNext(@)]
    BY <1>3, <1>5 DEF Check
  <2>2. q = p /\ run'[p] = OnToNext(run[p])
    BY <2>1 DEF TypeOK
  <2>3. QED
    BY <1>2, <1>5, <2>1, <2>2 DEF Check, Working, IsRecorded, Applied
<1>6. ASSUME NEW q \in Starters, Apply(q) PROVE FALSE
  BY <1>3, <1>6 DEF Apply
<1>7. ASSUME NEW q \in Starters, Record(q) PROVE schema = Whole
  <2>1. run' = [run EXCEPT ![q] = OnToNext(@)]
    BY <1>3, <1>7 DEF Record
  <2>2. q = p /\ run'[p] = OnToNext(run[p])
    BY <2>1 DEF TypeOK
  <2>3. QED
    BY <1>2, <1>7, <2>2 DEF Record, Working, Applied
<1>8. ASSUME NEW q \in Starters, Fail(q) PROVE FALSE
  BY <1>3, <1>8 DEF Fail
<1>9. ASSUME NEW v \in Rollable, Rollback(v) PROVE FALSE
  BY <1>9 DEF Rollback
<1>10. QED
  BY <1>4, <1>5, <1>6, <1>7, <1>8, <1>9 DEF Next, vars

\* As long as the first script is not rolled back, and nothing while a program starts, a
\* program that gets to work finds the whole schema, whatever failed before, was done by
\* another program at the same time, or was rolled back otherwise.
THEOREM ReadyIsWhole ==
  ASSUME 1 \notin Rollable
  PROVE  Spec => StartedIsWhole
<1>1. MigrationsInv /\ Applied /\ [Next]_vars => Applied'
  BY AppliedStep DEF MigrationsInv
<1>2. Spec => []Applied
  BY <1>1, MigrationsInit, MigrationsAlways, PTL DEF Spec
<1>3. MigrationsInv /\ Applied /\ [Next]_vars =>
        [\A p \in Starters : (run[p].pc # "ready" /\ run'[p].pc = "ready") => schema = Whole]_vars
  BY ReadyStep DEF MigrationsInv
<1>4. QED
  BY <1>2, <1>3, MigrationsAlways, PTL DEF Spec, StartedIsWhole
-----------------------------------------------------------------------------
(***************************************************************************)
(* Programs take the steps of the runner.                                  *)
(***************************************************************************)

LEMMA StepOfRunner == [StartupNext]_<<vars, base, torn>> => [Next]_vars
<1> SUFFICES ASSUME [StartupNext]_<<vars, base, torn>> PROVE [Next]_vars
  OBVIOUS
<1>1. ASSUME NEW p \in Starters, Migrate(p) PROVE Next
  BY <1>1 DEF Migrate, Next
<1>2. CASE UNCHANGED <<vars, base, torn>>
  BY <1>2
<1>3. QED
  BY <1>1, <1>2 DEF StartupNext, Begin, Seed, Break, RollBack, Next

\* Seeding does not touch what the migrations do, so that what is proved of them holds
\* of programs that migrate and then seed.
THEOREM KeepsToRunner == StartupSpec => Spec
<1>1. StartupInit => Init
  BY DEF StartupInit
<1>2. QED
  BY <1>1, StepOfRunner, PTL DEF StartupSpec, Spec

-----------------------------------------------------------------------------
(***************************************************************************)
(* Seeding: types, and the numbers of the documents.                       *)
(***************************************************************************)

\* There is a first file, and files and chunks are numbered from 1.
LEMMA ChunksType ==
  /\ Len(Chunks) \in Nat /\ Len(Chunks) >= 1
  /\ DOMAIN Chunks = 1 .. Len(Chunks)
  /\ \A f \in DOMAIN Chunks : /\ Len(Chunks[f]) \in Nat
                              /\ DOMAIN Chunks[f] = 1 .. Len(Chunks[f])
                              /\ Chunks[f] # <<>> <=> Len(Chunks[f]) > 0
<1> DEFINE Texts1 == Seq([from : Nat, to : Nat])
<1>1. Chunks \in Seq(Texts1) /\ Chunks # <<>>
  BY StartupAssumption DEF KB!KnowledgeAssumption
<1>2. Len(Chunks) \in Nat /\ DOMAIN Chunks = 1 .. Len(Chunks) /\ Len(Chunks) # 0
  <2> HIDE DEF Texts1
  <2>1. QED
    BY <1>1, LenProperties, EmptySeq
<1>3. ASSUME NEW f \in DOMAIN Chunks PROVE Chunks[f] \in Texts1
  <2> HIDE DEF Texts1
  <2>1. QED
    BY <1>1, <1>2, ElementOfSeq
<1>4. ASSUME NEW f \in DOMAIN Chunks
      PROVE  /\ Len(Chunks[f]) \in Nat
             /\ DOMAIN Chunks[f] = 1 .. Len(Chunks[f])
             /\ Chunks[f] # <<>> <=> Len(Chunks[f]) > 0
  <2>1. PICK text \in Texts1 : text = Chunks[f]
    BY <1>3
  <2>2. Len(text) \in Nat /\ DOMAIN text = 1 .. Len(text)
    BY LenProperties
  <2>3. text # <<>> => Len(text) \in Nat \ {0}
    BY EmptySeq
  <2>4. Len(<<>>) = 0
    BY EmptySeq
  <2>5. QED
    BY <2>1, <2>2, <2>3, <2>4
<1>5. QED
  BY <1>2, <1>4

\* What each place of a seeding run says of the rest of its record.
ReadyAt(s) ==
  /\ s.pc # "idle" => s.runs >= 1
  /\ s.pc \in {"idle", "count"} => s.file = 1
  /\ s.pc \notin {"idle", "count"} => s.file \in DOMAIN Chunks
  /\ s.pc \notin {"embed", "chunk"} => s.done = 0
  /\ s.pc = "insert" => Chunks[s.file] # <<>>
  /\ s.pc \in {"embed", "chunk"} => s.done < Len(Chunks[s.file])

Ready == \A p \in Starters : ReadyAt(seeding[p])

\* The records of seeding runs.
Seedings == KB!RunStates

\* A program's step leaves it at r.
Moved(p, r) == r \in Seedings /\ ReadyAt(r) /\ seeding' = [seeding EXCEPT ![p] = r]

LEMMA SeedingFields ==
  ASSUME NEW s \in Seedings
  PROVE  /\ s.file \in 1 .. Len(Chunks) + 1 /\ s.document \in 0 .. KB!MaxId
         /\ s.done \in Nat /\ s.vectors \in Nat /\ s.runs \in 0 .. Starts
         /\ s = [pc |-> s.pc, file |-> s.file, document |-> s.document, done |-> s.done,
                 vectors |-> s.vectors, runs |-> s.runs]
  BY DEF Seedings, KB!RunStates

Places == {"idle", "count", "clear", "insert", "embed", "chunk"}

Outcomes == {"none", "done", "conflict", "broken"}

\* The chunk that a program inserts next.
NewRow(p) == [document |-> seeding[p].document, file |-> seeding[p].file,
              n |-> seeding[p].done + 1, by |-> p]

LEMMA MakeSeeding ==
  ASSUME NEW pc \in Places, NEW file \in 1 .. Len(Chunks) + 1, NEW document \in 0 .. KB!MaxId,
         NEW done \in Nat, NEW vectors \in Nat, NEW runs \in 0 .. Starts
  PROVE  [pc |-> pc, file |-> file, document |-> document, done |-> done, vectors |-> vectors,
          runs |-> runs] \in Seedings
  BY DEF Seedings, KB!RunStates, Places

\* The base counts as the library does.
LEMMA Counting ==
  /\ IsFiniteSet(Starters)
  /\ KB!MaxId = Starts * Cardinality(Starters) * Len(Chunks)
<1>1. KB!IsFiniteSet(Starters)
  BY StartupAssumption DEF KB!KnowledgeAssumption
<1>2. IsFiniteSet(Starters)
  BY <1>1 DEF KB!IsFiniteSet, IsFiniteSet
<1>3. KB!Cardinality(Starters) = Cardinality(Starters)
  BY Zenon DEF KB!Cardinality, Cardinality
<1>4. QED
  BY <1>2, <1>3 DEF KB!MaxId

LEMMA MaxIdType == KB!MaxId \in Nat
<1>1. PICK n \in Nat, m \in Nat, k \in Nat :
        n = Starts /\ m = Cardinality(Starters) /\ k = Len(Chunks)
  BY Counting, FS_CardinalityType, ChunksType, MigrationsAssumption
<1>2. n * m \in Nat /\ (n * m) * k \in Nat
  OBVIOUS
<1>3. QED
  BY <1>1, <1>2, Counting

\* A run that is over.
LEMMA EndMoves ==
  ASSUME seeding \in [Starters -> Seedings], NEW p \in Starters, NEW how, KB!End(p, how)
  PROVE  /\ \E r : Moved(p, r) /\ r.pc = "idle" /\ r.runs = seeding[p].runs
         /\ outcome' = [outcome EXCEPT ![p] = how]
<1>1. PICK n : n = seeding[p].runs
  OBVIOUS
<1>2. n \in 0 .. Starts
  BY <1>1, SeedingFields
<1>3. PICK r : r = [pc |-> "idle", file |-> 1, document |-> 0, done |-> 0, vectors |-> 0, runs |-> n]
  OBVIOUS
<1>4. r \in Seedings
  BY <1>2, <1>3, MakeSeeding, MaxIdType, ChunksType DEF Places
<1>5. seeding' = [seeding EXCEPT ![p] = r]
  <2>1. [KB!NotRunning EXCEPT !.runs = n] = r
    BY <1>3 DEF KB!NotRunning
  <2>2. QED
    BY <1>1, <2>1 DEF KB!End
<1>6. ReadyAt(r)
  BY <1>3 DEF ReadyAt
<1>7. QED
  BY <1>1, <1>3, <1>4, <1>5, <1>6 DEF Moved, KB!End

\* A run that has done with a file.
LEMMA NextFileMoves ==
  ASSUME seeding \in [Starters -> Seedings], Ready, NEW p \in Starters,
         seeding[p].pc \in {"clear", "chunk"}, KB!NextFile(p)
  PROVE  \E r : /\ Moved(p, r) /\ r.runs = seeding[p].runs
                /\ \/ /\ r.pc = "idle" /\ seeding[p].file = Len(Chunks)
                      /\ outcome' = [outcome EXCEPT ![p] = "done"]
                   \/ r.pc = "clear" /\ r.file = seeding[p].file + 1 /\ outcome' = outcome
<1>1. CASE seeding[p].file = Len(Chunks)
  <2>1. KB!End(p, "done")
    BY <1>1 DEF KB!NextFile
  <2>2. QED
    BY <1>1, <2>1, EndMoves
<1>2. CASE seeding[p].file # Len(Chunks)
  <2>1. PICK s \in Seedings : s = seeding[p]
    OBVIOUS
  <2>2. PICK n, f : n = s.runs /\ f = s.file + 1
    OBVIOUS
  <2>3. n \in 0 .. Starts /\ f \in DOMAIN Chunks /\ f \in 1 .. Len(Chunks) + 1 /\ n >= 1
    BY <1>2, <2>1, <2>2, SeedingFields, ChunksType DEF Ready, ReadyAt
  <2>4. PICK r : r = [pc |-> "clear", file |-> f, document |-> 0, done |-> 0, vectors |-> 0, runs |-> n]
    OBVIOUS
  <2>5. r \in Seedings
    BY <2>3, <2>4, MakeSeeding, MaxIdType DEF Places
  <2>6. seeding' = [seeding EXCEPT ![p] = r] /\ outcome' = outcome
    BY <1>2, <2>1, <2>2, <2>4 DEF KB!NextFile
  <2>7. ReadyAt(r)
    BY <2>3, <2>4 DEF ReadyAt
  <2>8. Moved(p, r) /\ r.runs = seeding[p].runs /\ r.pc = "clear" /\ r.file = seeding[p].file + 1
    BY <2>1, <2>2, <2>4, <2>5, <2>6, <2>7 DEF Moved
  <2>9. QED
    BY <2>6, <2>8
<1>3. QED
  BY <1>1, <1>2

\* What an edit makes of such a record.
LEMMA EditSeeding ==
  ASSUME NEW s \in Seedings, NEW pc, NEW document, NEW done, NEW vectors, NEW runs
  PROVE  /\ [s EXCEPT !.pc = pc] =
              [pc |-> pc, file |-> s.file, document |-> s.document, done |-> s.done,
               vectors |-> s.vectors, runs |-> s.runs]
         /\ [s EXCEPT !.pc = pc, !.runs = runs] =
              [pc |-> pc, file |-> s.file, document |-> s.document, done |-> s.done,
               vectors |-> s.vectors, runs |-> runs]
         /\ [s EXCEPT !.pc = pc, !.document = document] =
              [pc |-> pc, file |-> s.file, document |-> document, done |-> s.done,
               vectors |-> s.vectors, runs |-> s.runs]
         /\ [s EXCEPT !.pc = pc, !.vectors = vectors] =
              [pc |-> pc, file |-> s.file, document |-> s.document, done |-> s.done,
               vectors |-> vectors, runs |-> s.runs]
         /\ [s EXCEPT !.done = done, !.pc = pc] =
              [pc |-> pc, file |-> s.file, document |-> s.document, done |-> done,
               vectors |-> s.vectors, runs |-> s.runs]
<1>1. [s EXCEPT !.pc = pc] =
        [pc |-> pc, file |-> s.file, document |-> s.document, done |-> s.done,
         vectors |-> s.vectors, runs |-> s.runs]
  BY DEF Seedings, KB!RunStates
<1>2. [s EXCEPT !.done = done] =
        [pc |-> s.pc, file |-> s.file, document |-> s.document, done |-> done,
         vectors |-> s.vectors, runs |-> s.runs]
  BY DEF Seedings, KB!RunStates
<1>3. PICK t : t = [pc |-> pc, file |-> s.file, document |-> s.document, done |-> s.done,
                    vectors |-> s.vectors, runs |-> s.runs]
  OBVIOUS
<1>4. [s EXCEPT !.pc = pc, !.runs = runs] = [t EXCEPT !.runs = runs]
  BY <1>1, <1>3
<1>5. [t EXCEPT !.runs = runs] =
        [pc |-> pc, file |-> s.file, document |-> s.document, done |-> s.done,
         vectors |-> s.vectors, runs |-> runs]
  BY <1>3
<1>6. [s EXCEPT !.pc = pc, !.document = document] = [t EXCEPT !.document = document]
  BY <1>1, <1>3
<1>7. [t EXCEPT !.document = document] =
        [pc |-> pc, file |-> s.file, document |-> document, done |-> s.done,
         vectors |-> s.vectors, runs |-> s.runs]
  BY <1>3
<1>8. [s EXCEPT !.pc = pc, !.vectors = vectors] = [t EXCEPT !.vectors = vectors]
  BY <1>1, <1>3
<1>9. [t EXCEPT !.vectors = vectors] =
        [pc |-> pc, file |-> s.file, document |-> s.document, done |-> s.done,
         vectors |-> vectors, runs |-> s.runs]
  BY <1>3
<1>10. PICK u : u = [pc |-> s.pc, file |-> s.file, document |-> s.document, done |-> done,
                    vectors |-> s.vectors, runs |-> s.runs]
  OBVIOUS
<1>11. [s EXCEPT !.done = done, !.pc = pc] = [u EXCEPT !.pc = pc]
  BY <1>2, <1>10
<1>12. [u EXCEPT !.pc = pc] =
        [pc |-> pc, file |-> s.file, document |-> s.document, done |-> done,
         vectors |-> s.vectors, runs |-> s.runs]
  BY <1>10
<1>13. QED
  BY <1>1, <1>4, <1>5, <1>6, <1>7, <1>8, <1>9, <1>11, <1>12

\* A run begins.
LEMMA StartMoves ==
  ASSUME seeding \in [Starters -> Seedings], Ready, NEW p \in Starters, KB!Start(p)
  PROVE  \E r : /\ Moved(p, r) /\ seeding[p].pc = "idle" /\ r.runs = seeding[p].runs + 1
                /\ r.pc \in {"count", "clear"} /\ r.file = 1
<1>1. PICK s \in Seedings : s = seeding[p]
  OBVIOUS
<1>2. s.pc = "idle" /\ s.runs < Starts /\ s.file = 1 /\ s.done = 0
  BY <1>1 DEF KB!Start, Ready, ReadyAt
<1>3. PICK pc \in {"count", "clear"} : pc = IF p \in AutoSeeds THEN "count" ELSE "clear"
  OBVIOUS
<1>4. PICK n : n = s.runs + 1
  OBVIOUS
<1>5. n \in 0 .. Starts /\ n >= 1
  BY <1>2, <1>4, SeedingFields, MigrationsAssumption
<1>6. PICK r : r = [s EXCEPT !.pc = pc, !.runs = n]
  OBVIOUS
<1>7. r = [pc |-> pc, file |-> s.file, document |-> s.document, done |-> s.done,
           vectors |-> s.vectors, runs |-> n]
  BY <1>6, EditSeeding
<1>8. r \in Seedings /\ seeding' = [seeding EXCEPT ![p] = r]
  <2>1. pc \in Places
    BY DEF Places
  <2>2. r \in Seedings
    BY <1>5, <1>7, <2>1, SeedingFields, MakeSeeding
  <2>3. QED
    BY <1>1, <1>3, <1>4, <1>6, <2>2 DEF KB!Start
<1>9. ReadyAt(r)
  <2>1. 1 \in DOMAIN Chunks
    BY ChunksType
  <2>2. QED
    BY <1>2, <1>5, <1>7, <2>1 DEF ReadyAt
<1>10. Moved(p, r) /\ r.runs = s.runs + 1 /\ r.pc = pc /\ r.file = 1
  BY <1>2, <1>4, <1>7, <1>8, <1>9 DEF Moved
<1>11. QED
  BY <1>1, <1>2, <1>10

LEMMA CountMoves ==
  ASSUME seeding \in [Starters -> Seedings], outcome \in [Starters -> Outcomes], Ready,
         NEW p \in Starters, KB!Count(p)
  PROVE  \E r : /\ Moved(p, r) /\ r.runs = seeding[p].runs /\ r.file = 1 /\ outcome' = outcome
                /\ r.pc = IF chunks = {} THEN "clear" ELSE "idle"
<1>1. PICK s \in Seedings : s = seeding[p]
  OBVIOUS
<1>2. s.pc = "count" /\ s.file = 1 /\ s.done = 0 /\ s.runs >= 1
  BY <1>1 DEF KB!Count, Ready, ReadyAt
<1>3. CASE chunks = {}
  <2>1. PICK r : r = [s EXCEPT !.pc = "clear"]
    OBVIOUS
  <2>2. r = [pc |-> "clear", file |-> s.file, document |-> s.document, done |-> s.done,
             vectors |-> s.vectors, runs |-> s.runs]
    BY <2>1, EditSeeding
  <2>3. r \in Seedings
    BY <2>2, SeedingFields, MakeSeeding DEF Places
  <2>4. seeding' = [seeding EXCEPT ![p] = r] /\ outcome' = outcome
    BY <1>1, <1>3, <2>1 DEF KB!Count
  <2>5. ReadyAt(r)
    BY <1>2, <2>2, ChunksType DEF ReadyAt
  <2>6. Moved(p, r) /\ r.runs = s.runs /\ r.file = 1 /\ r.pc = "clear"
    BY <1>2, <2>2, <2>3, <2>4, <2>5 DEF Moved
  <2>7. QED
    BY <1>1, <1>3, <2>4, <2>6
<1>4. CASE chunks # {}
  <2>1. KB!End(p, outcome[p])
    BY <1>4 DEF KB!Count
  <2>2. PICK r : Moved(p, r) /\ r.pc = "idle" /\ r.runs = seeding[p].runs
    BY <2>1, EndMoves
  <2>3. r.file = 1
    BY <2>2 DEF Moved, ReadyAt
  <2>4. outcome' = outcome
    BY <2>1, EndMoves
  <2>5. QED
    BY <1>4, <2>2, <2>3, <2>4
<1>5. QED
  BY <1>3, <1>4

LEMMA ClearMoves ==
  ASSUME seeding \in [Starters -> Seedings], Ready, NEW p \in Starters, KB!Clear(p)
  PROVE  \E r : /\ Moved(p, r) /\ r.runs = seeding[p].runs
                /\ \/ /\ Chunks[seeding[p].file] # <<>> /\ outcome' = outcome
                      /\ r.pc = "insert" /\ r.file = seeding[p].file
                   \/ /\ Chunks[seeding[p].file] = <<>> /\ seeding[p].file = Len(Chunks)
                      /\ r.pc = "idle" /\ outcome' = [outcome EXCEPT ![p] = "done"]
                   \/ /\ Chunks[seeding[p].file] = <<>> /\ outcome' = outcome
                      /\ r.pc = "clear" /\ r.file = seeding[p].file + 1
<1>1. PICK s \in Seedings : s = seeding[p]
  OBVIOUS
<1>2. s.pc = "clear" /\ s.file \in DOMAIN Chunks /\ s.done = 0 /\ s.runs >= 1
  BY <1>1 DEF KB!Clear, Ready, ReadyAt
<1>3. CASE Chunks[s.file] = <<>>
  <2>1. KB!NextFile(p)
    BY <1>1, <1>3 DEF KB!Clear, KB!SkipBlank
  <2>2. QED
    BY <1>1, <1>2, <1>3, <2>1, NextFileMoves
<1>4. CASE Chunks[s.file] # <<>>
  <2>1. PICK r : r = [s EXCEPT !.pc = "insert"]
    OBVIOUS
  <2>2. r = [pc |-> "insert", file |-> s.file, document |-> s.document, done |-> s.done,
             vectors |-> s.vectors, runs |-> s.runs]
    BY <2>1, EditSeeding
  <2>3. r \in Seedings
    BY <2>2, SeedingFields, MakeSeeding DEF Places
  <2>4. seeding' = [seeding EXCEPT ![p] = r] /\ outcome' = outcome
    BY <1>1, <1>4, <2>1 DEF KB!Clear
  <2>5. ReadyAt(r)
    BY <1>2, <1>4, <2>2 DEF ReadyAt
  <2>6. Moved(p, r) /\ r.runs = s.runs /\ r.file = s.file /\ r.pc = "insert"
    BY <2>2, <2>3, <2>4, <2>5 DEF Moved
  <2>7. QED
    BY <1>1, <1>4, <2>4, <2>6
<1>5. QED
  BY <1>3, <1>4

LEMMA InsertMoves ==
  ASSUME seeding \in [Starters -> Seedings], Ready, nextId \in 1 .. KB!MaxId,
         NEW p \in Starters, KB!Insert(p)
  PROVE  \E r : /\ Moved(p, r) /\ r.runs = seeding[p].runs
                /\ IF KB!SlugFree(seeding[p].file)
                   THEN /\ r.pc = "embed" /\ r.file = seeding[p].file /\ r.done = 0
                        /\ r.document = nextId /\ outcome' = outcome
                   ELSE r.pc = "idle" /\ outcome' = [outcome EXCEPT ![p] = "conflict"]
<1>1. PICK s \in Seedings : s = seeding[p]
  OBVIOUS
<1>2. /\ s.pc = "insert" /\ s.file \in DOMAIN Chunks /\ s.done = 0 /\ s.runs >= 1
      /\ Chunks[s.file] # <<>>
  BY <1>1 DEF KB!Insert, Ready, ReadyAt
<1>3. CASE ~KB!SlugFree(s.file)
  <2>1. KB!End(p, "conflict")
    BY <1>1, <1>3 DEF KB!Insert
  <2>2. QED
    BY <1>1, <1>3, <2>1, EndMoves
<1>4. CASE KB!SlugFree(s.file)
  <2>1. PICK id \in 1 .. KB!MaxId : id = nextId
    OBVIOUS
  <2>2. id \in 0 .. KB!MaxId
    BY MaxIdType
  <2>3. PICK r : r = [s EXCEPT !.pc = "embed", !.document = id]
    OBVIOUS
  <2>4. r = [pc |-> "embed", file |-> s.file, document |-> id, done |-> s.done,
             vectors |-> s.vectors, runs |-> s.runs]
    BY <2>3, EditSeeding
  <2>5. r \in Seedings
    BY <2>2, <2>4, SeedingFields, MakeSeeding DEF Places
  <2>6. seeding' = [seeding EXCEPT ![p] = r] /\ outcome' = outcome
    BY <1>1, <1>4, <2>1, <2>3 DEF KB!Insert
  <2>7. ReadyAt(r)
    BY <1>2, <2>4, ChunksType DEF ReadyAt
  <2>8. /\ Moved(p, r) /\ r.runs = s.runs /\ r.file = s.file /\ r.pc = "embed"
        /\ r.done = 0 /\ r.document = nextId
    BY <1>2, <2>1, <2>4, <2>5, <2>6, <2>7 DEF Moved
  <2>9. QED
    BY <1>1, <1>4, <2>6, <2>8
<1>5. QED
  BY <1>1, <1>3, <1>4

LEMMA EmbedMoves ==
  ASSUME seeding \in [Starters -> Seedings], Ready, NEW p \in Starters, KB!Embed(p)
  PROVE  \E r : /\ Moved(p, r) /\ seeding[p].pc = "embed" /\ r.pc = "chunk"
                /\ r.runs = seeding[p].runs /\ r.file = seeding[p].file
                /\ r.document = seeding[p].document /\ r.done = seeding[p].done
<1>1. PICK s \in Seedings : s = seeding[p]
  OBVIOUS
<1>2. /\ s.pc = "embed" /\ s.file \in DOMAIN Chunks /\ s.runs >= 1
      /\ s.done \in Nat /\ s.done < Len(Chunks[s.file])
  BY <1>1, SeedingFields DEF KB!Embed, Ready, ReadyAt
<1>3. PICK v \in Nat : v = KB!BatchEnd(p)
  BY <1>1, <1>2, ChunksType, StartupAssumption DEF KB!BatchEnd, KB!KnowledgeAssumption
<1>4. PICK r : r = [s EXCEPT !.pc = "chunk", !.vectors = v]
  OBVIOUS
<1>5. r = [pc |-> "chunk", file |-> s.file, document |-> s.document, done |-> s.done,
           vectors |-> v, runs |-> s.runs]
  BY <1>4, EditSeeding
<1>6. r \in Seedings
  BY <1>5, SeedingFields, MakeSeeding DEF Places
<1>7. seeding' = [seeding EXCEPT ![p] = r]
  BY <1>1, <1>3, <1>4 DEF KB!Embed
<1>8. ReadyAt(r)
  BY <1>2, <1>5 DEF ReadyAt
<1>9. /\ Moved(p, r) /\ r.runs = s.runs /\ r.file = s.file /\ r.pc = "chunk"
      /\ r.document = s.document /\ r.done = s.done
  BY <1>5, <1>6, <1>7, <1>8 DEF Moved
<1>10. QED
  BY <1>1, <1>2, <1>9

\* The document is there, and it was the last chunk or not; or the document is gone.
LEMMA InsertChunkMoves ==
  ASSUME seeding \in [Starters -> Seedings], Ready, NEW p \in Starters, KB!InsertChunk(p)
  PROVE  \E r : /\ Moved(p, r) /\ r.runs = seeding[p].runs /\ seeding[p].pc = "chunk"
                /\ \/ /\ \A d \in documents : d.id # seeding[p].document
                      /\ chunks' = chunks
                      /\ r.pc = "idle" /\ outcome' = [outcome EXCEPT ![p] = "conflict"]
                   \/ /\ \E d \in documents : d.id = seeding[p].document
                      /\ chunks' = chunks \cup {NewRow(p)}
                      /\ \/ /\ r.pc \in {"embed", "chunk"} /\ r.file = seeding[p].file
                            /\ r.document = seeding[p].document
                            /\ r.done = seeding[p].done + 1 /\ outcome' = outcome
                         \/ /\ seeding[p].done + 1 = Len(Chunks[seeding[p].file])
                            /\ \/ /\ r.pc = "idle" /\ seeding[p].file = Len(Chunks)
                                  /\ outcome' = [outcome EXCEPT ![p] = "done"]
                               \/ /\ r.pc = "clear" /\ r.file = seeding[p].file + 1
                                  /\ outcome' = outcome
<1>1. PICK s \in Seedings : s = seeding[p]
  OBVIOUS
<1>2. /\ s.pc = "chunk" /\ s.file \in DOMAIN Chunks /\ s.runs >= 1
      /\ s.done \in Nat /\ s.done < Len(Chunks[s.file])
  BY <1>1, SeedingFields DEF KB!InsertChunk, Ready, ReadyAt
<1>3. CASE \A d \in documents : d.id # s.document
  <2>1. KB!End(p, "conflict") /\ chunks' = chunks
    BY <1>1, <1>3 DEF KB!InsertChunk
  <2>2. QED
    BY <1>1, <1>2, <1>3, <2>1, EndMoves
<1>4. CASE \E d \in documents : d.id = s.document
  <2>1. chunks' = chunks \cup {NewRow(p)}
    BY <1>1, <1>4 DEF KB!InsertChunk, NewRow
  <2>2. CASE s.done + 1 = Len(Chunks[s.file])
    <3>1. KB!NextFile(p)
      BY <1>1, <1>4, <2>2 DEF KB!InsertChunk
    <3>2. QED
      BY <1>1, <1>2, <1>4, <2>1, <2>2, <3>1, NextFileMoves
  <2>3. CASE s.done + 1 # Len(Chunks[s.file])
    <3>1. PICK n \in Nat, pc \in {"embed", "chunk"} :
            n = s.done + 1 /\ pc = IF n = s.vectors THEN "embed" ELSE "chunk"
      BY <1>2
    <3>2. PICK r : r = [s EXCEPT !.done = n, !.pc = pc]
      OBVIOUS
    <3>3. r = [pc |-> pc, file |-> s.file, document |-> s.document, done |-> n,
               vectors |-> s.vectors, runs |-> s.runs]
      BY <3>2, EditSeeding
    <3>4. r \in Seedings
      <4>1. pc \in Places
        BY DEF Places
      <4>2. QED
        BY <3>3, <4>1, SeedingFields, MakeSeeding
    <3>5. seeding' = [seeding EXCEPT ![p] = r] /\ outcome' = outcome
      BY <1>1, <1>4, <2>3, <3>1, <3>2 DEF KB!InsertChunk
    <3>6. ReadyAt(r)
      BY <1>2, <2>3, <3>1, <3>3, ChunksType DEF ReadyAt
    <3>7. /\ Moved(p, r) /\ r.runs = s.runs /\ r.file = s.file /\ r.pc = pc
          /\ r.document = s.document /\ r.done = s.done + 1
      BY <3>1, <3>3, <3>4, <3>5, <3>6 DEF Moved
    <3>8. QED
      BY <1>1, <1>2, <1>4, <2>1, <3>5, <3>7
  <2>4. QED
    BY <2>2, <2>3
<1>5. QED
  BY <1>1, <1>3, <1>4

(***************************************************************************)
(* Each file of each run of each program gets a number at most once.       *)
(***************************************************************************)

\* Is the program, being at s, past the n-th run's insertion of file f?
PassedIn(s, n, f) ==
  \/ n < s.runs
  \/ /\ n = s.runs
     /\ s.pc = "idle" \/ f < s.file \/ (f = s.file /\ s.pc \in {"embed", "chunk"})

Slots == (Starters \X (1 .. Starts)) \X DOMAIN Chunks

Passed == {x \in Slots : PassedIn(seeding[x[1][1]], x[1][2], x[2])}

Room == nextId - 1 <= Cardinality(Passed)

LEMMA SlotsCount == IsFiniteSet(Slots) /\ Cardinality(Slots) = KB!MaxId
<1>1. Starts \in Nat /\ Len(Chunks) \in Nat /\ DOMAIN Chunks = 1 .. Len(Chunks)
  BY MigrationsAssumption, ChunksType
<1>2. PICK m \in Nat, k \in Nat : m = Starts /\ k = Len(Chunks)
  BY <1>1
<1>3. IsFiniteSet(Starters) /\ Cardinality(Starters) \in Nat
  BY Counting, FS_CardinalityType
<1>4. ASSUME NEW n \in Nat PROVE IsFiniteSet(1 .. n) /\ Cardinality(1 .. n) = n
  <2>1. 1 \in Int /\ n \in Int
    OBVIOUS
  <2>2. /\ IsFiniteSet(1 .. n)
        /\ Cardinality(1 .. n) = IF 1 > n THEN 0 ELSE n - 1 + 1
    BY <2>1, FS_Interval
  <2>3. QED
    BY <2>2
<1>5. PICK n \in Nat : n = Cardinality(Starters)
  BY <1>3
<1>6. PICK M, K : M = 1 .. m /\ K = 1 .. k
  OBVIOUS
<1>7. IsFiniteSet(M) /\ Cardinality(M) = m /\ IsFiniteSet(K) /\ Cardinality(K) = k
  BY <1>4, <1>6
<1>8. IsFiniteSet(Starters \X M) /\ Cardinality(Starters \X M) = n * m
  BY <1>3, <1>5, <1>7, FS_Product
<1>9. PICK S : S = Starters \X M
  OBVIOUS
<1>10. IsFiniteSet(S \X K) /\ Cardinality(S \X K) = (n * m) * k
  BY <1>7, <1>8, <1>9, FS_Product
<1>11. (n * m) * k = m * n * k
  OBVIOUS
<1>12. Slots = S \X K
  BY <1>1, <1>2, <1>6, <1>9 DEF Slots
<1>13. KB!MaxId = m * n * k
  BY <1>2, <1>5, Counting
<1>14. QED
  BY <1>10, <1>11, <1>12, <1>13

\* A program that goes forward stays past what it was past.
Forward(s, r) ==
  \A n \in 1 .. Starts, f \in DOMAIN Chunks : PassedIn(s, n, f) => PassedIn(r, n, f)

LEMMA PassedGrows ==
  ASSUME seeding \in [Starters -> Seedings], NEW p \in Starters, NEW r,
         seeding' = [seeding EXCEPT ![p] = r], Forward(seeding[p], r)
  PROVE  /\ Passed \subseteq Passed'
         /\ \A n \in 1 .. Starts, f \in DOMAIN Chunks : PassedIn(r, n, f) => <<<<p, n>>, f>> \in Passed'
<1>1. ASSUME NEW q \in Starters, NEW n \in 1 .. Starts, NEW f \in DOMAIN Chunks,
             PassedIn(seeding[q], n, f)
      PROVE  PassedIn(seeding'[q], n, f)
  <2>1. CASE q = p
    BY <1>1, <2>1 DEF Forward
  <2>2. CASE q # p
    BY <1>1, <2>2
  <2>3. QED
    BY <2>1, <2>2
<1>2. ASSUME NEW x \in Passed PROVE x \in Passed'
  <2>1. PICK q \in Starters, n \in 1 .. Starts, f \in DOMAIN Chunks : x = <<<<q, n>>, f>>
    BY <1>2 DEF Passed, Slots
  <2>2. PassedIn(seeding[q], n, f)
    BY <1>2, <2>1 DEF Passed
  <2>3. QED
    BY <1>1, <2>1, <2>2 DEF Passed, Slots
<1>3. ASSUME NEW n \in 1 .. Starts, NEW f \in DOMAIN Chunks, PassedIn(r, n, f)
      PROVE  <<<<p, n>>, f>> \in Passed'
  <2>1. seeding'[p] = r
    OBVIOUS
  <2>2. QED
    BY <1>3, <2>1 DEF Passed, Slots
<1>4. QED
  BY <1>2, <1>3

LEMMA PassedCount ==
  /\ IsFiniteSet(Passed) /\ Cardinality(Passed) \in Nat /\ Cardinality(Passed) <= KB!MaxId
  /\ \A S \in SUBSET Passed : Cardinality(S) <= Cardinality(Passed)
<1>1. PICK P \in SUBSET Slots : P = Passed
  BY DEF Passed
<1>2. IsFiniteSet(P) /\ Cardinality(P) \in Nat /\ Cardinality(P) <= KB!MaxId
  BY SlotsCount, FS_Subset, FS_CardinalityType
<1>3. \A S \in SUBSET P : Cardinality(S) <= Cardinality(P)
  BY <1>2, FS_Subset
<1>4. QED
  BY <1>1, <1>2, <1>3

LEMMA RoomMove ==
  ASSUME seeding \in [Starters -> Seedings], NEW p \in Starters, NEW r, nextId \in Nat, Room,
         seeding' = [seeding EXCEPT ![p] = r], Forward(seeding[p], r), nextId' = nextId
  PROVE  Room'
<1>1. PICK P \in SUBSET Slots, Q \in SUBSET Slots, id \in Nat : P = Passed /\ Q = Passed' /\ id = nextId
  BY DEF Passed
<1>2. P \subseteq Q
  BY <1>1, PassedGrows
<1>3. Cardinality(P) <= Cardinality(Q) /\ Cardinality(P) \in Nat /\ Cardinality(Q) \in Nat
  BY <1>2, SlotsCount, FS_Subset, FS_CardinalityType
<1>4. id - 1 <= Cardinality(P)
  BY <1>1 DEF Room
<1>5. id - 1 <= Cardinality(Q)
  BY <1>3, <1>4
<1>6. Room' <=> nextId' - 1 <= Cardinality(Q)
  BY <1>1, Zenon DEF Room
<1>7. QED
  BY <1>1, <1>5, <1>6

\* The insertion of a document passes one more.
LEMMA RoomInsert ==
  ASSUME seeding \in [Starters -> Seedings], NEW p \in Starters, NEW r, nextId \in Nat, Room,
         seeding' = [seeding EXCEPT ![p] = r], Forward(seeding[p], r), nextId' = nextId + 1,
         NEW n \in 1 .. Starts, NEW f \in DOMAIN Chunks,
         ~PassedIn(seeding[p], n, f), PassedIn(r, n, f)
  PROVE  Room'
<1>1. PICK P \in SUBSET Slots, Q \in SUBSET Slots, id \in Nat : P = Passed /\ Q = Passed' /\ id = nextId
  BY DEF Passed
<1>2. PICK x : x = <<<<p, n>>, f>>
  OBVIOUS
<1>3. x \notin P
  BY <1>1, <1>2 DEF Passed
<1>4. P \cup {x} \subseteq Q
  <2>1. P \subseteq Q
    BY <1>1, PassedGrows
  <2>2. <<<<p, n>>, f>> \in Passed'
    BY PassedGrows
  <2>3. QED
    BY <1>1, <1>2, <2>1, <2>2
<1>5. IsFiniteSet(P) /\ IsFiniteSet(Q) /\ Cardinality(P) \in Nat /\ Cardinality(Q) \in Nat
  BY SlotsCount, FS_Subset, FS_CardinalityType
<1>6. Cardinality(P \cup {x}) = Cardinality(P) + 1
  BY <1>3, <1>5, FS_AddElement
<1>7. Cardinality(P \cup {x}) <= Cardinality(Q)
  BY <1>4, <1>5, FS_Subset
<1>8. id - 1 <= Cardinality(P)
  BY <1>1 DEF Room
<1>9. id + 1 - 1 <= Cardinality(Q)
  BY <1>5, <1>6, <1>7, <1>8
<1>10. Room' <=> nextId' - 1 <= Cardinality(Q)
  BY <1>1, Zenon DEF Room
<1>11. QED
  BY <1>1, <1>9, <1>10

\* A program that is about to insert a document finds a number left.
LEMMA NumberLeft ==
  ASSUME seeding \in [Starters -> Seedings], Ready, nextId \in Nat, nextId >= 1, Room,
         NEW p \in Starters, seeding[p].pc = "insert"
  PROVE  nextId \in 1 .. KB!MaxId
<1>1. PICK P \in SUBSET Slots, id \in Nat : P = Passed /\ id = nextId
  BY DEF Passed
<1>2. PICK s \in Seedings : s = seeding[p]
  OBVIOUS
<1>3. s.runs \in 1 .. Starts /\ s.file \in DOMAIN Chunks /\ s.pc = "insert"
  BY <1>2, SeedingFields, MigrationsAssumption DEF Ready, ReadyAt
<1>4. PICK x \in Slots : x = <<<<p, s.runs>>, s.file>>
  BY <1>3 DEF Slots
<1>5. x \notin P
  <2>1. ~PassedIn(s, s.runs, s.file)
    <3>1. s.file \in Nat /\ s.runs \in Nat
      BY <1>3, ChunksType
    <3>2. QED
      BY <1>3, <3>1 DEF PassedIn
  <2>2. QED
    BY <1>1, <1>2, <1>4, <2>1 DEF Passed
<1>6. IsFiniteSet(P) /\ Cardinality(P) \in Nat
  BY SlotsCount, FS_Subset, FS_CardinalityType
<1>7. Cardinality(P \cup {x}) = Cardinality(P) + 1
  BY <1>5, <1>6, FS_AddElement
<1>8. Cardinality(P \cup {x}) <= KB!MaxId
  BY SlotsCount, FS_Subset
<1>9. id - 1 <= Cardinality(P)
  BY <1>1 DEF Room
<1>10. id <= KB!MaxId
  BY <1>6, <1>7, <1>8, <1>9, MaxIdType
<1>11. QED
  BY <1>1, <1>10, MaxIdType

LEMMA GoesForward ==
  ASSUME NEW s \in Seedings, NEW r \in Seedings,
         \/ r.runs = s.runs + 1
         \/ r.runs = s.runs /\ r.pc = "idle"
         \/ /\ r.runs = s.runs /\ s.pc # "idle" /\ r.file = s.file
            /\ s.pc \in {"embed", "chunk"} => r.pc \in {"embed", "chunk"}
         \/ r.runs = s.runs /\ s.pc # "idle" /\ r.file = s.file + 1
  PROVE  Forward(s, r)
<1>1. s.runs \in Nat /\ s.file \in Nat
  BY SeedingFields, MigrationsAssumption, ChunksType
<1>2. SUFFICES ASSUME NEW n \in 1 .. Starts, NEW f \in DOMAIN Chunks, PassedIn(s, n, f)
               PROVE  PassedIn(r, n, f)
  BY DEF Forward
<1>3. n \in Nat /\ f \in Nat
  BY MigrationsAssumption, ChunksType
<1>4. QED
  BY <1>1, <1>2, <1>3 DEF PassedIn
-----------------------------------------------------------------------------
(***************************************************************************)
(* Seeding keeps its types.                                                *)
(***************************************************************************)

Tables ==
  /\ documents \subseteq KB!Documents
  /\ chunks \subseteq KB!ChunkRows
  /\ \A c \in chunks : \E d \in documents : d.id = c.document

SeedTypes ==
  /\ Tables
  /\ nextId \in Nat /\ nextId >= 1
  /\ seeding \in [Starters -> Seedings]
  /\ outcome \in [Starters -> Outcomes]
  /\ Ready /\ Room

LEMMA SeedTypesSuffice == SeedTypes => KB!TypeOK
<1> SUFFICES ASSUME SeedTypes PROVE KB!TypeOK
  OBVIOUS
<1>1. nextId \in 1 .. KB!MaxId + 1
  <2>1. PICK n \in Nat, m \in Nat, k \in Nat : n = nextId /\ m = KB!MaxId /\ k = Cardinality(Passed)
    BY PassedCount, MaxIdType DEF SeedTypes
  <2>2. n - 1 <= k /\ k <= m /\ n >= 1
    BY <2>1, PassedCount DEF SeedTypes, Room
  <2>3. n \in 1 .. m + 1
    BY <2>2
  <2>4. QED
    BY <2>1, <2>3
<1>2. \A p \in Starters : seeding[p].pc \notin {"idle", "count"} => seeding[p].file <= Len(Chunks)
  BY ChunksType DEF SeedTypes, Ready, ReadyAt
<1>3. QED
  BY <1>1, <1>2 DEF SeedTypes, Tables, Seedings, Outcomes, KB!TypeOK

LEMMA ReadyMove ==
  ASSUME seeding \in [Starters -> Seedings], Ready, NEW p \in Starters, NEW r, Moved(p, r)
  PROVE  Ready' /\ seeding' \in [Starters -> Seedings]
<1>1. ASSUME NEW q \in Starters PROVE ReadyAt(seeding'[q])
  BY DEF Ready, Moved
<1>2. QED
  BY <1>1 DEF Ready, ReadyAt, Moved

LEMMA KeptByMove ==
  ASSUME SeedTypes, NEW p \in Starters, NEW r, Moved(p, r), Forward(seeding[p], r),
         Tables', nextId' = nextId, outcome' \in [Starters -> Outcomes]
  PROVE  SeedTypes'
<1>1. Ready' /\ seeding' \in [Starters -> Seedings]
  BY ReadyMove DEF SeedTypes
<1>2. Room'
  BY RoomMove DEF SeedTypes, Moved
<1>3. QED
  BY <1>1, <1>2 DEF SeedTypes

LEMMA KeptByStart == ASSUME SeedTypes, NEW p \in Starters, KB!Start(p) PROVE SeedTypes'
<1>1. PICK r : /\ Moved(p, r) /\ seeding[p].pc = "idle" /\ r.runs = seeding[p].runs + 1
               /\ r.pc \in {"count", "clear"} /\ r.file = 1
  BY StartMoves DEF SeedTypes
<1>2. Forward(seeding[p], r)
  BY <1>1, GoesForward DEF SeedTypes, Moved
<1>3. QED
  BY <1>1, <1>2, KeptByMove DEF KB!Start, SeedTypes, Tables

\* A run that ends, whatever it says of it.
LEMMA KeptByEnd ==
  ASSUME SeedTypes, NEW p \in Starters, NEW how \in Outcomes, KB!End(p, how),
         Tables', nextId' = nextId
  PROVE  SeedTypes'
<1>1. PICK r : Moved(p, r) /\ r.pc = "idle" /\ r.runs = seeding[p].runs
  BY EndMoves DEF SeedTypes
<1>2. Forward(seeding[p], r)
  BY <1>1, GoesForward DEF SeedTypes, Moved
<1>3. outcome' \in [Starters -> Outcomes]
  BY DEF KB!End, SeedTypes
<1>4. QED
  BY <1>1, <1>2, <1>3, KeptByMove

LEMMA KeptByCount == ASSUME SeedTypes, NEW p \in Starters, KB!Count(p) PROVE SeedTypes'
<1>1. PICK r : /\ Moved(p, r) /\ r.runs = seeding[p].runs /\ r.file = 1 /\ outcome' = outcome
               /\ r.pc = IF chunks = {} THEN "clear" ELSE "idle"
  BY CountMoves DEF SeedTypes
<1>2. seeding[p].pc = "count" /\ seeding[p].file = 1
  BY DEF KB!Count, SeedTypes, Ready, ReadyAt
<1>3. Forward(seeding[p], r)
  BY <1>1, <1>2, GoesForward DEF SeedTypes, Moved
<1>4. QED
  BY <1>1, <1>3, KeptByMove DEF KB!Count, SeedTypes, Tables

LEMMA KeptByClear == ASSUME SeedTypes, NEW p \in Starters, KB!Clear(p) PROVE SeedTypes'
<1>1. PICK r : /\ Moved(p, r) /\ r.runs = seeding[p].runs
               /\ \/ /\ Chunks[seeding[p].file] # <<>> /\ outcome' = outcome
                     /\ r.pc = "insert" /\ r.file = seeding[p].file
                  \/ /\ Chunks[seeding[p].file] = <<>> /\ seeding[p].file = Len(Chunks)
                     /\ r.pc = "idle" /\ outcome' = [outcome EXCEPT ![p] = "done"]
                  \/ /\ Chunks[seeding[p].file] = <<>> /\ outcome' = outcome
                     /\ r.pc = "clear" /\ r.file = seeding[p].file + 1
  BY ClearMoves DEF SeedTypes
<1>2. seeding[p].pc = "clear"
  BY DEF KB!Clear
<1>3. Forward(seeding[p], r)
  BY <1>1, <1>2, GoesForward DEF SeedTypes, Moved
<1>4. outcome' \in [Starters -> Outcomes]
  BY <1>1 DEF SeedTypes, Outcomes
<1>5. Tables'
  <2>1. PICK gone : gone = KB!Cleared(seeding[p].file)
    OBVIOUS
  <2>2. /\ documents' = documents \ gone
        /\ chunks' = chunks \ {c \in chunks : \E d \in gone : d.id = c.document}
    BY <2>1 DEF KB!Clear, KB!Cascade
  <2>3. ASSUME NEW c \in chunks' PROVE \E d \in documents' : d.id = c.document
    BY <2>2 DEF SeedTypes, Tables
  <2>4. QED
    BY <2>2, <2>3 DEF SeedTypes, Tables
<1>6. QED
  BY <1>1, <1>3, <1>4, <1>5, KeptByMove DEF KB!Clear

LEMMA KeptByInsert == ASSUME SeedTypes, NEW p \in Starters, KB!Insert(p) PROVE SeedTypes'
<1>1. PICK s \in Seedings : s = seeding[p]
  BY DEF SeedTypes
<1>2. s.pc = "insert" /\ s.file \in DOMAIN Chunks /\ s.runs \in 1 .. Starts
  BY <1>1, SeedingFields, MigrationsAssumption DEF SeedTypes, Ready, ReadyAt, KB!Insert
<1>3. nextId \in 1 .. KB!MaxId
  BY <1>1, <1>2, NumberLeft DEF SeedTypes
<1>4. PICK r : /\ Moved(p, r) /\ r.runs = s.runs
               /\ IF KB!SlugFree(s.file)
                  THEN /\ r.pc = "embed" /\ r.file = s.file /\ r.done = 0
                       /\ r.document = nextId /\ outcome' = outcome
                  ELSE r.pc = "idle" /\ outcome' = [outcome EXCEPT ![p] = "conflict"]
  BY <1>1, <1>3, InsertMoves DEF SeedTypes
<1>5. Forward(s, r)
  BY <1>2, <1>4, GoesForward DEF Moved
<1>6. outcome' \in [Starters -> Outcomes]
  BY <1>4 DEF SeedTypes, Outcomes
<1>7. Room'
  <2>1. s.file \in Nat /\ s.runs \in Nat
    BY <1>2, ChunksType, MigrationsAssumption
  <2>2. ~PassedIn(s, s.runs, s.file) /\ PassedIn(r, s.runs, s.file)
    BY <1>2, <1>4, <2>1 DEF PassedIn
  <2>3. nextId' = nextId + 1 /\ seeding' = [seeding EXCEPT ![p] = r]
    BY <1>4 DEF KB!Insert, Moved
  <2>4. QED
    BY <1>1, <1>2, <1>5, <2>2, <2>3, RoomInsert DEF SeedTypes
<1>8. Tables'
  <2>1. CASE KB!SlugFree(s.file)
    <3>1. PICK e : e = [id |-> nextId, slug |-> slugify[s.file], file |-> s.file]
      OBVIOUS
    <3>2. documents' = documents \cup {e} /\ chunks' = chunks
      BY <1>1, <2>1, <3>1 DEF KB!Insert
    <3>3. e \in KB!Documents
      BY <1>2, <1>3, <3>1 DEF KB!Documents, KB!FileIds
    <3>4. QED
      BY <3>2, <3>3 DEF SeedTypes, Tables
  <2>2. CASE ~KB!SlugFree(s.file)
    BY <1>1, <2>2 DEF KB!Insert, SeedTypes, Tables
  <2>3. QED
    BY <2>1, <2>2
<1>9. Ready' /\ seeding' \in [Starters -> Seedings]
  BY <1>4, ReadyMove DEF SeedTypes
<1>10. nextId' \in Nat /\ nextId' >= 1
  BY DEF KB!Insert, SeedTypes
<1>11. QED
  BY <1>6, <1>7, <1>8, <1>9, <1>10 DEF SeedTypes

LEMMA KeptByEmbed == ASSUME SeedTypes, NEW p \in Starters, KB!Embed(p) PROVE SeedTypes'
<1>1. PICK r : /\ Moved(p, r) /\ seeding[p].pc = "embed" /\ r.pc = "chunk"
               /\ r.runs = seeding[p].runs /\ r.file = seeding[p].file
               /\ r.document = seeding[p].document /\ r.done = seeding[p].done
  BY EmbedMoves DEF SeedTypes
<1>2. Forward(seeding[p], r)
  BY <1>1, GoesForward DEF SeedTypes, Moved
<1>3. QED
  BY <1>1, <1>2, KeptByMove DEF KB!Embed, SeedTypes, Tables

LEMMA KeptByInsertChunk == ASSUME SeedTypes, NEW p \in Starters, KB!InsertChunk(p) PROVE SeedTypes'
<1>1. PICK s \in Seedings : s = seeding[p]
  BY DEF SeedTypes
<1>2. PICK r : /\ Moved(p, r) /\ r.runs = s.runs /\ s.pc = "chunk"
               /\ \/ /\ \A d \in documents : d.id # s.document
                     /\ chunks' = chunks
                     /\ r.pc = "idle" /\ outcome' = [outcome EXCEPT ![p] = "conflict"]
                  \/ /\ \E d \in documents : d.id = s.document
                     /\ chunks' = chunks \cup {NewRow(p)}
                     /\ \/ /\ r.pc \in {"embed", "chunk"} /\ r.file = s.file
                           /\ r.document = s.document
                           /\ r.done = s.done + 1 /\ outcome' = outcome
                        \/ /\ s.done + 1 = Len(Chunks[s.file])
                           /\ \/ /\ r.pc = "idle" /\ s.file = Len(Chunks)
                                 /\ outcome' = [outcome EXCEPT ![p] = "done"]
                              \/ /\ r.pc = "clear" /\ r.file = s.file + 1
                                 /\ outcome' = outcome
  BY <1>1, InsertChunkMoves DEF SeedTypes
<1>3. Forward(s, r)
  BY <1>2, GoesForward DEF Moved
<1>4. outcome' \in [Starters -> Outcomes]
  BY <1>2 DEF SeedTypes, Outcomes
<1>5. documents' = documents /\ nextId' = nextId
  BY DEF KB!InsertChunk
<1>6. Tables'
  <2>1. CASE chunks' = chunks
    BY <1>5, <2>1 DEF SeedTypes, Tables
  <2>2. CASE (\E d \in documents : d.id = s.document) /\ chunks' = chunks \cup {NewRow(p)}
    <3>1. PICK d \in documents : d.id = s.document
      BY <2>2
    <3>2. s.document \in 1 .. KB!MaxId /\ s.file \in DOMAIN Chunks /\ s.done + 1 \in Nat
      BY <1>1, <1>2, <3>1, SeedingFields DEF SeedTypes, Tables, KB!Documents, Ready, ReadyAt
    <3>3. PICK c : c = NewRow(p)
      OBVIOUS
    <3>4. c \in KB!ChunkRows /\ c.document = s.document
      BY <1>1, <3>2, <3>3 DEF NewRow, KB!ChunkRows, KB!FileIds
    <3>5. QED
      BY <1>5, <2>2, <3>1, <3>3, <3>4 DEF SeedTypes, Tables
  <2>3. QED
    BY <1>2, <2>1, <2>2
<1>7. QED
  BY <1>1, <1>2, <1>3, <1>4, <1>5, <1>6, KeptByMove

\* What the seeding program does by itself.
SeedSteps(p) == \/ KB!Start(p) \/ KB!Count(p) \/ KB!Clear(p) \/ KB!Insert(p) \/ KB!Embed(p)
                \/ KB!InsertChunk(p) \/ KB!Fail(p) \/ NoTable(p)

LEMMA SeedTypesStep == ASSUME SeedTypes, NEW p \in Starters, SeedSteps(p) PROVE SeedTypes'
<1>1. ASSUME KB!End(p, "broken"), UNCHANGED <<documents, chunks, nextId>> PROVE SeedTypes'
  <2>1. "broken" \in Outcomes
    BY DEF Outcomes
  <2>2. Tables'
    BY <1>1 DEF SeedTypes, Tables
  <2>3. QED
    BY <1>1, <2>1, <2>2, KeptByEnd
<1>2. CASE KB!Fail(p)
  BY <1>1, <1>2 DEF KB!Fail
<1>3. CASE NoTable(p)
  BY <1>1, <1>3 DEF NoTable
<1>4. QED
  BY <1>2, <1>3, KeptByStart, KeptByCount, KeptByClear, KeptByInsert, KeptByEmbed,
     KeptByInsertChunk DEF SeedSteps

LEMMA SeedTypesUnchanged == SeedTypes /\ UNCHANGED base => SeedTypes'
<1> SUFFICES ASSUME SeedTypes, UNCHANGED base PROVE SeedTypes'
  OBVIOUS
<1>1. /\ documents' = documents /\ chunks' = chunks /\ nextId' = nextId
      /\ seeding' = seeding /\ outcome' = outcome
  BY DEF base
<1>2. Room'
  BY <1>1 DEF SeedTypes, Room, Passed
<1>3. Ready'
  BY <1>1 DEF SeedTypes, Ready
<1>4. QED
  BY <1>1, <1>2, <1>3 DEF SeedTypes, Tables

\* Without their tables, the numbers begin anew.
LEMMA SeedTypesDrop ==
  ASSUME SeedTypes, documents' = {}, chunks' = {}, nextId' = 1, UNCHANGED <<seeding, outcome>>
  PROVE  SeedTypes'
<1>1. seeding' = seeding /\ outcome' = outcome
  OBVIOUS
<1>2. PICK n \in Nat : n = Cardinality(Passed)
  BY PassedCount
<1>3. Passed' = Passed
  BY <1>1 DEF Passed
<1>4. Room'
  <2>1. Room' <=> nextId' - 1 <= n
    BY <1>2, <1>3, Zenon DEF Room
  <2>2. QED
    BY <2>1
<1>5. Ready'
  BY <1>1 DEF SeedTypes, Ready
<1>6. QED
  BY <1>1, <1>4, <1>5 DEF SeedTypes, Tables

\* Every step of seeding moves one program, and all but the first find it running.
LEMMA SeedStepMoves ==
  ASSUME SeedTypes, NEW p \in Starters, SeedSteps(p)
  PROVE  /\ \A q \in Starters \ {p} : seeding'[q] = seeding[q]
         /\ ~KB!Start(p) => seeding[p].pc # "idle"
<1>1. CASE KB!Start(p)
  BY <1>1, StartMoves DEF SeedTypes, Moved
<1>2. CASE KB!Count(p)
  BY <1>2, CountMoves DEF SeedTypes, Moved, KB!Count
<1>3. CASE KB!Clear(p)
  BY <1>3, ClearMoves DEF SeedTypes, Moved, KB!Clear
<1>4. CASE KB!Insert(p)
  <2>1. seeding[p].pc = "insert"
    BY <1>4 DEF KB!Insert
  <2>2. nextId \in 1 .. KB!MaxId
    BY <2>1, NumberLeft DEF SeedTypes
  <2>3. QED
    BY <1>4, <2>1, <2>2, InsertMoves DEF SeedTypes, Moved
<1>5. CASE KB!Embed(p)
  BY <1>5, EmbedMoves DEF SeedTypes, Moved
<1>6. CASE KB!InsertChunk(p)
  <2>1. PICK r : Moved(p, r) /\ seeding[p].pc = "chunk"
    BY <1>6, InsertChunkMoves DEF SeedTypes
  <2>2. QED
    BY <2>1 DEF SeedTypes, Moved
<1>7. ASSUME KB!End(p, "broken") PROVE \A q \in Starters \ {p} : seeding'[q] = seeding[q]
  BY <1>7, EndMoves DEF SeedTypes, Moved
<1>8. CASE KB!Fail(p)
  BY <1>7, <1>8 DEF KB!Fail
<1>9. CASE NoTable(p)
  BY <1>7, <1>9 DEF NoTable
<1>10. QED
  BY <1>1, <1>2, <1>3, <1>4, <1>5, <1>6, <1>8, <1>9 DEF SeedSteps

\* Only a program that is ready seeds.
ReadySeeds == \A p \in Starters : seeding[p].pc # "idle" => run[p].pc = "ready"

NoBaseNoRows == "kb" \notin schema => documents = {} /\ chunks = {}

StartupInv == TypeOK /\ SeedTypes /\ torn \in BOOLEAN /\ ReadySeeds /\ NoBaseNoRows

LEMMA StartupInvSuffices == StartupInv => StartupTypeOK
  BY SeedTypesSuffice DEF StartupInv, StartupTypeOK, ReadySeeds, NoBaseNoRows

LEMMA StartupInvInit == StartupInit => StartupInv
<1> SUFFICES ASSUME StartupInit PROVE StartupInv
  OBVIOUS
<1>1. TypeOK
  BY MigrationsInit DEF StartupInit, MigrationsInv
<1>2. /\ documents = {} /\ chunks = {} /\ nextId = 1
      /\ seeding = [p \in Starters |-> KB!NotRunning]
      /\ outcome = [p \in Starters |-> "none"]
  BY DEF StartupInit, KB!Init
<1>3. KB!NotRunning \in Seedings /\ ReadyAt(KB!NotRunning) /\ KB!NotRunning.pc = "idle"
  <2>1. PICK r : r = KB!NotRunning
    OBVIOUS
  <2>2. r = [pc |-> "idle", file |-> 1, document |-> 0, done |-> 0, vectors |-> 0, runs |-> 0]
    BY <2>1 DEF KB!NotRunning
  <2>3. r \in Seedings
    BY <2>2, MakeSeeding, MaxIdType, ChunksType, MigrationsAssumption DEF Places
  <2>4. ReadyAt(r) /\ r.pc = "idle"
    BY <2>2 DEF ReadyAt
  <2>5. QED
    BY <2>1, <2>3, <2>4
<1>4. Room
  <2>1. PICK n \in Nat : n = Cardinality(Passed)
    BY PassedCount
  <2>2. nextId - 1 <= n
    BY <1>2, <2>1
  <2>3. QED
    BY <2>1, <2>2 DEF Room
<1>5. SeedTypes
  BY <1>2, <1>3, <1>4 DEF SeedTypes, Tables, Ready, Outcomes
<1>6. ReadySeeds /\ NoBaseNoRows /\ torn \in BOOLEAN
  BY <1>2, <1>3 DEF ReadySeeds, NoBaseNoRows, StartupInit
<1>7. QED
  BY <1>1, <1>5, <1>6 DEF StartupInv

LEMMA StartupInvStep == StartupInv /\ [StartupNext]_<<vars, base, torn>> => StartupInv'
<1> SUFFICES ASSUME StartupInv, [StartupNext]_<<vars, base, torn>> PROVE StartupInv'
  OBVIOUS
<1>1. TypeOK'
  BY TypeStep, StepOfRunner DEF StartupInv
<1>2. SeedTypes /\ TypeOK /\ ReadySeeds /\ NoBaseNoRows /\ torn \in BOOLEAN
  BY DEF StartupInv
<1>3. ASSUME NEW p \in Starters, Start(p) \/ Check(p) \/ Apply(p) \/ Record(p) \/ Fail(p)
      PROVE  schema \subseteq schema' /\ \A q \in Starters \ {p} : run'[q] = run[q]
  BY <1>2, <1>3 DEF Start, Check, Apply, Record, Fail, Goto, TypeOK
<1>4. ASSUME NEW p \in Starters, Begin(p) PROVE StartupInv'
  <2>1. schema \subseteq schema' /\ \A q \in Starters \ {p} : run'[q] = run[q]
    BY <1>3, <1>4 DEF Begin
  <2>2. seeding[p].pc = "idle" /\ UNCHANGED base /\ torn' = torn
    BY <1>4 DEF Begin
  <2>3. seeding' = seeding /\ documents' = documents /\ chunks' = chunks
    BY <2>2 DEF base
  <2>4. ReadySeeds' /\ NoBaseNoRows'
    BY <1>2, <2>1, <2>2, <2>3 DEF ReadySeeds, NoBaseNoRows
  <2>5. QED
    BY <1>1, <1>2, <2>2, <2>4, SeedTypesUnchanged DEF StartupInv
<1>5. ASSUME NEW p \in Starters, Migrate(p) PROVE StartupInv'
  <2>1. schema \subseteq schema' /\ \A q \in Starters \ {p} : run'[q] = run[q]
    BY <1>3, <1>5 DEF Migrate
  <2>2. seeding[p].pc = "idle" /\ torn' = torn
    BY <1>2, <1>5 DEF Migrate, Check, Apply, Record, ReadySeeds
  <2>3. CASE run'[p].pc = "ready"
    <3>1. KB!Start(p) /\ SeedSteps(p)
      BY <1>5, <2>3 DEF Migrate, SeedSteps
    <3>2. \A q \in Starters \ {p} : seeding'[q] = seeding[q]
      BY <1>2, <3>1, SeedStepMoves
    <3>3. documents' = documents /\ chunks' = chunks
      BY <3>1 DEF KB!Start
    <3>4. ReadySeeds' /\ NoBaseNoRows'
      BY <1>2, <2>1, <2>3, <3>2, <3>3 DEF ReadySeeds, NoBaseNoRows
    <3>5. QED
      BY <1>1, <1>2, <2>2, <3>1, <3>4, SeedTypesStep DEF StartupInv
  <2>4. CASE run'[p].pc # "ready"
    <3>1. UNCHANGED base
      BY <1>5, <2>4 DEF Migrate
    <3>2. seeding' = seeding /\ documents' = documents /\ chunks' = chunks
      BY <3>1 DEF base
    <3>3. ReadySeeds' /\ NoBaseNoRows'
      BY <1>2, <2>1, <2>2, <3>2 DEF ReadySeeds, NoBaseNoRows
    <3>4. QED
      BY <1>1, <1>2, <2>2, <3>1, <3>3, SeedTypesUnchanged DEF StartupInv
  <2>5. QED
    BY <2>3, <2>4
<1>6. ASSUME NEW p \in Starters, SeedSteps(p), ~KB!Start(p), UNCHANGED <<vars, torn>>,
             "kb" \in schema \/ (documents' = documents /\ chunks' = chunks)
      PROVE  StartupInv'
  <2>1. schema' = schema /\ run' = run /\ torn' = torn
    BY <1>6 DEF vars
  <2>2. ReadySeeds'
    BY <1>2, <1>6, <2>1, SeedStepMoves DEF ReadySeeds
  <2>3. NoBaseNoRows'
    BY <1>2, <1>6, <2>1 DEF NoBaseNoRows
  <2>4. QED
    BY <1>1, <1>2, <1>6, <2>1, <2>2, <2>3, SeedTypesStep DEF StartupInv
<1>7. ASSUME NEW p \in Starters, ~KB!Start(p), Seed(p) PROVE StartupInv'
  BY <1>6, <1>7 DEF Seed, Statement, SeedSteps, KB!Embed, NoTable
<1>8. ASSUME NEW p \in Starters, Break(p) PROVE StartupInv'
  <2>1. CASE KB!Fail(p) /\ UNCHANGED <<vars, torn>>
    <3>1. ~KB!Start(p)
      BY <2>1 DEF KB!Fail, KB!Start
    <3>2. QED
      BY <1>6, <2>1, <3>1 DEF SeedSteps, KB!Fail
  <2>2. CASE Fail(p) /\ UNCHANGED <<base, torn>>
    <3>1. schema \subseteq schema' /\ \A q \in Starters \ {p} : run'[q] = run[q]
      BY <1>3, <2>2
    <3>2. seeding[p].pc = "idle"
      BY <1>2, <2>2 DEF Fail, ReadySeeds
    <3>3. seeding' = seeding /\ documents' = documents /\ chunks' = chunks /\ torn' = torn
      BY <2>2 DEF base
    <3>4. ReadySeeds' /\ NoBaseNoRows'
      BY <1>2, <3>1, <3>2, <3>3 DEF ReadySeeds, NoBaseNoRows
    <3>5. QED
      BY <1>1, <1>2, <2>2, <3>3, <3>4, SeedTypesUnchanged DEF StartupInv
  <2>3. QED
    BY <1>8, <2>1, <2>2 DEF Break
<1>9. ASSUME NEW v \in Rollable, RollBack(v) PROVE StartupInv'
  <2>1. v \in Versions /\ schema' = schema \ Drops[v] /\ run' = run
    BY <1>2, <1>9 DEF RollBack, Rollback, TypeOK
  <2>2. seeding' = seeding /\ outcome' = outcome /\ torn' \in BOOLEAN
    BY <1>2, <1>9 DEF RollBack
  <2>3. ReadySeeds'
    BY <1>2, <2>1, <2>2 DEF ReadySeeds
  <2>4. CASE v = 8
    <3>1. documents' = {} /\ chunks' = {} /\ nextId' = 1
      BY <1>9, <2>4 DEF RollBack, DropRows
    <3>2. SeedTypes' /\ NoBaseNoRows'
      BY <1>2, <2>2, <3>1, SeedTypesDrop DEF NoBaseNoRows
    <3>3. QED
      BY <1>1, <2>2, <2>3, <3>2 DEF StartupInv
  <2>5. CASE v # 8
    <3>1. documents' = documents /\ chunks' = chunks /\ nextId' = nextId
      BY <1>9, <2>5 DEF RollBack, DropRows
    <3>2. "kb" \notin schema' => "kb" \notin schema
      BY <2>1, <2>5, BaseIsLast
    <3>3. SeedTypes'
      BY <1>2, <2>2, <3>1, SeedTypesUnchanged DEF base
    <3>4. QED
      BY <1>1, <1>2, <2>2, <2>3, <3>1, <3>2, <3>3 DEF StartupInv, NoBaseNoRows
  <2>6. QED
    BY <2>4, <2>5
<1>10. CASE UNCHANGED <<vars, base, torn>>
  <2>1. SeedTypes'
    BY <1>2, <1>10, SeedTypesUnchanged
  <2>2. ReadySeeds' /\ NoBaseNoRows' /\ torn' \in BOOLEAN
    BY <1>2, <1>10 DEF vars, base, ReadySeeds, NoBaseNoRows
  <2>3. QED
    BY <1>1, <2>1, <2>2 DEF StartupInv
<1>11. ASSUME NEW p \in Starters, Seed(p) PROVE ~KB!Start(p)
  BY <1>11 DEF Seed, Statement, KB!Count, KB!Clear, KB!Insert, KB!InsertChunk, KB!Embed,
     NoTable, KB!Start
<1>12. QED
  BY <1>4, <1>5, <1>7, <1>8, <1>9, <1>10, <1>11 DEF StartupNext

\* Every variable has its type; only a program that is ready seeds, there is nothing in
\* tables that are not there, every chunk has its document, and the numbers suffice.
THEOREM TypesAlways == StartupSpec => []StartupTypeOK
<1>1. StartupSpec => []StartupInv
  BY StartupInvInit, StartupInvStep, PTL DEF StartupSpec
<1>2. QED
  BY <1>1, StartupInvSuffices, PTL

-----------------------------------------------------------------------------
(***************************************************************************)
(* Seeding: what is missing is on its way.                                 *)
(***************************************************************************)

\* The chunks stored of a document, and those that a program inserted of a file, up to
\* the n-th.
Rows(id) == {c \in chunks : c.document = id}

Row(id, f, n, p) == [document |-> id, file |-> f, n |-> n, by |-> p]

RowsUpTo(id, f, n, p) == {Row(id, f, i, p) : i \in 1 .. n}

Complete(d) == \E p \in Starters : Rows(d.id) = RowsUpTo(d.id, d.file, Len(Chunks[d.file]), p)

Missing(f) == Chunks[f] # <<>> /\ \A d \in documents : d.file = f => ~Complete(d)

\* A program that goes through the files, and one that fills a document.
Active(p) == seeding[p].pc \in {"clear", "insert", "embed", "chunk"}

Filling(p) == seeding[p].pc \in {"embed", "chunk"}

\* Another has taken its slug, or deleted its document: it is going to end in a conflict.
Lost(p) == \/ seeding[p].pc = "insert" /\ \E d \in documents : d.slug = slugify[seeding[p].file]
           \/ Filling(p) /\ \A d \in documents : d.id # seeding[p].document

\* It will get to the file, or is at it.
HandledBy(p, f) == Active(p) /\ ~Lost(p) /\ seeding[p].file <= f

Excused == \E p \in Starters : ~Active(p) /\ outcome[p] = "broken"

Untouched ==
  /\ \A p \in Starters : ~Active(p)
  /\ \/ \A p \in Starters : outcome[p] = "none"
     \/ rollbacks > 0 /\ documents = {}

\* A file that is missing is going to be handled, by a program that is not lost, unless a
\* run was broken off, or none took place since the base was made.
NobodyMissing ==
  \A f \in DOMAIN Chunks :
    Missing(f) => (\E p \in Starters : HandledBy(p, f)) \/ Excused \/ Untouched

\* Documents are told apart by their ids and by their slugs.
Keyed ==
  /\ \A d \in documents : d.id < nextId /\ d.slug = slugify[d.file]
  /\ \A d, e \in documents : d.id = e.id \/ d.slug = e.slug => d = e

\* A document that is there holds what its program has inserted so far, and nothing else.
FilledBy(p) ==
  \A d \in documents : d.id = seeding[p].document =>
    d.file = seeding[p].file /\ Rows(d.id) = RowsUpTo(d.id, d.file, seeding[p].done, p)

Filled ==
  \A p \in Starters : Filling(p) =>
    /\ seeding[p].document \in 1 .. nextId - 1
    /\ \A q \in Starters \ {p} : Filling(q) => seeding[q].document # seeding[p].document
    /\ FilledBy(p)

InOrder == Keyed /\ Filled /\ NobodyMissing

\* What is assumed of the files: no two have the same slug.
DistinctSlugs == \A f, g \in DOMAIN Chunks : slugify[f] = slugify[g] => f = g

LEMMA RowsGrow ==
  ASSUME NEW id, NEW f, NEW n \in Nat, NEW p
  PROVE  /\ RowsUpTo(id, f, n + 1, p) = RowsUpTo(id, f, n, p) \cup {Row(id, f, n + 1, p)}
         /\ RowsUpTo(id, f, 0, p) = {}
<1>1. 1 .. n + 1 = (1 .. n) \cup {n + 1}
  OBVIOUS
<1>2. RowsUpTo(id, f, n + 1, p) = RowsUpTo(id, f, n, p) \cup {Row(id, f, n + 1, p)}
  BY <1>1 DEF RowsUpTo
<1>3. 1 .. 0 = {}
  OBVIOUS
<1>4. RowsUpTo(id, f, 0, p) = {}
  BY <1>3 DEF RowsUpTo
<1>5. QED
  BY <1>2, <1>4

\* A file that is missing was so before, if its documents are what they were.
LEMMA MissingBefore ==
  ASSUME NEW f, Missing(f)',
         \A d \in documents : d.file = f => d \in documents' /\ Rows(d.id)' = Rows(d.id)
  PROVE  Missing(f)
<1>1. ASSUME NEW d \in documents, d.file = f, Complete(d) PROVE Complete(d)'
  BY <1>1 DEF Complete
<1>2. QED
  BY <1>1 DEF Missing

\* A program stays on its way if nobody takes its slug or its document.
LEMMA StaysHandled ==
  ASSUME NEW q \in Starters, NEW f, HandledBy(q, f), seeding'[q] = seeding[q],
         \A d \in documents' : d.slug = slugify[seeding[q].file] => d \in documents,
         \A d \in documents : Filling(q) /\ d.id = seeding[q].document => d \in documents'
  PROVE  HandledBy(q, f)'
  BY DEF HandledBy, Active, Lost, Filling

\* A program takes a step: what is missing is on its way by that program, or it was on
\* its way by another that still is.
LEMMA StillAwaited ==
  ASSUME NobodyMissing, NEW p \in Starters, Active(p),
         \A q \in Starters \ {p} : seeding'[q] = seeding[q] /\ outcome'[q] = outcome[q],
         \A f \in DOMAIN Chunks : Missing(f)' =>
           \/ HandledBy(p, f)'
           \/ /\ Missing(f) /\ ~HandledBy(p, f)
              /\ \A q \in Starters \ {p} : HandledBy(q, f) => HandledBy(q, f)'
  PROVE  NobodyMissing'
<1> SUFFICES ASSUME NEW f \in DOMAIN Chunks, Missing(f)', ~HandledBy(p, f)'
             PROVE  (\E q \in Starters : HandledBy(q, f)') \/ Excused'
  BY DEF NobodyMissing
<1>1. /\ Missing(f) /\ ~HandledBy(p, f)
      /\ \A q \in Starters \ {p} : HandledBy(q, f) => HandledBy(q, f)'
  OBVIOUS
<1>2. (\E q \in Starters : HandledBy(q, f)) \/ Excused
  BY <1>1 DEF NobodyMissing, Untouched
<1>3. Excused => Excused'
  BY DEF Excused, Active
<1>4. QED
  BY <1>1, <1>2, <1>3

\* Documents that others fill stay as they are.
LEMMA FilledMove ==
  ASSUME Filled, NEW p \in Starters, nextId \in Nat, nextId' \in Nat, nextId <= nextId',
         \A q \in Starters \ {p} : seeding'[q] = seeding[q],
         \A q \in Starters \ {p} : Filling(q) =>
           \A d \in documents' : d.id = seeding[q].document =>
             d \in documents /\ Rows(d.id)' = Rows(d.id),
         Filling(p)' => /\ seeding'[p].document \in 1 .. nextId' - 1
                        /\ \A q \in Starters \ {p} :
                             Filling(q) => seeding[q].document # seeding'[p].document
                        /\ FilledBy(p)'
  PROVE  Filled'
<1> SUFFICES ASSUME NEW q \in Starters, Filling(q)'
             PROVE  /\ seeding'[q].document \in 1 .. nextId' - 1
                    /\ \A u \in Starters \ {q} :
                         Filling(u)' => seeding'[u].document # seeding'[q].document
                    /\ FilledBy(q)'
  BY DEF Filled
<1>1. \A u \in Starters \ {p} : Filling(u)' <=> Filling(u)
  BY DEF Filling
<1>2. CASE q = p
  BY <1>1, <1>2
<1>3. CASE q # p
  <2>1. Filling(q) /\ seeding'[q] = seeding[q]
    BY <1>1, <1>3
  <2>2. seeding[q].document \in 1 .. nextId - 1 /\ FilledBy(q)
    BY <2>1 DEF Filled
  <2>3. seeding'[q].document \in 1 .. nextId' - 1
    BY <2>1, <2>2
  <2>4. ASSUME NEW u \in Starters \ {q}, Filling(u)'
        PROVE  seeding'[u].document # seeding'[q].document
    <3>1. CASE u = p
      BY <1>3, <2>1, <2>4, <3>1
    <3>2. CASE u # p
      BY <1>1, <2>1, <2>4, <3>2 DEF Filled
    <3>3. QED
      BY <3>1, <3>2
  <2>5. FilledBy(q)'
    BY <1>3, <2>1, <2>2 DEF FilledBy
  <2>6. QED
    BY <2>3, <2>4, <2>5
<1>4. QED
  BY <1>2, <1>3

LEMMA SameTables ==
  ASSUME documents' = documents, chunks' = chunks
  PROVE  /\ \A id : Rows(id)' = Rows(id)
         /\ \A f : Missing(f)' => Missing(f)
<1>1. ASSUME NEW id PROVE Rows(id)' = Rows(id)
  BY DEF Rows
<1>2. ASSUME NEW f, Missing(f)' PROVE Missing(f)
  BY <1>1, <1>2, MissingBefore
<1>3. QED
  BY <1>1, <1>2

\* Nothing is written, and the program does not fill a document then.
LEMMA InOrderRest ==
  ASSUME SeedTypes, InOrder, NEW p \in Starters,
         UNCHANGED <<documents, chunks, nextId>>, ~Filling(p)',
         \A q \in Starters \ {p} : seeding'[q] = seeding[q]
  PROVE  Keyed' /\ Filled'
<1>1. documents' = documents /\ chunks' = chunks /\ nextId' = nextId /\ nextId \in Nat
  BY DEF SeedTypes
<1>2. Keyed'
  BY <1>1 DEF InOrder, Keyed
<1>3. \A id : Rows(id)' = Rows(id)
  BY <1>1, SameTables
<1>4. Filled'
  BY <1>1, <1>3, FilledMove DEF InOrder
<1>5. QED
  BY <1>2, <1>4

\* A program that does not go through the files then, and did not.
LEMMA InOrderIdle ==
  ASSUME SeedTypes, InOrder, NEW p \in Starters, ~Active(p), ~Active(p)',
         UNCHANGED <<documents, chunks, nextId, outcome>>, rollbacks' = rollbacks,
         \A q \in Starters \ {p} : seeding'[q] = seeding[q]
  PROVE  InOrder'
<1>1. Keyed' /\ Filled'
  <2>1. ~Filling(p)'
    BY DEF Filling, Active
  <2>2. QED
    BY <2>1, InOrderRest
<1>2. documents' = documents /\ chunks' = chunks /\ outcome' = outcome
  OBVIOUS
<1>3. ASSUME NEW q \in Starters PROVE Active(q)' <=> Active(q)
  BY DEF Active
<1>4. ASSUME NEW q \in Starters, NEW f, HandledBy(q, f) PROVE HandledBy(q, f)'
  <2>1. q # p
    BY <1>4 DEF HandledBy
  <2>2. QED
    BY <1>2, <1>4, <2>1, StaysHandled
<1>5. (Excused => Excused') /\ (Untouched => Untouched')
  BY <1>2, <1>3 DEF Excused, Untouched
<1>6. NobodyMissing'
  BY <1>2, <1>4, <1>5, SameTables DEF InOrder, NobodyMissing
<1>7. QED
  BY <1>1, <1>6 DEF InOrder

\* A program that begins with the first file will get to each.
LEMMA InOrderFromTheTop ==
  ASSUME SeedTypes, InOrder, NEW p \in Starters, UNCHANGED <<documents, chunks, nextId>>,
         \A q \in Starters \ {p} : seeding'[q] = seeding[q],
         seeding'[p].pc = "clear", seeding'[p].file = 1
  PROVE  InOrder'
<1>1. ~Filling(p)'
  BY DEF Filling
<1>2. Keyed' /\ Filled'
  BY <1>1, InOrderRest
<1>3. ASSUME NEW f \in DOMAIN Chunks PROVE HandledBy(p, f)'
  <2>1. f >= 1
    BY ChunksType
  <2>2. QED
    BY <2>1 DEF HandledBy, Active, Lost, Filling
<1>4. QED
  BY <1>2, <1>3 DEF InOrder, NobodyMissing

\* A program whose run is broken off excuses what is missing.
LEMMA InOrderBroken ==
  ASSUME SeedTypes, InOrder, NEW p \in Starters, KB!End(p, "broken"),
         UNCHANGED <<documents, chunks, nextId>>
  PROVE  InOrder'
<1>1. PICK r : Moved(p, r) /\ r.pc = "idle"
  BY EndMoves DEF SeedTypes
<1>2. seeding'[p] = r /\ \A q \in Starters \ {p} : seeding'[q] = seeding[q]
  BY <1>1 DEF Moved, SeedTypes
<1>3. ~Filling(p)' /\ ~Active(p)'
  BY <1>1, <1>2 DEF Filling, Active
<1>4. outcome'[p] = "broken"
  BY DEF KB!End, SeedTypes
<1>5. Excused'
  BY <1>3, <1>4 DEF Excused
<1>6. QED
  BY <1>2, <1>3, <1>5, InOrderRest DEF InOrder, NobodyMissing

\* A program that is lost ends in a conflict: it was nobody's hope.
LEMMA InOrderConflict ==
  ASSUME SeedTypes, InOrder, NEW p \in Starters, Active(p), Lost(p), KB!End(p, "conflict"),
         documents' = documents, chunks' = chunks, nextId' \in {nextId, nextId + 1}
  PROVE  InOrder'
<1>1. PICK r : Moved(p, r) /\ r.pc = "idle"
  BY EndMoves DEF SeedTypes
<1>2. seeding'[p] = r /\ \A q \in Starters \ {p} : seeding'[q] = seeding[q]
  BY <1>1 DEF Moved, SeedTypes
<1>3. ~Filling(p)'
  BY <1>1, <1>2 DEF Filling
<1>4. nextId \in Nat /\ nextId' \in Nat /\ nextId <= nextId'
  BY DEF SeedTypes
<1>5. Keyed'
  <2>1. \A d \in documents : d.id \in Nat
    BY MaxIdType DEF SeedTypes, Tables, KB!Documents
  <2>2. QED
    BY <1>4, <2>1 DEF InOrder, Keyed
<1>6. Filled'
  BY <1>2, <1>3, <1>4, SameTables, FilledMove DEF InOrder
<1>7. \A q \in Starters \ {p} : outcome'[q] = outcome[q]
  BY DEF KB!End, SeedTypes
<1>8. ASSUME NEW f \in DOMAIN Chunks, Missing(f)'
      PROVE  /\ Missing(f) /\ ~HandledBy(p, f)
             /\ \A q \in Starters \ {p} : HandledBy(q, f) => HandledBy(q, f)'
  <2>1. Missing(f) /\ ~HandledBy(p, f)
    BY <1>8, SameTables DEF HandledBy
  <2>2. ASSUME NEW q \in Starters \ {p}, HandledBy(q, f) PROVE HandledBy(q, f)'
    BY <1>2, <2>2, StaysHandled
  <2>3. QED
    BY <2>1, <2>2
<1>9. NobodyMissing'
  BY <1>2, <1>7, <1>8, StillAwaited DEF InOrder
<1>10. QED
  BY <1>5, <1>6, <1>9 DEF InOrder

LEMMA InOrderClear ==
  ASSUME DistinctSlugs, SeedTypes, InOrder, NEW p \in Starters, KB!Clear(p)
  PROVE  InOrder'
<1>1. PICK s \in Seedings : s = seeding[p]
  BY DEF SeedTypes
<1>2. s.pc = "clear" /\ s.file \in DOMAIN Chunks /\ s.file \in Nat
  BY <1>1, ChunksType DEF SeedTypes, Ready, ReadyAt, KB!Clear
<1>3. PICK r : /\ Moved(p, r)
               /\ \/ /\ Chunks[s.file] # <<>> /\ outcome' = outcome
                     /\ r.pc = "insert" /\ r.file = s.file
                  \/ /\ Chunks[s.file] = <<>> /\ s.file = Len(Chunks)
                     /\ r.pc = "idle" /\ outcome' = [outcome EXCEPT ![p] = "done"]
                  \/ /\ Chunks[s.file] = <<>> /\ outcome' = outcome
                     /\ r.pc = "clear" /\ r.file = s.file + 1
  BY <1>1, ClearMoves DEF SeedTypes
<1>4. /\ seeding'[p] = r /\ ~Filling(p)'
      /\ \A q \in Starters \ {p} : seeding'[q] = seeding[q] /\ outcome'[q] = outcome[q]
  BY <1>3 DEF Moved, SeedTypes, Filling
<1>5. /\ documents' = {d \in documents : d.slug # slugify[s.file]}
      /\ chunks' = {c \in chunks : \A d \in documents : d.slug = slugify[s.file] => d.id # c.document}
      /\ nextId' = nextId /\ nextId \in Nat
  BY <1>1 DEF KB!Clear, KB!Cleared, KB!Cascade, SeedTypes
<1>6. ASSUME NEW d \in documents' PROVE d \in documents /\ Rows(d.id)' = Rows(d.id)
  <2>1. d \in documents /\ d.slug # slugify[s.file]
    BY <1>5, <1>6
  <2>2. \A e \in documents : e.slug = slugify[s.file] => e.id # d.id
    BY <2>1 DEF InOrder, Keyed
  <2>3. QED
    BY <1>5, <2>1, <2>2 DEF Rows
<1>7. ASSUME NEW d \in documents, d.file # s.file PROVE d \in documents'
  <2>1. d.file \in DOMAIN Chunks /\ d.slug = slugify[d.file]
    BY <1>7 DEF InOrder, Keyed, SeedTypes, Tables, KB!Documents, KB!FileIds
  <2>2. QED
    BY <1>2, <1>5, <1>7, <2>1 DEF DistinctSlugs
<1>8. Keyed'
  BY <1>5, <1>6 DEF InOrder, Keyed
<1>9. Filled'
  BY <1>4, <1>5, <1>6, FilledMove DEF InOrder
<1>10. Active(p)
  BY <1>1, <1>2 DEF Active
<1>11. ASSUME NEW f \in DOMAIN Chunks, Missing(f)', ~HandledBy(p, f)'
       PROVE  /\ Missing(f) /\ ~HandledBy(p, f)
              /\ \A q \in Starters \ {p} : HandledBy(q, f) => HandledBy(q, f)'
  <2>1. f \in Nat /\ f <= Len(Chunks) /\ Chunks[f] # <<>>
    BY <1>11, ChunksType DEF Missing
  <2>2. f < s.file
    <3>1. CASE r.pc = "insert" /\ r.file = s.file
      <4>1. ~Lost(p)'
        BY <1>4, <1>5, <3>1 DEF Lost, Filling
      <4>2. QED
        BY <1>2, <1>4, <1>11, <2>1, <3>1, <4>1 DEF HandledBy, Active
    <3>2. CASE Chunks[s.file] = <<>> /\ s.file = Len(Chunks)
      <4>1. f # s.file
        BY <2>1, <3>2
      <4>2. QED
        BY <1>2, <2>1, <3>2, <4>1
    <3>3. CASE Chunks[s.file] = <<>> /\ r.pc = "clear" /\ r.file = s.file + 1
      <4>1. f # s.file
        BY <2>1, <3>3
      <4>2. ~Lost(p)'
        BY <1>4, <3>3 DEF Lost, Filling
      <4>3. ~(s.file + 1 <= f)
        BY <1>4, <1>11, <3>3, <4>2 DEF HandledBy, Active
      <4>4. QED
        BY <1>2, <2>1, <4>1, <4>3
    <3>4. QED
      BY <1>3, <3>1, <3>2, <3>3
  <2>3. ~HandledBy(p, f)
    BY <1>1, <1>2, <2>1, <2>2 DEF HandledBy
  <2>4. ASSUME NEW d \in documents, d.file = f PROVE d \in documents' /\ Rows(d.id)' = Rows(d.id)
    BY <1>2, <1>6, <1>7, <2>1, <2>2, <2>4
  <2>5. Missing(f)
    BY <1>11, <2>4, MissingBefore
  <2>6. ASSUME NEW q \in Starters \ {p}, HandledBy(q, f) PROVE HandledBy(q, f)'
    <3>1. seeding[q].file \in Nat /\ seeding[q].file <= f
      BY <2>6, SeedingFields, ChunksType DEF HandledBy, SeedTypes
    <3>2. ASSUME NEW d \in documents, Filling(q), d.id = seeding[q].document PROVE d \in documents'
      <4>1. d.file = seeding[q].file
        BY <3>2 DEF InOrder, Filled, FilledBy
      <4>2. d.file # s.file
        BY <1>2, <2>1, <2>2, <3>1, <4>1
      <4>3. QED
        BY <1>7, <4>2
    <3>3. \A d \in documents' : d \in documents
      BY <1>5
    <3>4. QED
      BY <1>4, <2>6, <3>2, <3>3, StaysHandled
  <2>7. QED
    BY <2>3, <2>5, <2>6
<1>12. NobodyMissing'
  BY <1>4, <1>10, <1>11, StillAwaited DEF InOrder
<1>13. QED
  BY <1>8, <1>9, <1>12 DEF InOrder

LEMMA InOrderInsert ==
  ASSUME DistinctSlugs, SeedTypes, InOrder, NEW p \in Starters, KB!Insert(p)
  PROVE  InOrder'
<1>1. PICK s \in Seedings : s = seeding[p]
  BY DEF SeedTypes
<1>2. s.pc = "insert" /\ s.file \in DOMAIN Chunks /\ s.file \in Nat
  BY <1>1, ChunksType DEF SeedTypes, Ready, ReadyAt, KB!Insert
<1>3. nextId \in 1 .. KB!MaxId /\ nextId \in Nat /\ nextId' = nextId + 1 /\ chunks' = chunks
  BY <1>1, <1>2, NumberLeft DEF SeedTypes, KB!Insert
<1>4. Active(p)
  BY <1>1, <1>2 DEF Active
<1>5. CASE ~KB!SlugFree(s.file)
  <2>1. KB!End(p, "conflict") /\ documents' = documents
    BY <1>1, <1>5 DEF KB!Insert
  <2>2. Lost(p)
    BY <1>1, <1>2, <1>5 DEF Lost, KB!SlugFree
  <2>3. QED
    BY <1>3, <1>4, <2>1, <2>2, InOrderConflict
<1>6. CASE KB!SlugFree(s.file)
  <2>1. PICK r : /\ Moved(p, r) /\ r.pc = "embed" /\ r.file = s.file /\ r.done = 0
                 /\ r.document = nextId /\ outcome' = outcome
    BY <1>1, <1>3, <1>6, InsertMoves DEF SeedTypes
  <2>2. /\ seeding'[p] = r /\ Filling(p)'
        /\ \A q \in Starters \ {p} : seeding'[q] = seeding[q] /\ outcome'[q] = outcome[q]
    BY <2>1 DEF Moved, SeedTypes, Filling
  <2>3. PICK e : e = [id |-> nextId, slug |-> slugify[s.file], file |-> s.file]
    OBVIOUS
  <2>4. documents' = documents \cup {e} /\ e.id = nextId /\ e.slug = slugify[s.file] /\ e.file = s.file
    BY <1>1, <1>6, <2>3 DEF KB!Insert
  <2>5. \A d \in documents : /\ d.id \in Nat /\ d.id < nextId /\ d.slug # slugify[s.file]
                             /\ d.file \in DOMAIN Chunks /\ d.slug = slugify[d.file]
    BY <1>6, MaxIdType DEF SeedTypes, Tables, KB!Documents, KB!FileIds, InOrder, Keyed, KB!SlugFree
  <2>6. \A id : Rows(id)' = Rows(id)
    BY <1>3 DEF Rows
  <2>7. Keyed'
    <3>1. \A d \in documents' : d.id < nextId' /\ d.slug = slugify[d.file]
      BY <1>3, <2>4, <2>5
    <3>2. ASSUME NEW d \in documents', NEW c \in documents', d.id = c.id \/ d.slug = c.slug
          PROVE  d = c
      <4>1. CASE d \in documents /\ c \in documents
        BY <3>2, <4>1 DEF InOrder, Keyed
      <4>2. CASE d = e \/ c = e
        BY <1>3, <2>4, <2>5, <3>2, <4>2
      <4>3. QED
        BY <2>4, <4>1, <4>2
    <3>3. QED
      BY <3>1, <3>2 DEF Keyed
  <2>8. Filled'
    <3>1. nextId' \in Nat /\ nextId <= nextId'
      BY <1>3
    <3>2. ASSUME NEW q \in Starters \ {p}, Filling(q)
          PROVE  /\ seeding[q].document # nextId
                 /\ \A d \in documents' : d.id = seeding[q].document => d \in documents
      <4>1. seeding[q].document \in 1 .. nextId - 1
        BY <3>2 DEF InOrder, Filled
      <4>2. seeding[q].document # nextId
        BY <1>3, <4>1
      <4>3. QED
        BY <2>4, <4>2
    <3>3. Rows(nextId) = {}
      <4>1. ASSUME NEW c \in chunks PROVE c.document # nextId
        <5>1. PICK d \in documents : d.id = c.document
          BY DEF SeedTypes, Tables
        <5>2. QED
          BY <1>3, <2>5, <5>1
      <4>2. QED
        BY <4>1 DEF Rows
    <3>4. FilledBy(p)'
      <4>1. SUFFICES ASSUME NEW d \in documents', d.id = seeding'[p].document
                     PROVE  /\ d.file = seeding'[p].file
                            /\ Rows(d.id)' = RowsUpTo(d.id, d.file, seeding'[p].done, p)
        BY DEF FilledBy
      <4>2. d = e
        BY <1>3, <2>1, <2>2, <2>4, <2>5, <4>1
      <4>3. RowsUpTo(d.id, d.file, 0, p) = {}
        BY RowsGrow
      <4>4. QED
        BY <2>1, <2>2, <2>4, <2>6, <3>3, <4>2, <4>3
    <3>5. seeding'[p].document = nextId /\ nextId \in 1 .. nextId' - 1
      BY <1>3, <2>1, <2>2
    <3>6. QED
      BY <1>3, <2>2, <2>6, <3>1, <3>2, <3>4, <3>5, FilledMove DEF InOrder
  <2>9. ASSUME NEW f \in DOMAIN Chunks, Missing(f)', ~HandledBy(p, f)'
        PROVE  /\ Missing(f) /\ ~HandledBy(p, f)
               /\ \A q \in Starters \ {p} : HandledBy(q, f) => HandledBy(q, f)'
    <3>1. ~Lost(p)'
      BY <2>1, <2>2, <2>4 DEF Lost
    <3>2. f \in Nat /\ f < s.file
      BY <1>2, <2>1, <2>2, <2>9, <3>1, ChunksType DEF HandledBy, Active
    <3>3. ~HandledBy(p, f)
      BY <1>1, <1>2, <3>2 DEF HandledBy
    <3>4. Missing(f)
      BY <2>4, <2>6, <2>9, MissingBefore
    <3>5. ASSUME NEW q \in Starters \ {p}, HandledBy(q, f) PROVE HandledBy(q, f)'
      <4>1. seeding[q].file \in DOMAIN Chunks /\ seeding[q].file \in Nat /\ seeding[q].file <= f
        BY <3>5, ChunksType DEF HandledBy, SeedTypes, Active, Ready, ReadyAt
      <4>2. slugify[seeding[q].file] # slugify[s.file]
        BY <1>2, <3>2, <4>1 DEF DistinctSlugs
      <4>3. \A d \in documents' : d.slug = slugify[seeding[q].file] => d \in documents
        BY <2>4, <4>2
      <4>4. QED
        BY <2>2, <2>4, <3>5, <4>3, StaysHandled
    <3>6. QED
      BY <3>3, <3>4, <3>5
  <2>10. NobodyMissing'
    BY <1>4, <2>2, <2>9, StillAwaited DEF InOrder
  <2>11. QED
    BY <2>7, <2>8, <2>10 DEF InOrder
<1>7. QED
  BY <1>5, <1>6

LEMMA InOrderEmbed ==
  ASSUME SeedTypes, InOrder, NEW p \in Starters, KB!Embed(p)
  PROVE  InOrder'
<1>1. PICK s \in Seedings : s = seeding[p]
  BY DEF SeedTypes
<1>2. PICK r : /\ Moved(p, r) /\ s.pc = "embed" /\ r.pc = "chunk" /\ r.file = s.file
               /\ r.document = s.document /\ r.done = s.done
  BY <1>1, EmbedMoves DEF SeedTypes
<1>3. /\ documents' = documents /\ chunks' = chunks /\ nextId' = nextId /\ outcome' = outcome
      /\ nextId \in Nat
  BY DEF KB!Embed, SeedTypes
<1>4. seeding'[p] = r /\ \A q \in Starters \ {p} : seeding'[q] = seeding[q]
  BY <1>2 DEF Moved, SeedTypes
<1>5. \A id : Rows(id)' = Rows(id)
  BY <1>3, SameTables
<1>6. Keyed'
  BY <1>3 DEF InOrder, Keyed
<1>7. Filled'
  <2>1. Filling(p)
    BY <1>1, <1>2 DEF Filling
  <2>2. /\ s.document \in 1 .. nextId - 1 /\ FilledBy(p)
        /\ \A q \in Starters \ {p} : Filling(q) => seeding[q].document # s.document
    BY <1>1, <2>1 DEF InOrder, Filled
  <2>3. FilledBy(p)'
    BY <1>1, <1>2, <1>3, <1>4, <1>5, <2>2 DEF FilledBy
  <2>4. QED
    BY <1>2, <1>3, <1>4, <1>5, <2>2, <2>3, FilledMove DEF InOrder
<1>8. Active(p)
  BY <1>1, <1>2 DEF Active
<1>9. ASSUME NEW f \in DOMAIN Chunks, Missing(f)', ~HandledBy(p, f)'
      PROVE  /\ Missing(f) /\ ~HandledBy(p, f)
             /\ \A q \in Starters \ {p} : HandledBy(q, f) => HandledBy(q, f)'
  <2>1. Missing(f)
    BY <1>3, <1>9, SameTables
  <2>2. ~HandledBy(p, f)
    BY <1>1, <1>2, <1>3, <1>4, <1>9 DEF HandledBy, Active, Lost, Filling
  <2>3. ASSUME NEW q \in Starters \ {p}, HandledBy(q, f) PROVE HandledBy(q, f)'
    BY <1>3, <1>4, <2>3, StaysHandled
  <2>4. QED
    BY <2>1, <2>2, <2>3
<1>10. NobodyMissing'
  BY <1>3, <1>4, <1>8, <1>9, StillAwaited DEF InOrder
<1>11. QED
  BY <1>6, <1>7, <1>10 DEF InOrder

LEMMA InOrderInsertChunk ==
  ASSUME SeedTypes, InOrder, NEW p \in Starters, KB!InsertChunk(p)
  PROVE  InOrder'
<1>1. PICK s \in Seedings : s = seeding[p]
  BY DEF SeedTypes
<1>2. PICK r : /\ Moved(p, r) /\ s.pc = "chunk"
               /\ \/ /\ \A d \in documents : d.id # s.document
                     /\ chunks' = chunks
                     /\ r.pc = "idle" /\ outcome' = [outcome EXCEPT ![p] = "conflict"]
                  \/ /\ \E d \in documents : d.id = s.document
                     /\ chunks' = chunks \cup {NewRow(p)}
                     /\ \/ /\ r.pc \in {"embed", "chunk"} /\ r.file = s.file
                           /\ r.document = s.document
                           /\ r.done = s.done + 1 /\ outcome' = outcome
                        \/ /\ s.done + 1 = Len(Chunks[s.file])
                           /\ \/ /\ r.pc = "idle" /\ s.file = Len(Chunks)
                                 /\ outcome' = [outcome EXCEPT ![p] = "done"]
                              \/ /\ r.pc = "clear" /\ r.file = s.file + 1
                                 /\ outcome' = outcome
  BY <1>1, InsertChunkMoves DEF SeedTypes
<1>3. /\ documents' = documents /\ nextId' = nextId /\ nextId \in Nat
      /\ s.file \in DOMAIN Chunks /\ s.file \in Nat /\ s.done \in Nat
  BY <1>1, <1>2, SeedingFields, ChunksType DEF KB!InsertChunk, SeedTypes, Ready, ReadyAt
<1>4. Filling(p) /\ Active(p)
  BY <1>1, <1>2 DEF Filling, Active
<1>5. CASE \A d \in documents : d.id # s.document
  <2>1. KB!End(p, "conflict") /\ chunks' = chunks
    BY <1>1, <1>5 DEF KB!InsertChunk
  <2>2. Lost(p)
    BY <1>1, <1>4, <1>5 DEF Lost
  <2>3. QED
    BY <1>3, <1>4, <2>1, <2>2, InOrderConflict
<1>6. CASE \E d \in documents : d.id = s.document
  <2>1. PICK c : c = Row(s.document, s.file, s.done + 1, p)
    OBVIOUS
  <2>2. chunks' = chunks \cup {c} /\ c.document = s.document
    BY <1>1, <1>2, <1>6, <2>1 DEF NewRow, Row
  <2>3. /\ seeding'[p] = r
        /\ \A q \in Starters \ {p} : seeding'[q] = seeding[q] /\ outcome'[q] = outcome[q]
    BY <1>2 DEF Moved, SeedTypes
  <2>4. /\ s.document \in 1 .. nextId - 1 /\ FilledBy(p)
        /\ \A q \in Starters \ {p} : Filling(q) => seeding[q].document # s.document
    BY <1>1, <1>4 DEF InOrder, Filled
  <2>5. ASSUME NEW id, id # s.document PROVE Rows(id)' = Rows(id)
    BY <2>2, <2>5 DEF Rows
  <2>6. ASSUME NEW d \in documents, d.id = s.document
        PROVE  d.file = s.file /\ Rows(d.id)' = RowsUpTo(d.id, s.file, s.done + 1, p)
    <3>1. d.file = s.file /\ Rows(d.id) = RowsUpTo(d.id, s.file, s.done, p)
      BY <1>1, <2>4, <2>6 DEF FilledBy
    <3>2. Rows(d.id)' = Rows(d.id) \cup {c}
      BY <2>2, <2>6 DEF Rows
    <3>3. QED
      BY <1>3, <2>1, <2>6, <3>1, <3>2, RowsGrow
  <2>7. Keyed'
    BY <1>3 DEF InOrder, Keyed
  <2>8. Filled'
    <3>1. ASSUME NEW q \in Starters \ {p}, Filling(q), NEW d \in documents', d.id = seeding[q].document
          PROVE  d \in documents /\ Rows(d.id)' = Rows(d.id)
      BY <1>3, <2>4, <2>5, <3>1
    <3>2. ASSUME Filling(p)'
          PROVE  /\ seeding'[p].document \in 1 .. nextId' - 1
                 /\ \A q \in Starters \ {p} : Filling(q) => seeding[q].document # seeding'[p].document
                 /\ FilledBy(p)'
      <4>1. r.file = s.file /\ r.document = s.document /\ r.done = s.done + 1
        BY <1>2, <1>6, <2>3, <3>2 DEF Filling
      <4>2. FilledBy(p)'
        BY <1>3, <2>3, <2>6, <4>1 DEF FilledBy
      <4>3. QED
        BY <1>3, <2>3, <2>4, <4>1, <4>2
    <3>3. QED
      BY <1>3, <2>3, <3>1, <3>2, FilledMove DEF InOrder
  <2>9. ASSUME NEW f \in DOMAIN Chunks, Missing(f)', ~HandledBy(p, f)'
        PROVE  /\ Missing(f) /\ ~HandledBy(p, f)
               /\ \A q \in Starters \ {p} : HandledBy(q, f) => HandledBy(q, f)'
    <3>1. f \in Nat /\ f <= Len(Chunks)
      BY ChunksType
    <3>2. f < s.file
      <4>1. CASE r.pc \in {"embed", "chunk"} /\ r.file = s.file /\ r.document = s.document
        <5>1. ~Lost(p)'
          BY <1>3, <1>6, <2>3, <4>1 DEF Lost
        <5>2. QED
          BY <1>3, <2>3, <2>9, <3>1, <4>1, <5>1 DEF HandledBy, Active
      <4>2. CASE s.done + 1 = Len(Chunks[s.file])
        <5>1. PICK d \in documents : d.id = s.document
          BY <1>6
        <5>2. Complete(d)'
          BY <2>6, <4>2, <5>1 DEF Complete
        <5>3. f # s.file
          BY <1>3, <2>6, <2>9, <5>1, <5>2 DEF Missing
        <5>4. CASE s.file = Len(Chunks)
          BY <1>3, <3>1, <5>3, <5>4
        <5>5. CASE r.pc = "clear" /\ r.file = s.file + 1
          <6>1. ~Lost(p)'
            BY <2>3, <5>5 DEF Lost, Filling
          <6>2. ~(s.file + 1 <= f)
            BY <2>3, <2>9, <5>5, <6>1 DEF HandledBy, Active
          <6>3. QED
            BY <1>3, <3>1, <5>3, <6>2
        <5>6. CASE r.pc \in {"embed", "chunk"} /\ r.file = s.file /\ r.document = s.document
          BY <4>1, <5>6
        <5>7. QED
          BY <1>2, <1>6, <5>4, <5>5, <5>6
      <4>3. QED
        BY <1>2, <1>6, <4>1, <4>2
    <3>3. ~HandledBy(p, f)
      BY <1>1, <1>3, <3>1, <3>2 DEF HandledBy
    <3>4. ASSUME NEW d \in documents, d.file = f PROVE d \in documents' /\ Rows(d.id)' = Rows(d.id)
      BY <1>3, <2>5, <2>6, <3>1, <3>2, <3>4
    <3>5. Missing(f)
      BY <2>9, <3>4, MissingBefore
    <3>6. ASSUME NEW q \in Starters \ {p}, HandledBy(q, f) PROVE HandledBy(q, f)'
      BY <1>3, <2>3, <3>6, StaysHandled
    <3>7. QED
      BY <3>3, <3>5, <3>6
  <2>10. NobodyMissing'
    BY <1>4, <2>3, <2>9, StillAwaited DEF InOrder
  <2>11. QED
    BY <2>7, <2>8, <2>10 DEF InOrder
<1>7. QED
  BY <1>5, <1>6

\* Every step of seeding.
LEMMA InOrderSeeds ==
  ASSUME DistinctSlugs, SeedTypes, InOrder, NEW p \in Starters, SeedSteps(p),
         rollbacks' = rollbacks
  PROVE  InOrder'
<1>1. CASE KB!Start(p)
  <2>1. PICK r : /\ Moved(p, r) /\ seeding[p].pc = "idle"
                 /\ r.pc \in {"count", "clear"} /\ r.file = 1
    BY <1>1, StartMoves DEF SeedTypes
  <2>2. seeding'[p] = r /\ \A q \in Starters \ {p} : seeding'[q] = seeding[q]
    BY <2>1 DEF Moved, SeedTypes
  <2>3. UNCHANGED <<documents, chunks, nextId, outcome>>
    BY <1>1 DEF KB!Start
  <2>4. CASE r.pc = "clear"
    BY <2>1, <2>2, <2>3, <2>4, InOrderFromTheTop
  <2>5. CASE r.pc = "count"
    BY <2>1, <2>2, <2>3, <2>5, InOrderIdle DEF Active
  <2>6. QED
    BY <2>1, <2>4, <2>5
<1>2. CASE KB!Count(p)
  <2>1. PICK r : /\ Moved(p, r) /\ r.file = 1 /\ outcome' = outcome
                 /\ r.pc = IF chunks = {} THEN "clear" ELSE "idle"
    BY <1>2, CountMoves DEF SeedTypes
  <2>2. seeding'[p] = r /\ \A q \in Starters \ {p} : seeding'[q] = seeding[q]
    BY <2>1 DEF Moved, SeedTypes
  <2>3. UNCHANGED <<documents, chunks, nextId, outcome>> /\ seeding[p].pc = "count"
    BY <1>2, <2>1 DEF KB!Count
  <2>4. CASE r.pc = "clear"
    BY <2>1, <2>2, <2>3, <2>4, InOrderFromTheTop
  <2>5. CASE r.pc = "idle"
    BY <2>1, <2>2, <2>3, <2>5, InOrderIdle DEF Active
  <2>6. QED
    BY <2>1, <2>4, <2>5
<1>3. CASE KB!Fail(p)
  BY <1>3, InOrderBroken DEF KB!Fail
<1>4. CASE NoTable(p)
  BY <1>4, InOrderBroken DEF NoTable
<1>5. QED
  BY <1>1, <1>2, <1>3, <1>4, InOrderClear, InOrderInsert, InOrderEmbed, InOrderInsertChunk
     DEF SeedSteps

\* Nothing of the base changes; there may be a rollback of something else.
LEMMA InOrderUnchanged ==
  ASSUME SeedTypes, InOrder, UNCHANGED base,
         rollbacks' = rollbacks \/ rollbacks' > 0
  PROVE  InOrder'
<1>1. /\ documents' = documents /\ chunks' = chunks /\ nextId' = nextId
      /\ seeding' = seeding /\ outcome' = outcome
  BY DEF base
<1>2. \A id : Rows(id)' = Rows(id)
  BY <1>1, SameTables
<1>3. Keyed'
  BY <1>1 DEF InOrder, Keyed
<1>4. Filled'
  BY <1>1, <1>2 DEF InOrder, Filled, FilledBy, Filling
<1>5. ASSUME NEW q \in Starters, NEW f, HandledBy(q, f) PROVE HandledBy(q, f)'
  BY <1>1, <1>5, StaysHandled
<1>6. (Excused => Excused') /\ (Untouched => Untouched')
  BY <1>1 DEF Excused, Untouched, Active
<1>7. NobodyMissing'
  BY <1>1, <1>5, <1>6, SameTables DEF InOrder, NobodyMissing
<1>8. QED
  BY <1>3, <1>4, <1>7 DEF InOrder

SeededInv == StartupInv /\ (~torn => InOrder)

LEMMA SeededInvInit == StartupInit => SeededInv
<1> SUFFICES ASSUME StartupInit PROVE SeededInv
  OBVIOUS
<1>1. /\ documents = {}
      /\ \A p \in Starters : seeding[p].pc = "idle" /\ outcome[p] = "none"
  BY DEF StartupInit, KB!Init, KB!NotRunning
<1>2. Keyed /\ Filled
  BY <1>1 DEF Keyed, Filled, Filling
<1>3. Untouched
  BY <1>1 DEF Untouched, Active
<1>4. QED
  BY <1>2, <1>3, StartupInvInit DEF SeededInv, InOrder, NobodyMissing

LEMMA SeededInvStep ==
  ASSUME DistinctSlugs
  PROVE  SeededInv /\ [StartupNext]_<<vars, base, torn>> => SeededInv'
<1> SUFFICES ASSUME SeededInv, [StartupNext]_<<vars, base, torn>>, ~torn' PROVE InOrder'
  BY StartupInvStep DEF SeededInv
<1>1. SeedTypes /\ TypeOK /\ torn \in BOOLEAN /\ (~torn => InOrder)
  BY DEF SeededInv, StartupInv
<1>2. ASSUME NEW p \in Starters, Begin(p) PROVE InOrder'
  BY <1>1, <1>2, InOrderUnchanged DEF Begin, Start
<1>3. ASSUME NEW p \in Starters, Migrate(p) PROVE InOrder'
  <2>1. rollbacks' = rollbacks /\ ~torn
    BY <1>3 DEF Migrate, Check, Apply, Record
  <2>2. CASE run'[p].pc = "ready"
    <3>1. SeedSteps(p)
      BY <1>3, <2>2 DEF Migrate, SeedSteps
    <3>2. QED
      BY <1>1, <2>1, <3>1, InOrderSeeds
  <2>3. CASE run'[p].pc # "ready"
    BY <1>1, <1>3, <2>1, <2>3, InOrderUnchanged DEF Migrate
  <2>4. QED
    BY <2>2, <2>3
<1>4. ASSUME NEW p \in Starters, Seed(p) PROVE InOrder'
  <2>1. SeedSteps(p) /\ rollbacks' = rollbacks /\ ~torn
    BY <1>4 DEF Seed, Statement, SeedSteps, vars
  <2>2. QED
    BY <1>1, <2>1, InOrderSeeds
<1>5. ASSUME NEW p \in Starters, Break(p) PROVE InOrder'
  <2>1. CASE Fail(p) /\ UNCHANGED <<base, torn>>
    BY <1>1, <2>1, InOrderUnchanged DEF Fail
  <2>2. CASE KB!Fail(p) /\ UNCHANGED <<vars, torn>>
    BY <1>1, <2>2, InOrderSeeds DEF SeedSteps, vars
  <2>3. QED
    BY <1>5, <2>1, <2>2 DEF Break
<1>6. ASSUME NEW v \in Rollable, RollBack(v) PROVE InOrder'
  <2>1. /\ rollbacks \in Nat /\ rollbacks' = rollbacks + 1 /\ rollbacks' > 0
        /\ seeding' = seeding /\ outcome' = outcome
        /\ torn' = (torn \/ (v = 8 /\ \E p \in Starters : seeding[p].pc # "idle"))
    BY <1>1, <1>6, MigrationsAssumption DEF RollBack, Rollback, TypeOK
  <2>2. CASE v # 8
    <3>1. UNCHANGED base
      BY <1>6, <2>1, <2>2 DEF RollBack, DropRows, base
    <3>2. QED
      BY <1>1, <2>1, <3>1, InOrderUnchanged
  <2>3. CASE v = 8
    <3>1. documents' = {} /\ \A p \in Starters : seeding'[p].pc = "idle"
      <4>1. documents' = {}
        BY <1>6, <2>3 DEF RollBack, DropRows
      <4>2. ~(\E p \in Starters : seeding[p].pc # "idle")
        BY <2>1, <2>3, Zenon
      <4>3. QED
        BY <2>1, <4>1, <4>2
    <3>2. Keyed' /\ Filled'
      BY <3>1 DEF Keyed, Filled, Filling
    <3>3. Untouched'
      BY <2>1, <3>1 DEF Untouched, Active
    <3>4. QED
      BY <3>2, <3>3 DEF InOrder, NobodyMissing
  <2>4. QED
    BY <2>2, <2>3
<1>7. CASE UNCHANGED <<vars, base, torn>>
  BY <1>1, <1>7, InOrderUnchanged DEF vars
<1>8. QED
  BY <1>2, <1>3, <1>4, <1>5, <1>6, <1>7 DEF StartupNext

LEMMA KBCounts == \A S : KB!Cardinality(S) = Cardinality(S)
  BY Zenon DEF KB!Cardinality, Cardinality

\* The chunks up to the n-th are n.
LEMMA RowsCount ==
  ASSUME NEW id, NEW f, NEW n \in Nat, NEW p
  PROVE  /\ Cardinality(RowsUpTo(id, f, n, p)) = n
         /\ {c.n : c \in RowsUpTo(id, f, n, p)} = 1 .. n
<1>1. PICK R : R = RowsUpTo(id, f, n, p)
  OBVIOUS
<1>2. PICK g : g = [i \in 1 .. n |-> Row(id, f, i, p)]
  OBVIOUS
<1>3. \A i : Row(id, f, i, p).n = i
  BY DEF Row
<1>4. \A c \in R : \E i \in 1 .. n : c = Row(id, f, i, p)
  BY <1>1 DEF RowsUpTo
<1>5. \A i \in 1 .. n : g[i] \in R /\ g[i] = Row(id, f, i, p)
  BY <1>1, <1>2 DEF RowsUpTo
<1>6. g \in [1 .. n -> R]
  BY <1>2, <1>5
<1>7. g \in Injection(1 .. n, R)
  BY <1>3, <1>5, <1>6 DEF Injection, IsInjective
<1>8. g \in Surjection(1 .. n, R)
  BY <1>4, <1>5, <1>6 DEF Surjection
<1>9. ExistsBijection(1 .. n, R)
  BY <1>7, <1>8 DEF Bijection, ExistsBijection
<1>10. Cardinality(R) = n
  BY <1>9, FS_CountingElements
<1>11. {c.n : c \in R} = 1 .. n
  BY <1>3, <1>4, <1>5
<1>12. QED
  BY <1>1, <1>10, <1>11

LEMMA CompleteIsIndexed ==
  ASSUME SeedTypes, NEW f \in DOMAIN Chunks, NEW d \in documents, d.file = f, Complete(d)
  PROVE  KB!Indexed(f)
<1>1. PICK n \in Nat : n = Len(Chunks[f])
  BY ChunksType
<1>2. DOMAIN Chunks[f] = 1 .. n
  BY <1>1, ChunksType
<1>3. PICK p \in Starters : Rows(d.id) = RowsUpTo(d.id, f, n, p)
  BY <1>1 DEF Complete
<1>4. PICK R : R = {c \in chunks : c.document = d.id}
  OBVIOUS
<1>5. R = RowsUpTo(d.id, f, n, p)
  BY <1>3, <1>4 DEF Rows
<1>6. \A c \in R : c.file = f
  BY <1>5 DEF RowsUpTo, Row
<1>7. KB!Cardinality(R) = n
  BY <1>5, RowsCount, KBCounts
<1>8. {c.n : c \in R} = DOMAIN Chunks[f]
  BY <1>2, <1>5, RowsCount
<1>9. QED
  BY <1>1, <1>4, <1>6, <1>7, <1>8 DEF KB!Indexed

LEMMA SeededInvSuffices ==
  ASSUME DistinctSlugs
  PROVE  SeededInv => SeededIsWhole
<1> SUFFICES ASSUME SeededInv, ~torn, rollbacks = 0 \/ documents # {},
                    \A p \in Starters : seeding[p].pc = "idle" /\ outcome[p] # "broken",
                    \E p \in Starters : outcome[p] # "none"
             PROVE  KB!Whole
  BY DEF SeededIsWhole, KB!SeededIsWhole
<1>1. SeedTypes /\ TypeOK /\ InOrder
  BY DEF SeededInv, StartupInv
<1>2. \A p \in Starters : ~Active(p)
  BY DEF Active
<1>3. ~Excused /\ \A p \in Starters, f \in DOMAIN Chunks : ~HandledBy(p, f)
  BY <1>2 DEF Excused, HandledBy
<1>4. ~Untouched
  BY <1>1, MigrationsAssumption DEF Untouched, TypeOK
<1>5. ASSUME NEW f \in DOMAIN Chunks, Chunks[f] # <<>> PROVE KB!Indexed(f)
  <2>1. ~Missing(f)
    BY <1>1, <1>3, <1>4 DEF InOrder, NobodyMissing
  <2>2. PICK d \in documents : d.file = f /\ Complete(d)
    BY <1>5, <2>1 DEF Missing
  <2>3. QED
    BY <1>1, <2>2, CompleteIsIndexed
<1>6. ASSUME NEW d \in documents, NEW e \in documents, d.file = e.file PROVE d = e
  BY <1>1, <1>6 DEF InOrder, Keyed
<1>7. QED
  BY <1>5, <1>6 DEF KB!Whole, KB!FileIds

\* As soon as no program seeds any more, and the last run of none was broken off, the
\* base holds every file, whole and once, however many programs seed at once, delete each
\* other's documents and stop each other.
THEOREM SeededAlways ==
  ASSUME DistinctSlugs
  PROVE  StartupSpec => []SeededIsWhole
<1>1. SeededInv /\ [StartupNext]_<<vars, base, torn>> => SeededInv'
  BY SeededInvStep
<1>2. SeededInv => SeededIsWhole
  BY SeededInvSuffices
<1>3. QED
  BY <1>1, <1>2, SeededInvInit, PTL DEF StartupSpec

(***************************************************************************)
(* Chunks: what holds of a reading after each line of a text.              *)
(***************************************************************************)

\* A set of numbers that is not empty has a first.
LEMMA First ==
  ASSUME NEW T \in SUBSET Nat, T # {}
  PROVE  \E n \in T : \A m \in T : n <= m
<1>1. PICK R : R = OpToRel(<, Nat)
  BY Zenon
<1>2. IsWellFoundedOn(R, Nat)
  BY <1>1, NatLessThanWellFounded, Zenon
<1>3. PICK n \in T : \A m \in T : <<m, n>> \notin R
  BY <1>2, WFMin
<1>4. \A m, k \in Nat : m < k => <<m, k>> \in R
  BY <1>1 DEF OpToRel
<1>5. ASSUME NEW m \in T PROVE n <= m
  <2>1. m \in Nat /\ n \in Nat
    OBVIOUS
  <2>2. ~(m < n)
    BY <1>3, <1>4, <2>1, Zenon
  <2> QED
    BY <2>1, <2>2
<1> QED
  BY <1>5

\* What holds at first and is kept from each number to the next holds of all.
LEMMA FromFirstToLast ==
  ASSUME NEW n \in Nat, NEW T, 0 \in T, \A i \in 1 .. n : i - 1 \in T => i \in T
  PROVE  \A i \in 0 .. n : i \in T
<1> SUFFICES ASSUME NEW k \in 0 .. n, k \notin T PROVE FALSE
  OBVIOUS
<1> DEFINE U == {i \in 0 .. n : i \notin T}
<1>1. U \in SUBSET Nat /\ U # {}
  OBVIOUS
<1> HIDE DEF U
<1>2. PICK i \in U : \A j \in U : i <= j
  BY <1>1, First
<1>3. i \in 0 .. n /\ i # 0 /\ i \notin T
  BY DEF U
<1>4. i \in 1 .. n /\ i - 1 \in 0 .. n /\ ~(i <= i - 1)
  BY <1>3
<1>5. i - 1 \in T
  BY <1>2, <1>4 DEF U
<1> QED
  BY <1>3, <1>4, <1>5

\* The loop over the lines is a function of the number of lines.
LEMMA LoopExists ==
  ASSUME NEW text, NEW n \in Nat
  PROVE  \E f : f = [i \in 0 .. n |-> IF i = 0 THEN Unread ELSE ReadLine(f[i - 1], text[i])]
<1> DEFINE Goes(f, k) == f = [i \in 0 .. k |-> IF i = 0 THEN Unread ELSE ReadLine(f[i - 1], text[i])]
<1> DEFINE T == {k \in 0 .. n : \E f : Goes(f, k)}
<1>1. 0 \in T
  <2>1. Goes([i \in 0 .. 0 |-> Unread], 0)
    OBVIOUS
  <2> HIDE DEF Goes
  <2> QED
    BY <2>1
<1>2. ASSUME NEW k \in 1 .. n, k - 1 \in T PROVE k \in T
  <2>1. PICK g : Goes(g, k - 1)
    BY <1>2
  <2> DEFINE h == [i \in 0 .. k |-> IF i = k THEN ReadLine(g[k - 1], text[k]) ELSE g[i]]
  <2>2. ASSUME NEW i \in 0 .. k
        PROVE  h[i] = IF i = 0 THEN Unread ELSE ReadLine(h[i - 1], text[i])
    <3>1. i # 0 => h[i - 1] = g[i - 1]
      OBVIOUS
    <3>2. i # k => i \in 0 .. k - 1 /\ h[i] = g[i]
      OBVIOUS
    <3>3. h[k] = ReadLine(g[k - 1], text[k])
      OBVIOUS
    <3> HIDE DEF h
    <3> QED
      BY <2>1, <3>1, <3>2, <3>3
  <2>3. h = [i \in 0 .. k |-> h[i]]
    OBVIOUS
  <2>4. Goes(h, k)
    <3> HIDE DEF h
    <3> QED
      BY <2>2, <2>3
  <2> HIDE DEF Goes, h
  <2> QED
    BY <2>4
<1>3. n \in T
  <2> HIDE DEF T
  <2>1. \A k \in 0 .. n : k \in T
    BY <1>1, <1>2, FromFirstToLast
  <2> QED
    BY <2>1
<1> QED
  BY <1>3

LEMMA LinesAreRead ==
  ASSUME NEW text, NEW n \in Nat
  PROVE  /\ ReadLines(text, 0) = Unread
         /\ \A i \in 1 .. n : ReadLines(text, i) = ReadLine(ReadLines(text, i - 1), text[i])
<1> DEFINE Goes(f, k) == f = [i \in 0 .. k |-> IF i = 0 THEN Unread ELSE ReadLine(f[i - 1], text[i])]
<1>1. PICK g : Goes(g, n)
  BY LoopExists
<1>2. /\ g[0] = Unread
      /\ \A i \in 1 .. n : g[i] = ReadLine(g[i - 1], text[i])
  BY <1>1
<1>3. ASSUME NEW k \in 0 .. n PROVE ReadLines(text, k) = g[k]
  <2>1. PICK f : f = (CHOOSE e : Goes(e, k))
    OBVIOUS
  <2>2. ReadLines(text, k) = f[k]
    BY <2>1, Zenon DEF ReadLines
  <2>3. \E e : Goes(e, k)
    <3>1. k \in Nat
      OBVIOUS
    <3> QED
      BY <3>1, LoopExists
  <2>4. Goes(f, k)
    <3> HIDE DEF Goes
    <3> QED
      BY <2>1, <2>3
  <2>5. f[0] = Unread /\ \A i \in 1 .. k : f[i] = ReadLine(f[i - 1], text[i])
    BY <2>4
  <2> DEFINE T == {i \in 0 .. k : f[i] = g[i]}
  <2>6. 0 \in T /\ \A i \in 1 .. k : i - 1 \in T => i \in T
    <3> HIDE DEF Goes
    <3> QED
      BY <1>2, <2>5
  <2> HIDE DEF T
  <2>7. k \in T
    BY <2>6, FromFirstToLast
  <2> QED
    BY <2>2, <2>7 DEF T
<1>4. ReadLines(text, 0) = g[0]
  BY <1>3
<1>5. ASSUME NEW i \in 1 .. n PROVE ReadLines(text, i) = ReadLine(ReadLines(text, i - 1), text[i])
  <2> HIDE DEF Goes
  <2>1. i \in 0 .. n /\ i - 1 \in 0 .. n
    OBVIOUS
  <2>2. ReadLines(text, i) = g[i] /\ ReadLines(text, i - 1) = g[i - 1]
    BY <1>3, <2>1
  <2>3. g[i] = ReadLine(g[i - 1], text[i])
    BY <1>2
  <2> QED
    BY <2>2, <2>3, Zenon
<1> QED
  BY <1>2, <1>4, <1>5

\* Chunks that are cut from a line: so many that the rest is short enough, and longer
\* than what overlaps.
LEMMA StrideRange ==
  ASSUME NEW line
  PROVE  /\ overlap \in Nat /\ Stride(line) \in Nat \ {0} /\ MaxChunk \in Nat
         /\ Stride(line) + overlap = MaxChunk
  BY StartupAssumption DEF ChunkerAssumption, overlap, Stride

LEMMA OverlapRange == MaxChunk \in Nat \ {0} /\ overlap \in Nat
  BY StartupAssumption DEF ChunkerAssumption, overlap

LEMMA CutsRange ==
  ASSUME NEW line \in TextLines
  PROVE  /\ Cuts(line) \in Nat
         /\ Cuts(line) * Stride(line) \in Nat /\ Cuts(line) * Stride(line) <= line.len
         /\ line.len - Cuts(line) * Stride(line) <= MaxChunk
         /\ Cuts(line) # 0 => line.len - Cuts(line) * Stride(line) > 0
<1>1. PICK s \in Nat \ {0} : s = Stride(line)
  BY StrideRange
<1>2. line.len \in Nat /\ MaxChunk \in Nat /\ s <= MaxChunk
  BY <1>1, StrideRange DEF TextLines
<1>3. CASE line.len <= MaxChunk
  <2>1. Cuts(line) = 0
    BY <1>3 DEF Cuts
  <2> QED
    BY <1>1, <1>2, <1>3, <2>1
<1>4. CASE ~(line.len <= MaxChunk)
  <2> DEFINE a == line.len - MaxChunk + s - 1
  <2>1. a \in Nat /\ Cuts(line) = a \div s
    BY <1>1, <1>2, <1>4 DEF Cuts
  <2>2. PICK c : c = a \div s
    OBVIOUS
  <2>3. c \in Int /\ s * c <= a /\ a < s * c + s
    <3> HIDE DEF a
    <3> QED
      BY <2>1, <2>2
  <2>4. c >= 0
    <3>1. SUFFICES ASSUME c <= -1 PROVE FALSE
      BY <2>3
    <3>2. s * c <= -s
      BY <2>3, <3>1
    <3> HIDE DEF a
    <3> QED
      BY <2>1, <2>3, <3>2
  <2>5. s * c = c * s /\ c * s \in Nat
    BY <2>3, <2>4
  <2>6. PICK m \in Nat : m = c * s
    BY <2>5
  <2>7. m <= line.len - MaxChunk + s - 1 /\ line.len - MaxChunk + s - 1 < m + s
    BY <2>3, <2>5, <2>6
  <2>8. m <= line.len /\ line.len - m <= MaxChunk /\ line.len - m > 0
    BY <1>2, <2>7
  <2> QED
    BY <1>1, <2>1, <2>2, <2>3, <2>4, <2>6, <2>8
<1> QED
  BY <1>3, <1>4

Stretches == [from : Nat, to : Nat]

\* What a reading holds.
Readings == [chunks : Seq(Stretches), cur : Stretches, curLen : Nat, at : Nat, ink : SUBSET Nat]

Bound == MaxChunk + overlap + 1

\* Of what was gathered.
CurSound(r, begin) ==
  /\ r.cur.from <= r.cur.to /\ Length(r.cur) <= r.curLen /\ Length(r.cur) <= Bound
  /\ r.curLen > 0 => r.cur.to + 1 = begin

\* Of the chunks.
ChunksSound(r, begin) ==
  /\ \A i, j \in DOMAIN r.chunks : i < j => r.chunks[i].from < r.chunks[j].from
  /\ \A i \in DOMAIN r.chunks :
       /\ r.chunks[i].from < begin /\ Length(r.chunks[i]) <= Bound
       /\ r.curLen > 0 => r.chunks[i].from < r.cur.from

\* Position p is in a chunk.
Chunked(r, p) == \E i \in DOMAIN r.chunks : p \in Positions(r.chunks[i])

\* A chunk begins at position h.
Begun(r, h) == \E i \in DOMAIN r.chunks : r.chunks[i].from = h

\* The text before position begin was read, and headings begin at H.
Sound(r, begin, H) ==
  /\ r \in Readings
  /\ CurSound(r, begin) /\ ChunksSound(r, begin)
  /\ \A p \in r.ink : p < begin => p \in Positions(r.cur) \/ Chunked(r, p)
  /\ \A h \in H : \/ h = r.cur.from /\ h \in Positions(r.cur) /\ h \in r.ink
                  \/ Begun(r, h)

\* A chunk more at the end.
LEMMA ChunkAdded ==
  ASSUME NEW pieces \in Seq(Stretches), NEW chunk \in Stretches
  PROVE  LET more == Append(pieces, chunk) IN
         /\ more \in Seq(Stretches) /\ DOMAIN more = 1 .. Len(pieces) + 1
         /\ Len(pieces) \in Nat /\ DOMAIN pieces = 1 .. Len(pieces)
         /\ more[Len(pieces) + 1] = chunk
         /\ \A i \in DOMAIN pieces : i \in DOMAIN more /\ more[i] = pieces[i]
         /\ \A i \in DOMAIN more : i = Len(pieces) + 1 \/ i \in DOMAIN pieces
  OBVIOUS

\* What was gathered is put among the chunks, and s, an end of it, kept.
LEMMA Flushed ==
  ASSUME NEW begin \in Nat, NEW H, NEW r, Sound(r, begin, H), NEW s \in Readings,
         s.chunks = Flush(r).chunks, s.ink = r.ink, s.at = r.at,
         \/ s.cur = Stretch(0, 0) /\ s.curLen = 0
         \/ /\ r.cur.from < s.cur.from /\ s.cur.from <= s.cur.to /\ s.cur.to = r.cur.to
            /\ s.curLen = Length(s.cur) /\ r.curLen > 0
  PROVE  Sound(s, begin, H)
<1>1. PICK pieces \in Seq(Stretches) : pieces = r.chunks
  BY DEF Sound, Readings
<1>2. r.cur \in Stretches
  BY DEF Sound, Readings
<1>3. s.cur.from \in Nat /\ s.cur.to \in Nat /\ s.curLen \in Nat /\ s.cur \in Stretches
  BY DEF Readings, Stretches
<1>4. CurSound(s, begin)
  <2>1. Bound \in Nat
    BY StrideRange DEF Bound
  <2>2. CASE s.cur = Stretch(0, 0) /\ s.curLen = 0
    <3>1. s.cur.from = 0 /\ s.cur.to = 0
      BY <2>2 DEF Stretch
    <3> QED
      BY <2>1, <2>2, <3>1 DEF CurSound, Length
  <2>3. CASE /\ r.cur.from < s.cur.from /\ s.cur.from <= s.cur.to /\ s.cur.to = r.cur.to
             /\ s.curLen = Length(s.cur) /\ r.curLen > 0
    <3>1. r.cur.from \in Nat /\ r.cur.to \in Nat
      BY <1>2 DEF Stretches
    <3>2. r.cur.to - r.cur.from <= Bound /\ r.cur.to + 1 = begin
      BY <2>3 DEF Sound, CurSound, Length
    <3> QED
      BY <1>3, <2>1, <2>3, <3>1, <3>2 DEF CurSound, Length
  <2> QED
    BY <2>2, <2>3
<1>7. \A i \in DOMAIN pieces : pieces[i].from \in Nat
  <2>1. \A i \in DOMAIN pieces : pieces[i] \in Stretches
    OBVIOUS
  <2> QED
    BY <2>1 DEF Stretches
<1>8. r.cur.from \in Nat
  BY <1>2 DEF Stretches
<1>5. CASE Positions(r.cur) \cap r.ink = {}
  <2>1. s.chunks = pieces
    BY <1>1, <1>5 DEF Flush
  <2>2. ChunksSound(s, begin)
    <3>1. ASSUME NEW i \in DOMAIN pieces, s.curLen > 0 PROVE pieces[i].from < s.cur.from
      <4>1. r.curLen > 0 /\ r.cur.from < s.cur.from
        BY <3>1
      <4>2. pieces[i].from < r.cur.from
        BY <1>1, <4>1 DEF Sound, ChunksSound
      <4> QED
        BY <1>3, <1>7, <1>8, <4>1, <4>2
    <3> QED
      BY <1>1, <2>1, <3>1 DEF Sound, ChunksSound
  <2>3. \A p \in s.ink : p < begin => p \in Positions(s.cur) \/ Chunked(s, p)
    BY <1>1, <1>5, <2>1 DEF Sound, Chunked
  <2>4. \A h \in H : Begun(s, h)
    BY <1>1, <1>5, <2>1 DEF Sound, Begun
  <2> QED
    BY <1>4, <2>2, <2>3, <2>4 DEF Sound
<1>6. CASE Positions(r.cur) \cap r.ink # {}
  <2>1. s.chunks = Append(pieces, r.cur)
    BY <1>1, <1>6 DEF Flush
  <2> DEFINE n == Len(pieces)
  <2>2. /\ n \in Nat /\ DOMAIN pieces = 1 .. n /\ DOMAIN s.chunks = 1 .. n + 1
        /\ s.chunks[n + 1] = r.cur
        /\ \A i \in DOMAIN pieces : i \in DOMAIN s.chunks /\ s.chunks[i] = pieces[i]
        /\ \A i \in DOMAIN s.chunks : i = n + 1 \/ i \in DOMAIN pieces
    BY <1>2, <2>1, ChunkAdded
  <2> HIDE DEF n
  <2>3. r.curLen > 0 /\ r.cur.from < begin
    BY <1>2, <1>6 DEF Sound, CurSound, Readings, Positions, Length, Stretches
  <2>4. ChunksSound(s, begin)
    <3>1. \A i, j \in DOMAIN s.chunks : i < j => s.chunks[i].from < s.chunks[j].from
      BY <1>1, <2>2, <2>3 DEF Sound, ChunksSound
    <3>2. ASSUME NEW i \in DOMAIN s.chunks
          PROVE  /\ s.chunks[i].from < begin /\ Length(s.chunks[i]) <= Bound
                 /\ s.curLen > 0 => s.chunks[i].from < s.cur.from
      <4>1. CASE i = n + 1
        BY <2>2, <2>3, <4>1 DEF Sound, CurSound
      <4>2. CASE i \in DOMAIN pieces
        <5>1. /\ s.chunks[i] = r.chunks[i] /\ r.chunks[i].from < begin
              /\ Length(r.chunks[i]) <= Bound /\ r.chunks[i].from < r.cur.from
          BY <1>1, <2>2, <2>3, <4>2 DEF Sound, ChunksSound
        <5>2. r.chunks[i].from \in Nat
          BY <1>1, <1>7, <4>2
        <5> QED
          BY <1>3, <1>8, <5>1, <5>2
      <4> QED
        BY <2>2, <4>1, <4>2
    <3> QED
      BY <3>1, <3>2 DEF ChunksSound
  <2>5. ASSUME NEW p \in s.ink, p < begin PROVE Chunked(s, p)
    <3>1. n + 1 \in DOMAIN s.chunks
      BY <2>2
    <3>2. CASE p \in Positions(r.cur)
      BY <2>2, <3>1, <3>2 DEF Chunked
    <3>3. CASE Chunked(r, p)
      BY <1>1, <2>2, <3>3 DEF Chunked
    <3> QED
      BY <2>5, <3>2, <3>3 DEF Sound
  <2>6. ASSUME NEW h \in H PROVE Begun(s, h)
    <3>1. n + 1 \in DOMAIN s.chunks
      BY <2>2
    <3>2. CASE h = r.cur.from
      BY <2>2, <3>1, <3>2 DEF Begun
    <3>3. CASE Begun(r, h)
      BY <1>1, <2>2, <3>3 DEF Begun
    <3> QED
      BY <3>2, <3>3 DEF Sound
  <2> QED
    BY <1>4, <2>4, <2>5, <2>6 DEF Sound
<1> QED
  BY <1>5, <1>6

LEMMA FlushSound ==
  ASSUME NEW begin \in Nat, NEW H, NEW r, Sound(r, begin, H)
  PROVE  /\ Sound(Flush(r), begin, H)
         /\ Flush(r).cur = Stretch(0, 0) /\ Flush(r).curLen = 0
         /\ Flush(r).at = r.at /\ Flush(r).ink = r.ink
<1> DEFINE pieces == IF Positions(r.cur) \cap r.ink = {} THEN r.chunks ELSE Append(r.chunks, r.cur)
           s == [chunks |-> pieces, cur |-> Stretch(0, 0), curLen |-> 0, at |-> r.at, ink |-> r.ink]
<1>1. r \in Readings /\ r.chunks \in Seq(Stretches) /\ r.cur \in Stretches /\ r.at \in Nat
      /\ r.ink \in SUBSET Nat
  BY DEF Sound, Readings
<1>2. pieces \in Seq(Stretches)
  BY <1>1
<1>3. Stretch(0, 0) \in Stretches
  BY DEF Stretch, Stretches
<1>4. Flush(r) = s
  <2>1. Flush(r) = [r EXCEPT !.chunks = pieces, !.cur = Stretch(0, 0), !.curLen = 0]
    BY DEF Flush
  <2> HIDE DEF pieces
  <2> QED
    BY <1>1, <2>1 DEF Readings
<1> HIDE DEF pieces
<1>5. s \in Readings
  BY <1>1, <1>2, <1>3 DEF Readings
<1>6. s.chunks = Flush(r).chunks /\ s.ink = r.ink /\ s.at = r.at /\ s.cur = Stretch(0, 0) /\ s.curLen = 0
  BY <1>4
<1> HIDE DEF s
<1>7. Sound(s, begin, H)
  BY <1>5, <1>6, Flushed
<1> QED
  BY <1>4, <1>6, <1>7

LEMMA CarrySound ==
  ASSUME NEW begin \in Nat, NEW H, NEW r, Sound(r, begin, H), r.curLen > 0
  PROVE  /\ Sound(Carry(r), begin, H)
         /\ Length(Carry(r).cur) <= overlap
         /\ Carry(r).at = r.at /\ Carry(r).ink = r.ink
<1> DEFINE kept == IF Length(r.cur) > overlap THEN Stretch(r.cur.to - overlap, r.cur.to) ELSE Stretch(0, 0)
           f == Flush(r)
           s == [chunks |-> f.chunks, cur |-> kept, curLen |-> Length(kept), at |-> f.at, ink |-> f.ink]
<1>1. f \in Readings /\ f.at = r.at /\ f.ink = r.ink
  <2>1. Sound(f, begin, H) /\ f.at = r.at /\ f.ink = r.ink
    BY FlushSound
  <2> HIDE DEF f
  <2> QED
    BY <2>1 DEF Sound
<1>2. overlap \in Nat /\ r.cur.from \in Nat /\ r.cur.to \in Nat
  BY StrideRange DEF Sound, Readings, Stretches
<1>3. /\ kept \in Stretches /\ Length(kept) \in Nat /\ Length(kept) <= overlap
      /\ \/ kept = Stretch(0, 0) /\ Length(kept) = 0
         \/ /\ r.cur.from < kept.from /\ kept.from <= kept.to /\ kept.to = r.cur.to
  <2>1. CASE Length(r.cur) > overlap
    <3>1. kept = [from |-> r.cur.to - overlap, to |-> r.cur.to]
      BY <2>1 DEF Stretch
    <3>2. r.cur.to - overlap \in Nat /\ r.cur.from < r.cur.to - overlap
      BY <1>2, <2>1 DEF Length
    <3> QED
      BY <1>2, <3>1, <3>2 DEF Length, Stretches
  <2>2. CASE ~(Length(r.cur) > overlap)
    <3>1. kept = Stretch(0, 0) /\ kept = [from |-> 0, to |-> 0]
      BY <2>2 DEF Stretch
    <3> QED
      BY <1>2, <3>1 DEF Length, Stretches
  <2> QED
    BY <2>1, <2>2
<1>4. Carry(r) = s
  <2> HIDE DEF f
  <2>1. Carry(r) = [f EXCEPT !.cur = kept, !.curLen = Length(kept)]
    BY DEF Carry, f
  <2> HIDE DEF kept
  <2> QED
    BY <1>1, <2>1 DEF Readings
<1> HIDE DEF kept
<1>5. s \in Readings
  <2> HIDE DEF f
  <2> QED
    BY <1>1, <1>3 DEF Readings
<1>6. s.chunks = Flush(r).chunks /\ s.ink = r.ink /\ s.at = r.at /\ s.cur = kept /\ s.curLen = Length(kept)
  BY <1>1
<1> HIDE DEF s, f
<1>7. Sound(s, begin, H)
  BY <1>3, <1>5, <1>6, Flushed
<1> QED
  BY <1>3, <1>4, <1>6, <1>7

\* The first k chunks of a line.
LEMMA CutPlaces ==
  ASSUME NEW begin \in Nat, NEW line, NEW k \in Nat
  PROVE  /\ k * Stride(line) \in Nat
         /\ \A i \in 1 .. k :
              /\ Cut(line, begin, i) \in Stretches /\ Length(Cut(line, begin, i)) = MaxChunk
              /\ Cut(line, begin, i).from \in Nat
              /\ Cut(line, begin, i).from < begin + k * Stride(line)
              /\ begin <= Cut(line, begin, i).from
         /\ \A i, j \in 1 .. k : i < j => Cut(line, begin, i).from < Cut(line, begin, j).from
         /\ k # 0 => Cut(line, begin, 1).from = begin
         /\ \A p \in begin .. begin + k * Stride(line) - 1 :
              \E i \in 1 .. k : p \in Positions(Cut(line, begin, i))
<1>1. PICK s \in Nat \ {0} : s = Stride(line)
  BY StrideRange
<1>2. MaxChunk \in Nat /\ s <= MaxChunk
  BY <1>1, StrideRange
\* Where the i-th begins.
<1> DEFINE m(i) == (i - 1) * s
<1>3. ASSUME NEW i \in 1 .. k
      PROVE  /\ Cut(line, begin, i).from = begin + m(i)
             /\ Cut(line, begin, i).to = begin + m(i) + MaxChunk
             /\ m(i) \in Nat /\ Cut(line, begin, i) \in Stretches
  <2>1. PICK a \in Nat : a = (i - 1) * s
    OBVIOUS
  <2>2. Cut(line, begin, i) = Stretch(begin + a, begin + a + MaxChunk)
    BY <1>1, <2>1 DEF Cut
  <2>3. begin + a \in Nat /\ begin + a + MaxChunk \in Nat
    BY <1>2, <2>1
  <2> QED
    BY <2>1, <2>2, <2>3 DEF Stretch, Stretches
<1>4. ASSUME NEW i \in 1 .. k + 1, NEW j \in 1 .. k + 1, i < j PROVE m(i) + s <= m(j)
  <2>1. PICK d \in Nat : d = j - i - 1
    BY <1>4
  <2>2. m(j) = m(i) + d * s + s
    <3>1. j - 1 = (i - 1) + d + 1
      BY <2>1
    <3>2. ((i - 1) + d + 1) * s = (i - 1) * s + d * s + s
      OBVIOUS
    <3> QED
      BY <3>1, <3>2
  <2>3. d * s \in Nat /\ m(i) \in Nat
    OBVIOUS
  <2> QED
    BY <2>2, <2>3
<1>5. m(k + 1) = k * s /\ k * s \in Nat /\ m(1) = 0
  OBVIOUS
<1>6. \A p \in begin .. begin + k * s - 1 : \E i \in 1 .. k : begin + m(i) <= p /\ p < begin + m(i) + s
  <2> TAKE p \in begin .. begin + k * s - 1
  <2>1. PICK a \in Nat : a = p - begin /\ a < k * s
    BY <1>5
  <2>2. PICK q : q = a \div s
    OBVIOUS
  <2>3. q \in Int /\ s * q <= a /\ a < s * q + s
    BY <2>2
  <2>4. q >= 0
    <3>1. SUFFICES ASSUME q <= -1 PROVE FALSE
      BY <2>3
    <3>2. s * q <= -s
      BY <2>3, <3>1
    <3> QED
      BY <2>3, <3>2
  <2>5. q < k
    <3>1. SUFFICES ASSUME q >= k PROVE FALSE
      BY <2>3
    <3>2. s * q >= s * k
      BY <2>3, <3>1
    <3> QED
      BY <2>1, <2>3, <3>2
  <2>6. q + 1 \in 1 .. k /\ m(q + 1) = s * q
    BY <2>3, <2>4, <2>5
  <2>7. PICK b \in Int : b = s * q
    BY <2>3
  <2>8. begin + b <= p /\ p < begin + b + s
    BY <2>1, <2>3, <2>7
  <2> HIDE DEF m
  <2> QED
    BY <2>6, <2>7, <2>8
<1> HIDE DEF m
<1>7. ASSUME NEW i \in 1 .. k
      PROVE  /\ Length(Cut(line, begin, i)) = MaxChunk
             /\ Cut(line, begin, i).from < begin + k * s
             /\ begin <= Cut(line, begin, i).from
  <2>1. m(i) + s <= m(k + 1)
    BY <1>4
  <2> QED
    BY <1>2, <1>3, <1>5, <2>1 DEF Length
<1>8. ASSUME NEW i \in 1 .. k, NEW j \in 1 .. k, i < j
      PROVE  Cut(line, begin, i).from < Cut(line, begin, j).from
  <2>1. m(i) + s <= m(j)
    BY <1>4, <1>8
  <2> QED
    BY <1>3, <2>1
<1>9. ASSUME NEW p \in begin .. begin + k * s - 1
      PROVE  \E i \in 1 .. k : p \in Positions(Cut(line, begin, i))
  <2>1. PICK i \in 1 .. k : begin + m(i) <= p /\ p < begin + m(i) + s
    BY <1>6
  <2>2. p \in Int /\ p <= begin + m(i) + MaxChunk - 1
    BY <1>2, <1>3, <1>5, <2>1
  <2>3. p \in Positions(Cut(line, begin, i))
    BY <1>2, <1>3, <2>1, <2>2 DEF Positions
  <2> QED
    BY <2>3
<1> QED
  BY <1>1, <1>3, <1>5, <1>7, <1>8, <1>9

\* A sequence after another.
LEMMA Joined ==
  ASSUME NEW S, NEW a \in Seq(S), NEW b \in Seq(S), NEW n \in Nat, n = Len(a)
  PROVE  /\ DOMAIN a = 1 .. n /\ DOMAIN (a \o b) = 1 .. n + Len(b)
         /\ \A i \in 1 .. n : (a \o b)[i] = a[i]
         /\ \A i \in 1 .. Len(b) : (a \o b)[n + i] = b[i] /\ n + i \in DOMAIN (a \o b)
  OBVIOUS

\* Chunks that are cut from the beginning of a line: k of them.
LEMMA CutSound ==
  ASSUME NEW begin \in Nat, NEW H, NEW r, Sound(r, begin, H), r.curLen = 0,
         NEW line, NEW k \in Nat, k # 0, NEW s \in Readings,
         NEW cuts \in Seq(Stretches), Len(cuts) = k,
         \A i \in 1 .. k : cuts[i] = Cut(line, begin, i),
         s.chunks = r.chunks \o cuts, s.cur = r.cur, s.curLen = 0, s.ink = r.ink
  PROVE  Sound(s, begin + k * Stride(line), H \cup {begin})
<1>0. /\ k * Stride(line) \in Nat
      /\ \A i \in 1 .. k :
           /\ Cut(line, begin, i) \in Stretches /\ Length(Cut(line, begin, i)) = MaxChunk
           /\ Cut(line, begin, i).from \in Nat
           /\ Cut(line, begin, i).from < begin + k * Stride(line)
           /\ begin <= Cut(line, begin, i).from
      /\ \A i, j \in 1 .. k : i < j => Cut(line, begin, i).from < Cut(line, begin, j).from
      /\ Cut(line, begin, 1).from = begin
      /\ \A p \in begin .. begin + k * Stride(line) - 1 :
           \E i \in 1 .. k : p \in Positions(Cut(line, begin, i))
  BY CutPlaces, ZenonT(30)
<1>1. PICK rest \in Nat : rest = k * Stride(line)
  BY <1>0
<1>2. PICK pieces \in Seq(Stretches) : pieces = r.chunks
  BY DEF Sound, Readings
<1>3. PICK n \in Nat : n = Len(pieces)
  OBVIOUS
<1>4. /\ DOMAIN pieces = 1 .. n /\ DOMAIN s.chunks = 1 .. n + k
      /\ \A i \in 1 .. n : s.chunks[i] = pieces[i]
      /\ \A i \in 1 .. k : s.chunks[n + i] = cuts[i] /\ n + i \in DOMAIN s.chunks
  BY <1>2, <1>3, Joined
<1>5. ASSUME NEW i \in DOMAIN s.chunks PROVE i \in 1 .. n \/ \E j \in 1 .. k : i = n + j
  <2>1. CASE i > n
    <3>1. i - n \in 1 .. k /\ i = n + (i - n)
      BY <1>4, <2>1
    <3> QED
      BY <3>1
  <2> QED
    BY <1>4, <2>1
<1>6. ASSUME NEW i \in 1 .. k
      PROVE  /\ cuts[i].from \in Nat /\ begin <= cuts[i].from
             /\ cuts[i].from < begin + rest /\ Length(cuts[i]) = MaxChunk
  <2>1. cuts[i] = Cut(line, begin, i)
    OBVIOUS
  <2> QED
    BY <1>1, <2>1, <1>0
<1>7. ASSUME NEW i \in 1 .. k, NEW j \in 1 .. k, i < j PROVE cuts[i].from < cuts[j].from
  <2>1. cuts[i] = Cut(line, begin, i) /\ cuts[j] = Cut(line, begin, j)
    OBVIOUS
  <2> QED
    BY <1>7, <2>1, <1>0
<1>8. CurSound(s, begin + rest)
  BY DEF Sound, CurSound
<1>9. \A i \in 1 .. n : pieces[i].from \in Nat /\ pieces[i].from < begin /\ Length(pieces[i]) <= Bound
  <2>1. \A i \in 1 .. n : pieces[i] \in Stretches
    BY <1>4
  <2>2. \A i \in 1 .. n : pieces[i].from \in Nat
    BY <2>1 DEF Stretches
  <2> QED
    BY <1>2, <1>4, <2>2 DEF Sound, ChunksSound
<1>10. ChunksSound(s, begin + rest)
  <2>1. ASSUME NEW i \in DOMAIN s.chunks, NEW j \in DOMAIN s.chunks, i < j
        PROVE  s.chunks[i].from < s.chunks[j].from
    <3>1. CASE i \in 1 .. n /\ j \in 1 .. n
      BY <1>2, <1>4, <2>1, <3>1 DEF Sound, ChunksSound
    <3>2. CASE i \in 1 .. n /\ \E h \in 1 .. k : j = n + h
      <4>1. PICK h \in 1 .. k : j = n + h
        BY <3>2
      <4>2. s.chunks[j] = cuts[h] /\ s.chunks[i] = pieces[i]
        BY <1>4, <3>2, <4>1
      <4>3. pieces[i].from \in Nat /\ pieces[i].from < begin
        BY <1>9, <3>2
      <4>4. cuts[h].from \in Nat /\ begin <= cuts[h].from
        BY <1>6
      <4> QED
        BY <4>2, <4>3, <4>4
    <3>3. CASE (\E h \in 1 .. k : i = n + h) /\ \E h \in 1 .. k : j = n + h
      <4>1. PICK g \in 1 .. k, h \in 1 .. k : i = n + g /\ j = n + h
        BY <3>3
      <4>2. g < h
        BY <2>1, <4>1
      <4> QED
        BY <1>4, <1>7, <4>1, <4>2
    <3>4. ~(j \in 1 .. n /\ \E h \in 1 .. k : i = n + h)
      BY <2>1
    <3> QED
      BY <1>5, <3>1, <3>2, <3>3, <3>4
  <2>2. ASSUME NEW i \in DOMAIN s.chunks
        PROVE  s.chunks[i].from < begin + rest /\ Length(s.chunks[i]) <= Bound
    <3>1. CASE i \in 1 .. n
      <4>1. s.chunks[i] = pieces[i]
        BY <1>4, <3>1
      <4> QED
        BY <1>9, <3>1, <4>1
    <3>2. CASE \E h \in 1 .. k : i = n + h
      <4>1. MaxChunk \in Nat /\ MaxChunk <= Bound
        BY OverlapRange DEF Bound
      <4>2. PICK h \in 1 .. k : i = n + h
        BY <3>2
      <4>3. s.chunks[i] = cuts[h]
        BY <1>4, <4>2
      <4>4. cuts[h].from < begin + rest /\ Length(cuts[h]) = MaxChunk
        BY <1>6
      <4> QED
        BY <4>1, <4>3, <4>4
    <3> QED
      BY <1>5, <3>1, <3>2
  <2>3. ~(s.curLen > 0)
    OBVIOUS
  <2> QED
    BY <2>1, <2>2, <2>3 DEF ChunksSound
<1>11. ASSUME NEW p \in s.ink, p < begin + rest PROVE Chunked(s, p)
  <2>1. p \in Nat
    BY DEF Readings
  <2>2. CASE p < begin
    <3>1. p \notin Positions(r.cur)
      <4>1. r.cur.from \in Nat /\ r.cur.to \in Nat /\ r.cur.to - r.cur.from <= 0
        BY DEF Sound, CurSound, Length, Readings, Stretches
      <4> QED
        BY <4>1 DEF Positions
    <3>2. PICK i \in 1 .. n : p \in Positions(pieces[i])
      BY <1>2, <1>4, <2>2, <3>1 DEF Sound, Chunked
    <3>3. i \in DOMAIN s.chunks /\ s.chunks[i] = pieces[i]
      BY <1>4
    <3> QED
      BY <3>2, <3>3 DEF Chunked
  <2>3. CASE p >= begin
    <3>1. p \in begin .. begin + rest - 1
      BY <1>11, <2>1, <2>3
    <3>2. PICK i \in 1 .. k : p \in Positions(cuts[i])
      BY <1>1, <3>1, <1>0
    <3> QED
      BY <1>4, <3>2 DEF Chunked
  <2> QED
    BY <2>1, <2>2, <2>3
<1>12. ASSUME NEW h \in H PROVE \/ h = s.cur.from /\ h \in Positions(s.cur) /\ h \in s.ink
                                \/ Begun(s, h)
  <2>1. CASE Begun(r, h)
    <3>1. PICK i \in 1 .. n : pieces[i].from = h
      BY <1>2, <1>4, <2>1 DEF Begun
    <3>2. i \in DOMAIN s.chunks /\ s.chunks[i] = pieces[i]
      BY <1>4
    <3> QED
      BY <3>1, <3>2 DEF Begun
  <2> QED
    BY <2>1 DEF Sound
<1>13. Begun(s, begin)
  <2>1. 1 \in 1 .. k
    OBVIOUS
  <2>2. cuts[1] = Cut(line, begin, 1)
    BY <2>1
  <2>3. cuts[1].from = begin
    BY <2>2, <1>0
  <2> QED
    BY <1>4, <2>1, <2>3 DEF Begun
<1> QED
  BY <1>1, <1>8, <1>10, <1>11, <1>12, <1>13 DEF Sound

\* A line, or the rest of it from there, is gathered.
LEMMA LineGathered ==
  ASSUME NEW rest \in Nat, NEW H, NEW r, Sound(r, rest, H), NEW end \in Nat,
         rest <= end, end - rest <= MaxChunk, \A p \in r.ink : p < end,
         r.curLen > 0 => Length(r.cur) <= overlap \/ r.curLen + end - rest + 1 <= MaxChunk,
         NEW s \in Readings, s.chunks = r.chunks, s.ink = r.ink,
         s.cur = Stretch(IF r.curLen = 0 THEN rest ELSE r.cur.from, end),
         s.curLen = r.curLen + end - rest + 1
  PROVE  /\ Sound(s, end + 1, H)
         /\ r.curLen = 0 /\ rest < end => s.cur.from = rest /\ rest \in Positions(s.cur)
<1>1. /\ r.cur.from \in Nat /\ r.cur.to \in Nat /\ r.curLen \in Nat /\ MaxChunk \in Nat /\ overlap \in Nat
      /\ r.cur.from <= r.cur.to /\ r.cur.to - r.cur.from <= r.curLen
      /\ r.curLen > 0 => r.cur.to + 1 = rest
  BY StrideRange DEF Sound, CurSound, Length, Readings, Stretches
<1>2. PICK from \in Nat : from = IF r.curLen = 0 THEN rest ELSE r.cur.from
  BY <1>1
<1>3. s.cur.from = from /\ s.cur.to = end
  BY <1>2 DEF Stretch
<1>4. from <= end /\ from <= rest /\ s.curLen > 0 /\ s.curLen \in Nat
  BY <1>1, <1>2
<1>5. CurSound(s, end + 1)
  <2>1. end - from <= s.curLen
    BY <1>1, <1>2
  <2>2. end - from <= MaxChunk + overlap + 1
    <3>1. CASE r.curLen = 0
      BY <1>1, <1>2, <3>1
    <3>2. CASE r.curLen > 0 /\ r.curLen + end - rest + 1 <= MaxChunk
      BY <1>1, <1>2, <2>1, <3>2
    <3>3. CASE r.curLen > 0 /\ Length(r.cur) <= overlap
      BY <1>1, <1>2, <3>3 DEF Length
    <3> QED
      BY <1>1, <3>1, <3>2, <3>3
  <2> QED
    BY <1>3, <1>4, <2>1, <2>2 DEF CurSound, Length, Bound
<1>6. \A i \in DOMAIN r.chunks : r.chunks[i].from \in Nat
  <2>1. PICK pieces \in Seq(Stretches) : pieces = r.chunks
    BY DEF Sound, Readings
  <2>2. \A i \in DOMAIN pieces : pieces[i] \in Stretches
    OBVIOUS
  <2> QED
    BY <2>1, <2>2 DEF Stretches
<1>7. ChunksSound(s, end + 1)
  <2>1. ASSUME NEW i \in DOMAIN r.chunks
        PROVE  /\ r.chunks[i].from < end + 1 /\ r.chunks[i].from < from
               /\ Length(r.chunks[i]) <= Bound
    <3>1. /\ r.chunks[i].from < rest /\ Length(r.chunks[i]) <= Bound
          /\ r.curLen > 0 => r.chunks[i].from < r.cur.from
      BY DEF Sound, ChunksSound
    <3>2. r.chunks[i].from \in Nat
      BY <1>6
    <3> QED
      BY <1>1, <1>2, <3>1, <3>2
  <2> QED
    BY <1>3, <2>1 DEF Sound, ChunksSound
<1>8. ASSUME NEW p \in s.ink, p < end + 1 PROVE p \in Positions(s.cur) \/ Chunked(s, p)
  <2>1. p \in Nat /\ p < end
    BY DEF Readings
  <2>2. CASE p < rest
    <3>1. p \in Positions(r.cur) \/ Chunked(r, p)
      BY <2>2 DEF Sound
    <3>2. CASE p \in Positions(r.cur)
      <4>1. r.cur.from <= p /\ p < r.cur.to
        BY <1>1, <2>1, <3>2 DEF Positions
      <4>2. r.curLen > 0
        BY <1>1, <2>1, <4>1
      <4>3. from <= p
        BY <1>2, <4>1, <4>2
      <4> QED
        BY <1>3, <2>1, <4>3 DEF Positions
    <3> QED
      BY <3>1, <3>2 DEF Chunked
  <2>3. CASE p >= rest
    BY <1>3, <1>4, <2>1, <2>3 DEF Positions
  <2> QED
    BY <2>1, <2>2, <2>3
<1>9. ASSUME NEW h \in H PROVE \/ h = s.cur.from /\ h \in Positions(s.cur) /\ h \in s.ink
                               \/ Begun(s, h)
  <2>1. CASE h = r.cur.from /\ h \in Positions(r.cur) /\ h \in r.ink
    <3>1. r.curLen > 0
      BY <1>1, <2>1 DEF Positions
    <3>2. h = from /\ h \in Nat /\ h < end
      BY <1>1, <1>2, <2>1, <3>1
    <3> QED
      BY <1>3, <2>1, <3>2 DEF Positions
  <2>2. CASE Begun(r, h)
    BY <2>2 DEF Begun
  <2> QED
    BY <2>1, <2>2 DEF Sound
<1>10. r.curLen = 0 /\ rest < end => s.cur.from = rest /\ rest \in Positions(s.cur)
  BY <1>2, <1>3 DEF Positions
<1> QED
  BY <1>5, <1>7, <1>8, <1>9, <1>10 DEF Sound

\* The loop gets to a line: what was gathered before it is as it was.
LEMMA EnterSound ==
  ASSUME NEW H, NEW r, Sound(r, r.at, H), \A p \in r.ink : p < r.at, NEW line \in TextLines
  PROVE  LET s == Enter(r, line) IN
         /\ Sound(s, r.at, H) /\ s.chunks = r.chunks /\ s.cur = r.cur /\ s.curLen = r.curLen
         /\ s.at = r.at + line.len + 1 /\ \A p \in s.ink : p < r.at + line.len
         /\ line.kind = "blank" => s.ink = r.ink
         /\ line.kind # "blank" => r.at \in s.ink /\ line.len > 0
<1>1. r \in Readings /\ r.at \in Nat /\ r.ink \in SUBSET Nat
  BY DEF Sound, Readings
<1>2. PICK begin \in Nat, len \in Nat : begin = r.at /\ len = line.len
  BY <1>1 DEF TextLines
<1>3. PICK new \in SUBSET Nat : new = begin .. begin + len - 1
  OBVIOUS
<1>4. \A p \in new : begin <= p /\ p < begin + len
  BY <1>2, <1>3
<1>5. len > 0 => begin \in new
  BY <1>2, <1>3
<1>6. PICK ink : ink = IF line.kind = "blank" THEN r.ink ELSE r.ink \cup new
  OBVIOUS
<1>7. /\ line.kind = "blank" => ink = r.ink
      /\ line.kind # "blank" => ink = r.ink \cup new /\ len > 0
  BY <1>2, <1>6 DEF TextLines
<1>8. PICK s : s = Enter(r, line)
  OBVIOUS
<1>9. s = [r EXCEPT !.at = begin + len + 1, !.ink = ink]
  BY <1>2, <1>3, <1>6, <1>8 DEF Enter
<1>10. s = [chunks |-> r.chunks, cur |-> r.cur, curLen |-> r.curLen, at |-> begin + len + 1, ink |-> ink]
  <2> HIDE <1>6
  <2> QED
    BY <1>1, <1>9 DEF Readings
<1>11. ink \in SUBSET Nat /\ r.ink \subseteq ink /\ \A p \in ink : p \in r.ink \/ p \in new
  <2>1. ink = r.ink \/ ink = r.ink \cup new
    BY <1>7, Zenon
  <2> QED
    BY <1>1, <2>1
<1>12. \A p \in ink : p < begin + len /\ (p < begin => p \in r.ink)
  <2>1. \A p \in r.ink : p \in Nat /\ p < begin
    BY <1>1, <1>2
  <2>2. \A p \in r.ink : p < begin + len
    BY <1>2, <2>1
  <2>3. \A p \in new : p < begin + len /\ ~(p < begin)
    BY <1>4
  <2> QED
    BY <1>11, <2>1, <2>2, <2>3, Zenon
<1>13. /\ s \in Readings /\ s.chunks = r.chunks /\ s.cur = r.cur /\ s.curLen = r.curLen
       /\ s.at = begin + len + 1 /\ s.ink = ink
  <2>1. r.chunks \in Seq(Stretches) /\ r.cur \in Stretches /\ r.curLen \in Nat
    BY <1>1 DEF Readings
  <2>2. begin + len + 1 \in Nat
    BY <1>2
  <2> QED
    BY <1>10, <1>11, <2>1, <2>2 DEF Readings
<1>14. Sound(s, r.at, H)
  <2>1. CurSound(s, r.at) /\ ChunksSound(s, r.at)
    BY <1>13 DEF Sound, CurSound, ChunksSound
  <2>2. \A p \in s.ink : p < r.at => p \in Positions(s.cur) \/ Chunked(s, p)
    BY <1>2, <1>12, <1>13 DEF Sound, Chunked
  <2>3. \A h \in H : (h = s.cur.from /\ h \in Positions(s.cur) /\ h \in s.ink) \/ Begun(s, h)
    BY <1>11, <1>13 DEF Sound, Begun
  <2> QED
    BY <1>13, <2>1, <2>2, <2>3 DEF Sound
<1>15. \A p \in s.ink : p < r.at + line.len
  BY <1>2, <1>12, <1>13
<1>16. s.at = r.at + line.len + 1
  BY <1>2, <1>13
<1>17. /\ line.kind = "blank" => s.ink = r.ink
       /\ line.kind # "blank" => r.at \in s.ink /\ line.len > 0
  <2>1. line.kind # "blank" => begin \in ink
    BY <1>5, <1>7
  <2> QED
    BY <1>2, <1>7, <1>13, <2>1, Zenon
<1> QED
  BY <1>8, <1>13, <1>14, <1>15, <1>16, <1>17, Zenon

\* A heading begins anew.
LEMMA AnewFields ==
  ASSUME NEW r \in Readings, NEW line
  PROVE  /\ BeginAnew(r, line).at = r.at /\ BeginAnew(r, line).ink = r.ink
         /\ line.kind = "heading" => BeginAnew(r, line).curLen = 0
<1>1. Flush(r).at = r.at /\ Flush(r).ink = r.ink /\ Flush(r).curLen = 0
  BY DEF Flush, Readings
<1> QED
  BY <1>1, Zenon DEF BeginAnew

LEMMA AnewSound ==
  ASSUME NEW begin \in Nat, NEW H, NEW r, Sound(r, begin, H), NEW line
  PROVE  Sound(BeginAnew(r, line), begin, H)
<1>1. Sound(Flush(r), begin, H)
  BY FlushSound
<1> QED
  BY <1>1, Zenon DEF BeginAnew

\* What of the line does not fit is cut into chunks, of which the first begins where
\* the line does.
LEMMA CutUpSound ==
  ASSUME NEW begin \in Nat, NEW H, NEW r, Sound(r, begin, H), NEW line \in TextLines,
         Cuts(line) # 0
  PROVE  LET s == CutUp(r, line, begin) IN
         /\ Sound(s, begin + Cuts(line) * Stride(line), H \cup {begin})
         /\ s.at = r.at /\ s.ink = r.ink
<1>1. PICK k \in Nat : k = Cuts(line)
  BY CutsRange
<1>2. PICK f : f = Flush(r)
  OBVIOUS
<1>3. Sound(f, begin, H) /\ f.curLen = 0 /\ f.at = r.at /\ f.ink = r.ink
  BY <1>2, FlushSound
<1>4. \A i \in 1 .. k : Cut(line, begin, i) \in Stretches
  BY CutPlaces
<1>5. PICK cuts : cuts = [i \in 1 .. k |-> Cut(line, begin, i)]
  OBVIOUS
<1>6. cuts \in Seq(Stretches) /\ Len(cuts) = k /\ \A i \in 1 .. k : cuts[i] = Cut(line, begin, i)
  BY <1>4, <1>5
<1>7. /\ f \in Readings /\ f.chunks \in Seq(Stretches) /\ f.cur \in Stretches
      /\ f.at \in Nat /\ f.ink \in SUBSET Nat
  BY <1>3 DEF Sound, Readings
<1>8. f.chunks \o cuts \in Seq(Stretches)
  <2> HIDE <1>5
  <2> QED
    BY <1>6, <1>7
<1>9. PICK joined \in Seq(Stretches) : joined = f.chunks \o cuts
  BY <1>8
<1>10. PICK s : s = CutUp(r, line, begin)
  OBVIOUS
<1>11. s = [f EXCEPT !.chunks = joined]
  <2>1. s = [Flush(r) EXCEPT !.chunks = @ \o cuts]
    BY <1>1, <1>5, <1>10, Zenon DEF CutUp
  <2> HIDE <1>5
  <2> QED
    BY <1>2, <1>9, <2>1
<1> HIDE <1>5
<1>12. s = [chunks |-> joined, cur |-> f.cur, curLen |-> f.curLen, at |-> f.at, ink |-> f.ink]
  BY <1>7, <1>11 DEF Readings
<1>13. /\ s \in Readings /\ s.chunks = joined /\ s.cur = f.cur /\ s.curLen = 0
       /\ s.at = f.at /\ s.ink = f.ink
  BY <1>3, <1>7, <1>12 DEF Readings
<1>14. s.chunks = f.chunks \o cuts
  BY <1>9, <1>13
<1>15. Sound(s, begin + k * Stride(line), H \cup {begin})
  <2>1. /\ Sound(f, begin, H) /\ f.curLen = 0 /\ s \in Readings /\ k # 0
        /\ cuts \in Seq(Stretches) /\ Len(cuts) = k
        /\ \A i \in 1 .. k : cuts[i] = Cut(line, begin, i)
        /\ s.chunks = f.chunks \o cuts /\ s.cur = f.cur /\ s.curLen = 0 /\ s.ink = f.ink
    BY <1>1, <1>3, <1>6, <1>13, <1>14, Zenon
  <2> QED
    BY <2>1, CutSound
<1> QED
  BY <1>1, <1>3, <1>10, <1>13, <1>15, Zenon

\* There is room for the rest of the line: there was, or what was gathered is carried.
LEMMA RoomSound ==
  ASSUME NEW rest \in Nat, NEW H, NEW r, Sound(r, rest, H), NEW len \in Nat
  PROVE  LET s == MakeRoom(r, len) IN
         /\ Sound(s, rest, H) /\ s.at = r.at /\ s.ink = r.ink
         /\ s.curLen > 0 => Length(s.cur) <= overlap \/ s.curLen + len <= MaxChunk
         /\ r.curLen = 0 => s.curLen = 0
<1>1. r.curLen \in Nat /\ MaxChunk \in Nat
  BY StrideRange DEF Sound, Readings
<1>2. CASE r.curLen + len > MaxChunk /\ r.curLen > 0
  BY <1>2, CarrySound DEF MakeRoom
<1>3. CASE ~(r.curLen + len > MaxChunk /\ r.curLen > 0)
  <2>1. MakeRoom(r, len) = r
    BY <1>3 DEF MakeRoom
  <2> QED
    BY <1>1, <1>3, <2>1
<1> QED
  BY <1>2, <1>3

LEMMA GatherFields ==
  ASSUME NEW r \in Readings, NEW from, NEW to
  PROVE  Gather(r, from, to).at = r.at /\ Gather(r, from, to).ink = r.ink
  BY DEF Gather, Readings

\* The rest of the line is gathered, and where a heading begins a chunk does, or will.
LEMMA GatherSound ==
  ASSUME NEW rest \in Nat, NEW H, NEW r, Sound(r, rest, H), NEW end \in Nat,
         rest <= end, end - rest <= MaxChunk, \A p \in r.ink : p < end,
         r.curLen > 0 => Length(r.cur) <= overlap \/ r.curLen + (end - rest + 1) <= MaxChunk,
         NEW G, G = H \/ (G = H \cup {rest} /\ r.curLen = 0 /\ rest \in r.ink)
  PROVE  /\ Sound(Gather(r, rest, end), end + 1, G)
         /\ Gather(r, rest, end).at = r.at /\ Gather(r, rest, end).ink = r.ink
<1>1. r \in Readings /\ r.cur.from \in Nat /\ r.curLen \in Nat
  BY DEF Sound, Readings, Stretches
<1>2. PICK cur \in Stretches : cur = Stretch(IF r.curLen = 0 THEN rest ELSE r.cur.from, end)
  <2>1. (IF r.curLen = 0 THEN rest ELSE r.cur.from) \in Nat
    BY <1>1
  <2> QED
    BY <2>1 DEF Stretch, Stretches
<1>3. PICK len \in Nat : len = r.curLen + end - rest + 1
  BY <1>1
<1>4. PICK s : s = Gather(r, rest, end)
  OBVIOUS
<1>5. s = [r EXCEPT !.cur = cur, !.curLen = len]
  BY <1>2, <1>3, <1>4, Zenon DEF Gather
<1>6. s = [chunks |-> r.chunks, cur |-> cur, curLen |-> len, at |-> r.at, ink |-> r.ink]
  BY <1>1, <1>5 DEF Readings
<1>7. /\ s \in Readings /\ s.chunks = r.chunks /\ s.cur = cur /\ s.curLen = len
      /\ s.at = r.at /\ s.ink = r.ink
  BY <1>1, <1>6 DEF Readings
<1>8. /\ s.cur = Stretch(IF r.curLen = 0 THEN rest ELSE r.cur.from, end)
      /\ s.curLen = r.curLen + end - rest + 1
  BY <1>2, <1>3, <1>7, Zenon
<1>9. r.curLen > 0 => Length(r.cur) <= overlap \/ r.curLen + end - rest + 1 <= MaxChunk
  BY <1>1
<1>10. /\ Sound(s, end + 1, H)
       /\ r.curLen = 0 /\ rest < end => s.cur.from = rest /\ rest \in Positions(s.cur)
  <2> HIDE <1>2, <1>3, <1>4, <1>5, <1>6
  <2> QED
    BY <1>7, <1>8, <1>9, LineGathered
<1>11. CASE G = H
  BY <1>4, <1>7, <1>10, <1>11
<1>12. CASE G = H \cup {rest} /\ r.curLen = 0 /\ rest \in r.ink
  <2>1. s.cur.from = rest /\ rest \in Positions(s.cur) /\ rest \in s.ink
    BY <1>7, <1>10, <1>12
  <2>2. Sound(s, end + 1, G)
    BY <1>10, <1>12, <2>1 DEF Sound
  <2> QED
    BY <1>4, <1>7, <2>2, Zenon
<1> QED
  BY <1>11, <1>12

\* One round of the loop.
LEMMA ReadLineSound ==
  ASSUME NEW H, NEW r, Sound(r, r.at, H), \A p \in r.ink : p < r.at, NEW line \in TextLines
  PROVE  LET s == ReadLine(r, line) IN
         /\ Sound(s, s.at, IF line.kind = "heading" THEN H \cup {r.at} ELSE H)
         /\ \A p \in s.ink : p < s.at
<1>1. PICK begin \in Nat, len \in Nat, end \in Nat : begin = r.at /\ len = line.len /\ end = begin + len
  BY DEF Sound, Readings, TextLines
<1>2. PICK rest : rest = begin + Cuts(line) * Stride(line)
  OBVIOUS
<1>3. PICK read, headed, cut, room, s :
        /\ read = Enter(r, line) /\ headed = BeginAnew(read, line) /\ cut = CutUp(headed, line, begin)
        /\ room = MakeRoom(cut, end - rest + 1) /\ s = ReadLine(r, line)
  OBVIOUS
<1>4. s = IF line.kind = "blank" /\ r.curLen = 0 THEN read ELSE Gather(room, rest, end)
  BY <1>1, <1>2, <1>3, Zenon DEF ReadLine
<1>5. PICK G : G = IF line.kind = "heading" THEN H \cup {begin} ELSE H
  OBVIOUS
<1>6. /\ Sound(read, begin, H)
      /\ read.chunks = r.chunks /\ read.cur = r.cur /\ read.curLen = r.curLen
      /\ read.at = end + 1 /\ \A p \in read.ink : p < end
      /\ line.kind = "blank" => read.ink = r.ink
      /\ line.kind # "blank" => begin \in read.ink /\ len > 0
  <2>1. /\ Sound(read, r.at, H) /\ read.chunks = r.chunks /\ read.cur = r.cur /\ read.curLen = r.curLen
        /\ read.at = r.at + line.len + 1 /\ \A p \in read.ink : p < r.at + line.len
        /\ line.kind = "blank" => read.ink = r.ink
        /\ line.kind # "blank" => r.at \in read.ink /\ line.len > 0
    BY <1>3, EnterSound, Zenon
  <2> QED
    BY <1>1, <2>1, Zenon
<1>7. SUFFICES Sound(s, s.at, G) /\ \A p \in s.ink : p < s.at
  BY <1>1, <1>3, <1>5, Zenon
<1>8. CASE line.kind = "blank" /\ r.curLen = 0
  <2>1. s = read /\ s.at = end + 1 /\ s.ink = r.ink /\ s.curLen = 0 /\ G = H
    BY <1>4, <1>5, <1>6, <1>8
  <2>2. s \in Readings
    BY <1>6, <2>1 DEF Sound
  <2>3. \A i \in DOMAIN s.chunks : s.chunks[i].from \in Nat
    <3>1. PICK pieces \in Seq(Stretches) : pieces = s.chunks
      BY <2>2 DEF Readings
    <3>2. \A i \in DOMAIN pieces : pieces[i] \in Stretches
      OBVIOUS
    <3> QED
      BY <3>1, <3>2 DEF Stretches
  <2>4. CurSound(s, end + 1) /\ ChunksSound(s, end + 1)
    <3>1. CurSound(s, begin) /\ ChunksSound(s, begin)
      BY <1>6, <2>1 DEF Sound
    <3>2. CurSound(s, end + 1)
      BY <2>1, <3>1 DEF CurSound
    <3>3. \A i \in DOMAIN s.chunks : s.chunks[i].from < end + 1
      <4>1. \A i \in DOMAIN s.chunks : s.chunks[i].from < begin
        BY <3>1 DEF ChunksSound
      <4> QED
        BY <1>1, <2>3, <4>1
    <3> QED
      BY <3>1, <3>3, <3>2 DEF ChunksSound
  <2>5. \A p \in s.ink : p < begin /\ p < end + 1
    <3>1. s.ink \in SUBSET Nat /\ \A p \in s.ink : p < begin
      BY <1>1, <2>1, <2>2 DEF Readings
    <3> QED
      BY <1>1, <3>1
  <2>6. Sound(s, end + 1, H)
    BY <1>6, <2>1, <2>2, <2>4, <2>5 DEF Sound
  <2> QED
    BY <2>1, <2>5, <2>6
<1>9. CASE ~(line.kind = "blank" /\ r.curLen = 0)
  <2>1. /\ Sound(headed, begin, H) /\ headed.at = end + 1 /\ headed.ink = read.ink
        /\ line.kind = "heading" => headed.curLen = 0
    <3>1. Sound(read, begin, H)
      BY <1>6, Zenon
    <3>2. Sound(BeginAnew(read, line), begin, H)
      BY <3>1, AnewSound
    <3>3. /\ BeginAnew(read, line).at = read.at /\ BeginAnew(read, line).ink = read.ink
          /\ line.kind = "heading" => BeginAnew(read, line).curLen = 0
      <4>1. read \in Readings
        BY <3>1 DEF Sound
      <4> QED
        BY <4>1, AnewFields, Zenon
    <3>4. /\ Sound(BeginAnew(read, line), begin, H)
          /\ BeginAnew(read, line).at = read.at /\ BeginAnew(read, line).ink = read.ink
          /\ line.kind = "heading" => BeginAnew(read, line).curLen = 0
      BY <3>2, <3>3, Zenon
    <3> QED
      BY <1>3, <1>6, <3>4, Zenon
  <2>2. rest \in Nat /\ begin <= rest /\ rest <= end /\ end - rest <= MaxChunk
    <3>1. PICK m \in Nat : m = Cuts(line) * Stride(line)
      BY CutsRange
    <3>2. m <= line.len /\ line.len - m <= MaxChunk
      BY <3>1, CutsRange
    <3>3. rest = begin + m
      BY <1>2, <3>1
    <3> QED
      BY <1>1, <3>2, <3>3, OverlapRange
  <2>3. PICK I : I = IF Cuts(line) = 0 THEN H ELSE H \cup {begin}
    OBVIOUS
  <2>4. /\ Sound(cut, rest, I) /\ cut.at = end + 1 /\ cut.ink = read.ink
        /\ Cuts(line) = 0 /\ line.kind = "heading" => cut.curLen = 0 /\ rest = begin
    <3>1. CASE Cuts(line) = 0
      <4>1. 0 * Stride(line) = 0
        BY StrideRange
      <4>2. rest = begin
        BY <1>2, <3>1, <4>1
      <4>3. cut = headed /\ I = H
        BY <1>3, <2>3, <3>1 DEF CutUp
      <4> QED
        BY <2>1, <4>2, <4>3
    <3>2. CASE Cuts(line) # 0
      <4>1. /\ Sound(CutUp(headed, line, begin), begin + Cuts(line) * Stride(line), H \cup {begin})
            /\ CutUp(headed, line, begin).at = headed.at
            /\ CutUp(headed, line, begin).ink = headed.ink
        BY <2>1, <3>2, CutUpSound
      <4>2. I = H \cup {begin}
        BY <2>3, <3>2
      <4> QED
        BY <1>2, <1>3, <2>1, <3>2, <4>1, <4>2, Zenon
    <3> QED
      BY <3>1, <3>2
  <2>5. end - rest + 1 \in Nat
    BY <2>2
  <2>6. /\ Sound(room, rest, I) /\ room.at = end + 1 /\ room.ink = read.ink
        /\ room.curLen > 0 => Length(room.cur) <= overlap \/ room.curLen + (end - rest + 1) <= MaxChunk
        /\ Cuts(line) = 0 /\ line.kind = "heading" => room.curLen = 0 /\ rest = begin
    <3>1. PICK more \in Nat : more = end - rest + 1
      BY <2>5
    <3>2. room = MakeRoom(cut, more)
      BY <1>3, <3>1, Zenon
    <3>3. /\ Sound(room, rest, I) /\ room.at = cut.at /\ room.ink = cut.ink
          /\ room.curLen > 0 => Length(room.cur) <= overlap \/ room.curLen + more <= MaxChunk
          /\ cut.curLen = 0 => room.curLen = 0
      <4>1. Sound(cut, rest, I) /\ rest \in Nat
        BY <2>2, <2>4, Zenon
      <4>2. /\ Sound(MakeRoom(cut, more), rest, I)
            /\ MakeRoom(cut, more).at = cut.at /\ MakeRoom(cut, more).ink = cut.ink
            /\ MakeRoom(cut, more).curLen > 0 =>
                 Length(MakeRoom(cut, more).cur) <= overlap \/ MakeRoom(cut, more).curLen + more <= MaxChunk
            /\ cut.curLen = 0 => MakeRoom(cut, more).curLen = 0
        BY <4>1, RoomSound
      <4> QED
        BY <3>2, <4>2, Zenon
    <3> QED
      BY <2>4, <3>1, <3>3, Zenon
  <2>7. PICK F : F = IF line.kind = "heading" THEN I \cup {begin} ELSE I
    OBVIOUS
  <2>8. F = I \/ (F = I \cup {rest} /\ room.curLen = 0 /\ rest \in room.ink)
    <3>1. CASE line.kind = "heading" /\ Cuts(line) = 0
      <4>1. F = I \cup {begin} /\ rest = begin /\ room.curLen = 0
        BY <2>6, <2>7, <3>1
      <4>2. begin \in room.ink
        BY <1>6, <2>6, <3>1
      <4> QED
        BY <4>1, <4>2
    <3>2. CASE line.kind = "heading" /\ Cuts(line) # 0
      <4>1. F = I \cup {begin} /\ I = H \cup {begin}
        BY <2>3, <2>7, <3>2, Zenon
      <4> QED
        BY <4>1
    <3>3. CASE line.kind # "heading"
      BY <2>7, <3>3, Zenon
    <3> QED
      BY <3>1, <3>2, <3>3
  <2>9. \A p \in room.ink : p < end
    BY <1>6, <2>6, Zenon
  <2>10. s = Gather(room, rest, end)
    BY <1>4, <1>9, Zenon
  <2>11. Sound(s, end + 1, F) /\ s.at = room.at /\ s.ink = room.ink
    <3>1. /\ Sound(room, rest, I) /\ rest \in Nat /\ rest <= end /\ end - rest <= MaxChunk
          /\ room.curLen > 0 => Length(room.cur) <= overlap \/ room.curLen + (end - rest + 1) <= MaxChunk
      BY <2>2, <2>6, Zenon
    <3>2. /\ Sound(Gather(room, rest, end), end + 1, F)
          /\ Gather(room, rest, end).at = room.at /\ Gather(room, rest, end).ink = room.ink
      <4>1. Sound(Gather(room, rest, end), end + 1, F)
        BY <2>8, <2>9, <3>1, GatherSound
      <4>2. room \in Readings
        BY <3>1 DEF Sound
      <4> QED
        BY <4>1, <4>2, GatherFields, Zenon
    <3> QED
      BY <2>10, <3>2, Zenon
  <2>12. G \subseteq F
    <3>1. H \subseteq I
      BY <2>3
    <3> QED
      BY <1>5, <2>7, <3>1
  <2>13. Sound(s, end + 1, G)
    BY <2>11, <2>12 DEF Sound
  <2>14. s.at = end + 1 /\ s.ink \in SUBSET Nat /\ \A p \in s.ink : p < end
    BY <2>6, <2>9, <2>11 DEF Sound, Readings
  <2>15. \A p \in s.ink : p < s.at
    BY <2>14
  <2> QED
    BY <2>13, <2>14, <2>15, Zenon
<1> QED
  BY <1>8, <1>9

\* The headings among the first n lines.
HeadsTo(text, n) ==
  {ReadLines(text, i - 1).at : i \in {j \in 1 .. n : text[j].kind = "heading"}}

LEMMA AllSound ==
  ASSUME NEW text \in Seq(TextLines), NEW r, r = Read(text)
  PROVE  Sound(r, r.at, Headings(text)) /\ \A p \in r.ink : p < r.at
<1>1. PICK n \in Nat : n = Len(text) /\ DOMAIN text = 1 .. n
  OBVIOUS
<1>2. /\ ReadLines(text, 0) = Unread
      /\ \A i \in 1 .. n : ReadLines(text, i) = ReadLine(ReadLines(text, i - 1), text[i])
  BY LinesAreRead
<1> DEFINE Good(q, H) == Sound(q, q.at, H) /\ \A p \in q.ink : p < q.at
           T == {i \in 0 .. n : Good(ReadLines(text, i), HeadsTo(text, i))}
<1>3. 0 \in T
  <2>1. PICK u : u = [chunks |-> <<>>, cur |-> [from |-> 0, to |-> 0], curLen |-> 0, at |-> 0, ink |-> {}]
    OBVIOUS
  <2>2. u = Unread
    BY <2>1 DEF Unread, Stretch
  <2>3. HeadsTo(text, 0) = {}
    BY DEF HeadsTo
  <2>4. u \in Readings
    BY <2>1 DEF Readings, Stretches
  <2>5. CurSound(u, 0) /\ ChunksSound(u, 0)
    <3>1. Bound \in Nat
      BY StrideRange DEF Bound
    <3> QED
      BY <2>1, <3>1 DEF CurSound, ChunksSound, Length
  <2>6. Sound(u, 0, {}) /\ u.ink = {} /\ u.at = 0
    BY <2>1, <2>4, <2>5 DEF Sound
  <2>7. Good(u, {})
    BY <2>6
  <2> HIDE DEF Good
  <2>8. 0 \in 0 .. n
    OBVIOUS
  <2> QED
    BY <1>2, <2>2, <2>3, <2>7, <2>8, Zenon
<1>4. ASSUME NEW i \in 1 .. n, i - 1 \in T PROVE i \in T
  <2>1. PICK q : q = ReadLines(text, i - 1)
    OBVIOUS
  <2>2. PICK H : H = HeadsTo(text, i - 1)
    OBVIOUS
  <2>3. Sound(q, q.at, H) /\ \A p \in q.ink : p < q.at
    BY <1>4, <2>1, <2>2, Zenon
  <2>4. PICK line \in TextLines : line = text[i]
    BY <1>1
  <2>5. PICK s : s = ReadLine(q, line)
    OBVIOUS
  <2>6. s = ReadLines(text, i)
    BY <1>2, <2>1, <2>4, <2>5, Zenon
  <2>7. PICK G : G = IF line.kind = "heading" THEN H \cup {q.at} ELSE H
    OBVIOUS
  <2>8. Good(s, G)
    BY <2>3, <2>5, <2>7, ReadLineSound, Zenon
  <2>9. G = HeadsTo(text, i)
    <3>1. \A j \in 1 .. i : j = i \/ j \in 1 .. i - 1
      OBVIOUS
    <3>2. 1 .. i - 1 \subseteq 1 .. i /\ i \in 1 .. i
      OBVIOUS
    <3>3. CASE line.kind = "heading"
      <4>1. G = H \cup {q.at}
        BY <2>7, <3>3
      <4> QED
        BY <2>1, <2>2, <2>4, <3>1, <3>2, <3>3, <4>1, Zenon DEF HeadsTo
    <3>4. CASE line.kind # "heading"
      <4>1. G = H
        BY <2>7, <3>4
      <4> QED
        BY <2>1, <2>2, <2>4, <3>1, <3>2, <3>4, <4>1, Zenon DEF HeadsTo
    <3> QED
      BY <3>3, <3>4
  <2>10. i \in 0 .. n
    OBVIOUS
  <2> HIDE DEF Good
  <2> QED
    BY <2>6, <2>8, <2>9, <2>10, Zenon
<1>5. n \in T
  <2> HIDE DEF T
  <2>1. \A i \in 0 .. n : i \in T
    BY <1>3, <1>4, FromFirstToLast
  <2> QED
    BY <2>1
<1>6. HeadsTo(text, n) = Headings(text)
  BY <1>1, Zenon DEF HeadsTo, Headings
<1>7. Read(text) = ReadLines(text, n)
  BY <1>1 DEF Read
<1> QED
  BY <1>5, <1>6, <1>7, Zenon

LEMMA FilesAreFaithful ==
  ASSUME NEW text \in Seq(TextLines)
  PROVE  Faithful(text, chunkText(text))
<1>1. PICK r : r = Read(text)
  OBVIOUS
<1>2. PICK H : H = Headings(text)
  OBVIOUS
<1>3. Sound(r, r.at, H) /\ \A p \in r.ink : p < r.at
  BY <1>1, <1>2, AllSound, Zenon
<1>4. PICK f : f = Flush(r)
  OBVIOUS
<1>5. r.at \in Nat
  BY <1>3 DEF Sound, Readings
<1>6. Sound(f, r.at, H) /\ f.cur = Stretch(0, 0) /\ f.ink = r.ink
  BY <1>3, <1>4, <1>5, FlushSound, Zenon
<1>7. Positions(f.cur) = {}
  BY <1>6 DEF Positions, Stretch
<1>8. PICK pieces : pieces = f.chunks
  OBVIOUS
<1>9. r.ink \subseteq UNION {Positions(pieces[i]) : i \in DOMAIN pieces}
  <2>1. ASSUME NEW p \in r.ink PROVE \E i \in DOMAIN pieces : p \in Positions(pieces[i])
    BY <1>3, <1>6, <1>7, <1>8, Zenon DEF Sound, Chunked
  <2> QED
    BY <2>1
<1>10. \A i, j \in DOMAIN pieces : i < j => pieces[i].from < pieces[j].from
  BY <1>6, <1>8, Zenon DEF Sound, ChunksSound
<1>11. \A at \in H : \E i \in DOMAIN pieces : pieces[i].from = at
  BY <1>6, <1>7, <1>8, Zenon DEF Sound, Begun
<1>12. \A i \in DOMAIN pieces : Length(pieces[i]) <= MaxChunk + overlap + 1
  BY <1>6, <1>8, Zenon DEF Sound, ChunksSound, Bound
<1>13. chunkText(text) = pieces
  BY <1>1, <1>4, <1>8, Zenon DEF chunkText
<1>14. Read(text).ink \subseteq UNION {Positions(pieces[i]) : i \in DOMAIN pieces}
  BY <1>1, <1>9, Zenon
<1>15. \A at \in Headings(text) : \E i \in DOMAIN pieces : pieces[i].from = at
  BY <1>2, <1>11, Zenon
<1>16. Faithful(text, pieces)
  BY <1>10, <1>12, <1>14, <1>15, Zenon DEF Faithful
<1> QED
  BY <1>13, <1>16, Zenon

\* Whatever a text is, nothing of it is lost in its chunks, they follow it, none is too
\* long, and every heading begins one.
THEOREM ChunksAlways == StartupSpec => []ChunksAreFaithful
<1>1. ChunksAreFaithful
  <2>1. \A text \in Texts : text \in Seq(TextLines)
    BY StartupAssumption
  <2> QED
    BY <2>1, FilesAreFaithful, Zenon DEF ChunksAreFaithful
<1> QED
  BY <1>1, PTL
=============================================================================
