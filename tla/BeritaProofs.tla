---------------------------- MODULE BeritaProofs ----------------------------
(***************************************************************************)
(* Proofs about Berita: for any number of articles, authors, handlers,     *)
(* uploads and faults.                                                     *)
(***************************************************************************)
EXTENDS Berita, FiniteSetTheorems, TLAPS

\* Where a call of each operation may be.
OpsAt == [read |-> {"delete"},
          check |-> {"update", "delete", "uploadImage", "uploadContentImage",
                     "deleteContentImage"},
          store |-> {"uploadImage", "uploadContentImage"},
          remove |-> {"delete", "deleteContentImage"},
          insert |-> {"create"}, write |-> {"update", "uploadImage"},
          delete |-> {"delete"}]

\* What a call carries: the article and caller it is for, an image that is a cover of
\* its article, and files to be removed that belong to its article, or that this
\* showed when it was read.
Carries(p) ==
  LET c == call[p] IN
  /\ c.pc = "idle" => c.a = None
  /\ c.pc # "idle" => c.a \in Arts /\ c.caller \in Authors /\ c.op \in OpsAt[c.pc]
  /\ c.pc = "store" \/ c.op = "uploadContentImage" => c.image = None
  /\ c.image # None => /\ Uploaded(c.image)
                       /\ c.image.art = c.a /\ c.image.kind = "cover"
  /\ c.pc # "idle" => \A k \in c.left :
       \/ c.op = "deleteContentImage" /\ k.art = c.a
       \/ c.op = "delete" /\ (k = c.image \/ \E ref \in c.refs : ref.key = k)

\* The author of the article has been checked.
Checked(c) ==
  \/ c.pc \in {"write", "delete"}
  \/ c.pc = "store" /\ c.op = "uploadContentImage"
  \/ c.pc = "remove" /\ c.op = "deleteContentImage"

\* What a call knows of its article once this has been checked: that it was created,
\* by the caller.
Knows(p) ==
  LET c == call[p] IN
  Checked(c) => article[c.a].status # "unborn" /\ article[c.a].author = c.caller

\* An article that is being created is not there yet, and nobody else creates it.
Alone(p) ==
  call[p].pc = "insert" => /\ article[call[p].a].status = "unborn"
                           /\ \A q \in Procs \ {p} :
                                call[q].pc = "insert" => call[q].a # call[p].a

\* An article has no author before it is created.
Unwritten == \A a \in Arts : article[a].status = "unborn" => article[a].author = None

Uploads == {"uploadImage", "uploadContentImage"}

\* There is a number left for each upload in flight.
Room(a, op) == uploads[a][KindOf(op)] + Cardinality(Pending(op, a)) <= MaxUploads

Inv ==
  /\ TypeOK /\ Unwritten
  /\ \A p \in Procs : Carries(p) /\ Knows(p) /\ Alone(p)
  /\ \A a \in Arts, op \in Uploads : Room(a, op)
-----------------------------------------------------------------------------
(* Calls.                                                                  *)

\* The fields of the records that calls are made from.
LEMMA NoCallType == /\ NoCall \in Calls
                    /\ NoCall.pc = "idle" /\ NoCall.a = None /\ NoCall.refs = {}
                    /\ NoCall.image = None /\ NoCall.left = {}
BY DEF NoCall, Calls, Ops, Places, Codes

\* An answered call is idle and carries nothing.
LEMMA Answered ==
  ASSUME TypeOK, NEW p \in Procs, NEW code \in Codes, Answer(p, code)
  PROVE  /\ call' \in [Procs -> Calls]
         /\ \A q \in Procs \ {p} : call'[q] = call[q]
         /\ call'[p].pc = "idle" /\ call'[p].a = None /\ call'[p].refs = {}
         /\ call'[p].image = None /\ call'[p].left = {}
<1> DEFINE c == [NoCall EXCEPT !.op = call[p].op, !.code = code]
<1>1. call[p].op \in Ops
  BY DEF TypeOK, Calls
<1>2. c \in Calls
  BY <1>1, NoCallType DEF Calls
<1>3. c.pc = "idle" /\ c.a = None /\ c.refs = {} /\ c.image = None /\ c.left = {}
  BY NoCallType DEF Calls
<1>4. call \in [Procs -> Calls] /\ call' = [call EXCEPT ![p] = c]
  BY DEF TypeOK, Answer
<1> HIDE DEF c
<1>5. QED
  BY <1>2, <1>3, <1>4

\* What is in a call that begins.
LEMMA BegunType ==
  ASSUME NEW op \in Ops, NEW a \in Arts, NEW u \in Authors
  PROVE  /\ Begun(op, a, u) \in Calls
         /\ Begun(op, a, u).pc = Begin[op] /\ Begun(op, a, u).op = op
         /\ Begun(op, a, u).a = a /\ Begun(op, a, u).caller = u
         /\ Begun(op, a, u).refs = {} /\ Begun(op, a, u).image = None
         /\ Begun(op, a, u).left = {}
<1>1. Begin[op] \in Places
  BY DEF Begin, Ops, Places
<1>2. Begun(op, a, u) \in Calls
  BY <1>1, NoCallType DEF Begun, Calls
<1>3. QED
  BY <1>2, NoCallType DEF Begun, Calls

-----------------------------------------------------------------------------
(* What a step does to the calls of others.                                *)

\* A step of p's: the calls of others stay, uploaded is for ever, and articles keep
\* their authors.
Frame(p) ==
  /\ call' \in [Procs -> Calls]
  /\ \A q \in Procs \ {p} : call'[q] = call[q]
  /\ \A k \in Keys : Uploaded(k) => Uploaded(k)'
  /\ \A a \in Arts : article[a].status # "unborn" =>
       article'[a].status # "unborn" /\ article'[a].author = article[a].author

\* No article that another call is creating is touched, or created once more.
Spares(p) ==
  \A q \in Procs \ {p} : call[q].pc = "insert" =>
    /\ article'[call[q].a] = article[call[q].a]
    /\ call'[p].pc = "insert" => call'[p].a # call[q].a

\* What the types say of a call.
LEMMA CallType ==
  ASSUME Inv, NEW q \in Procs
  PROVE  /\ call[q] \in Calls /\ Carries(q) /\ Knows(q) /\ Alone(q)
         /\ call[q].refs \subseteq Refs
         /\ call[q].image # None => call[q].image \in Keys
BY BeritaAssumption DEF Inv, TypeOK, Calls, Refs

LEMMA Others ==
  ASSUME Inv, NEW p \in Procs, Frame(p), Spares(p), NEW q \in Procs \ {p}
  PROVE  Carries(q)' /\ Knows(q)' /\ Alone(q)'
<1>1. /\ Carries(q) /\ Knows(q) /\ Alone(q)
      /\ call[q].image # None => call[q].image \in Keys
  BY CallType
<1>2. call'[q] = call[q] /\ q \in Procs
  BY DEF Frame
<1>3. call[q].pc # "idle" => call[q].a \in Arts
  BY <1>1 DEF Carries
<1>4. Carries(q)'
  BY <1>1, <1>2 DEF Carries, Frame
<1>5. Knows(q)'
  BY <1>1, <1>2, <1>3 DEF Knows, Checked, Frame
<1>6. Alone(q)'
  BY <1>1, <1>2, <1>3 DEF Alone, Frame, Spares
<1>7. QED
  BY <1>4, <1>5, <1>6

\* The tables and files are well typed, whatever the calls are.
Tables ==
  /\ accounts \subseteq Authors
  /\ article \in [Arts -> [status : {"unborn", "live", "deleted"},
                           author : Authors \cup {None},
                           cover : Keys \cup {None}, refs : SUBSET Refs]]
  /\ files \subseteq Keys
  /\ uploads \in [Arts -> [Kinds -> 0 .. MaxUploads]]
  /\ faults \in 0 .. Faults
  /\ \A k \in files : Uploaded(k)
  /\ \A a \in Arts : article[a].cover # None =>
       /\ Uploaded(article[a].cover)
       /\ article[a].cover.art = a /\ article[a].cover.kind = "cover"
  /\ Unwritten

RoomForAll == \A a \in Arts, op \in Uploads : Room(a, op)

Own(p) == Carries(p) /\ Knows(p) /\ Alone(p)

\* It is enough to look at the call that took the step, and at the tables.
LEMMA Gather ==
  ASSUME Inv, NEW p \in Procs, Frame(p), Spares(p), Own(p)',
         Tables', RoomForAll'
  PROVE  Inv'
<1>1. TypeOK' /\ Unwritten'
  BY DEF Frame, Tables, TypeOK
<1>2. \A q \in Procs \ {p} : Carries(q)' /\ Knows(q)' /\ Alone(q)'
  BY Others
<1>3. QED
  BY <1>1, <1>2 DEF Inv, Own, RoomForAll

\* Tables and files that stay are as good as they were.
LEMMA Stay ==
  ASSUME Inv, NEW p \in Procs, call' \in [Procs -> Calls],
         \A q \in Procs \ {p} : call'[q] = call[q],
         UNCHANGED <<accounts, article, files, uploads>>,
         faults' \in 0 .. Faults
  PROVE  Tables' /\ Frame(p)
<1>1. Tables'
  BY DEF Inv, TypeOK, Tables, Unwritten, Uploaded
<1>2. Frame(p)
  BY BeritaAssumption DEF Frame, Uploaded, Inv, TypeOK
<1>3. QED
  BY <1>1, <1>2

\* How many uploads are in flight is a number.
LEMMA PendingFinite ==
  ASSUME NEW op, NEW a
  PROVE  IsFiniteSet(Pending(op, a)) /\ Cardinality(Pending(op, a)) \in Nat
BY BeritaAssumption, FS_Subset, FS_CardinalityType DEF Pending

LEMMA PendingFiniteThen ==
  ASSUME NEW op, NEW a
  PROVE  IsFiniteSet(Pending(op, a)') /\ Cardinality(Pending(op, a)') \in Nat
BY BeritaAssumption, FS_Subset, FS_CardinalityType DEF Pending

LEMMA KindOfType ==
  ASSUME NEW op
  PROVE  KindOf(op) \in Kinds
BY DEF KindOf, Kinds

\* A step that stores no file and begins no upload leaves room for all.
LEMMA RoomStays ==
  ASSUME Inv, NEW p \in Procs, \A q \in Procs \ {p} : call'[q] = call[q],
         UNCHANGED uploads,
         \/ call'[p].a \notin Arts
         \/ call'[p].op \notin Uploads
         \/ /\ call'[p].op = call[p].op /\ call'[p].a = call[p].a
            /\ call'[p].image = None => call[p].image = None
  PROVE  RoomForAll'
<1> SUFFICES ASSUME NEW a \in Arts, NEW op \in Uploads
             PROVE  Room(a, op)'
  BY DEF RoomForAll
<1>1. Pending(op, a)' \subseteq Pending(op, a)
  BY DEF Pending
<1>2. Cardinality(Pending(op, a)') <= Cardinality(Pending(op, a))
  BY <1>1, PendingFinite, FS_Subset
<1>3. uploads[a][KindOf(op)] \in Nat
  BY KindOfType DEF Inv, TypeOK
<1>4. uploads[a][KindOf(op)] + Cardinality(Pending(op, a)) <= MaxUploads
  BY DEF Inv, Room
<1>5. uploads'[a][KindOf(op)] + Cardinality(Pending(op, a)') <= MaxUploads
  BY <1>2, <1>3, <1>4, PendingFinite, PendingFiniteThen, BeritaAssumption
<1>6. QED
  BY <1>5 DEF Room

\* Articles that stay are spared, and nobody creates what another creates.
LEMMA SparesStay ==
  ASSUME NEW p \in Procs, UNCHANGED article, \A q \in Procs \ {p} : call'[q] = call[q],
         Alone(p)'
  PROVE  Spares(p)
BY DEF Alone, Spares

\* A call that is idle carries nothing and knows nothing.
LEMMA OwnIdle ==
  ASSUME NEW p \in Procs, call'[p].pc = "idle", call'[p].a = None, call'[p].refs = {},
         call'[p].image = None
  PROVE  Own(p)'
BY DEF Own, Carries, Knows, Checked, Alone

\* An answer, when only the count of faults may change with it.
LEMMA AnswerStays ==
  ASSUME Inv, NEW p \in Procs, NEW code \in Codes, Answer(p, code),
         UNCHANGED <<accounts, article, files, uploads>>,
         faults' \in 0 .. Faults
  PROVE  Inv'
<1>1. /\ call' \in [Procs -> Calls]
      /\ \A q \in Procs \ {p} : call'[q] = call[q]
      /\ call'[p].pc = "idle" /\ call'[p].a = None /\ call'[p].refs = {}
      /\ call'[p].image = None
  BY Answered DEF Inv
<1>2. Tables' /\ Frame(p)
  BY <1>1, Stay
<1>3. Own(p)' /\ Spares(p)
  BY <1>1, OwnIdle, SparesStay DEF Own
<1>4. RoomForAll'
  <2>1. call'[p].a \notin Arts
    BY <1>1, BeritaAssumption
  <2>2. QED
    BY <1>1, <2>1, RoomStays
<1>5. QED
  BY <1>2, <1>3, <1>4, Gather

-----------------------------------------------------------------------------
(* Calls that come in.                                                     *)

\* What a call may be when it comes in.
Arriving(c) ==
  /\ c.pc \in {"insert", "check", "read", "store"} /\ c.op \in OpsAt[c.pc]
  /\ c.a \in Arts /\ c.caller \in Authors /\ c.image = None
  /\ c.op = "delete" => c.pc = "read"
  /\ c.pc = "store" => c.op = "uploadImage"
  /\ \A k \in c.left : c.op = "deleteContentImage" /\ k.art = c.a
  /\ c.pc = "insert" => /\ article[c.a].status = "unborn"
                        /\ \A q \in Procs : call[q].pc = "insert" => call[q].a # c.a

\* A call that comes in, but for the room it takes.
LEMMA EnterKeeps ==
  ASSUME Inv, NEW p \in Procs, NEW c \in Calls, Enter(p, c), Arriving(c), RoomForAll'
  PROVE  Inv'
<1>1. /\ call' \in [Procs -> Calls] /\ call'[p] = c
      /\ \A q \in Procs \ {p} : call'[q] = call[q]
      /\ UNCHANGED <<accounts, article, files, uploads, faults>>
  BY DEF Inv, TypeOK, Enter, store
<1>2. faults' \in 0 .. Faults
  BY <1>1, BeritaAssumption DEF Inv, TypeOK
<1>3. Tables' /\ Frame(p)
  BY <1>1, <1>2, Stay
<1>4. Carries(p)'
  BY <1>1 DEF Arriving, Carries, Uploaded
<1>5. Knows(p)'
  BY <1>1 DEF Arriving, Knows, Checked
<1>6. Alone(p)'
  BY <1>1 DEF Arriving, Alone
<1>7. Spares(p)
  BY <1>1, <1>6, SparesStay
<1>8. QED
  BY <1>3, <1>4, <1>5, <1>6, <1>7, Gather DEF Own

\* Texts are sets of references once normalised.
LEMMA NormalizedText ==
  ASSUME NEW text \in Texts
  PROVE  {normalizeImageRefs(x) : x \in text} \subseteq Refs
<1> SUFFICES ASSUME NEW x \in text
             PROVE  normalizeImageRefs(x) \in Refs
  OBVIOUS
<1>1. x \in Refs
  BY DEF Texts
<1>2. CASE x.form = "signed"
  <2>1. normalizeImageRefs(x) = [x EXCEPT !.form = "key"]
    BY <1>2 DEF normalizeImageRefs
  <2>2. QED
    BY <1>1, <2>1 DEF Refs
<1>3. CASE x.form # "signed"
  BY <1>1, <1>3 DEF normalizeImageRefs
<1>4. QED
  BY <1>2, <1>3

\* Room for calls that are no uploads.
LEMMA EnterLeavesRoom ==
  ASSUME Inv, NEW p \in Procs, NEW c \in Calls, Enter(p, c), c.op \notin Uploads
  PROVE  RoomForAll'
<1>1. /\ call'[p] = c /\ \A q \in Procs \ {p} : call'[q] = call[q]
      /\ UNCHANGED uploads
  BY DEF Inv, TypeOK, Enter, store
<1>2. QED
  BY <1>1, RoomStays

LEMMA ArriveWithText ==
  ASSUME Inv, NEW p \in Procs, NEW a \in Arts, NEW u \in Authors, NEW text \in Texts,
         ArriveCreate(p, a, u, text) \/ ArriveUpdate(p, a, u, text)
  PROVE  Inv'
<1> DEFINE refs == {normalizeImageRefs(x) : x \in text}
           c(op) == [Begun(op, a, u) EXCEPT !.refs = refs]
<1>1. refs \in SUBSET Refs
  BY NormalizedText
<1> HIDE DEF refs
<1>2. ASSUME NEW op \in {"create", "update"}
      PROVE  /\ c(op) \in Calls
             /\ c(op).pc = Begin[op] /\ c(op).op = op /\ c(op).a = a /\ c(op).caller = u
             /\ c(op).left = {} /\ c(op).image = None
  <2>1. op \in Ops
    BY DEF Ops
  <2>2. c(op) \in Calls
    BY <1>1, <2>1, BegunType DEF Calls
  <2>3. QED
    BY <1>1, <2>1, <2>2, BegunType DEF Calls
<1>3. CASE ArriveCreate(p, a, u, text)
  <2>1. /\ Enter(p, c("create")) /\ article[a].status = "unborn"
        /\ \A q \in Procs : call[q].pc = "insert" => call[q].a # a
    BY <1>3 DEF ArriveCreate, refs
  <2>2. Arriving(c("create"))
    BY <1>1, <1>2, <2>1 DEF Arriving, Begin, OpsAt
  <2>3. c("create") \in Calls /\ c("create").op \notin Uploads
    BY <1>2 DEF Uploads
  <2> HIDE DEF c
  <2>4. QED
    BY <2>1, <2>2, <2>3, EnterLeavesRoom, EnterKeeps
<1>4. CASE ArriveUpdate(p, a, u, text)
  <2>1. Enter(p, c("update"))
    BY <1>4 DEF ArriveUpdate, refs
  <2>2. Arriving(c("update"))
    BY <1>1, <1>2, <2>1 DEF Arriving, Begin, OpsAt
  <2>3. c("update") \in Calls /\ c("update").op \notin Uploads
    BY <1>2 DEF Uploads
  <2> HIDE DEF c
  <2>4. QED
    BY <2>1, <2>2, <2>3, EnterLeavesRoom, EnterKeeps
<1>5. QED
  BY <1>3, <1>4

LEMMA ArriveBadKeeps ==
  ASSUME Inv, NEW p \in Procs, NEW op \in Ops, Enter(p, Refused(op))
  PROVE  Inv'
<1>1. Refused(op) \in Calls
  <2>1. 400 \in Codes
    BY DEF Codes
  <2>2. QED
    BY <2>1, NoCallType DEF Refused, Calls
<1>2. /\ Refused(op).pc = "idle" /\ Refused(op).a = None /\ Refused(op).refs = {}
      /\ Refused(op).image = None
  BY NoCallType DEF Refused, Calls
<1>3. /\ call' \in [Procs -> Calls] /\ call'[p] = Refused(op)
      /\ \A q \in Procs \ {p} : call'[q] = call[q]
      /\ UNCHANGED <<accounts, article, files, uploads, faults>>
  BY <1>1 DEF Inv, TypeOK, Enter, store
<1>4. faults' \in 0 .. Faults
  BY <1>3, BeritaAssumption DEF Inv, TypeOK
<1>5. Tables' /\ Frame(p)
  BY <1>3, <1>4, Stay
<1>6. Own(p)' /\ Spares(p)
  BY <1>2, <1>3, OwnIdle, SparesStay DEF Own
<1>7. RoomForAll'
  BY <1>2, <1>3, RoomStays, BeritaAssumption
<1>8. QED
  BY <1>5, <1>6, <1>7, Gather

LEMMA ArriveDeleteKeeps ==
  ASSUME Inv, NEW p \in Procs, NEW a \in Arts, NEW u \in Authors, ArriveDelete(p, a, u)
  PROVE  Inv'
<1>1. "delete" \in Ops /\ "delete" \notin Uploads
  BY DEF Ops, Uploads
<1> DEFINE c == Begun("delete", a, u)
<1>2. c \in Calls /\ c.op \notin Uploads
  BY <1>1, BegunType
<1>3. Enter(p, c)
  BY DEF ArriveDelete
<1>4. Arriving(c)
  BY <1>1, <1>3, BegunType DEF Arriving, Begin, OpsAt
<1> HIDE DEF c
<1>5. QED
  BY <1>2, <1>3, <1>4, EnterLeavesRoom, EnterKeeps

LEMMA ArriveDeleteContentImageKeeps ==
  ASSUME Inv, NEW p \in Procs, NEW a \in Arts, NEW u \in Authors, NEW k \in Keys,
         ArriveDeleteContentImage(p, a, u, k)
  PROVE  Inv'
<1>1. "deleteContentImage" \in Ops /\ "deleteContentImage" \notin Uploads
  BY DEF Ops, Uploads
<1>2. CASE ~isValidContentKey(a, k)
  BY <1>1, <1>2, ArriveBadKeeps DEF ArriveDeleteContentImage, Enter
<1>3. CASE isValidContentKey(a, k)
  <2> DEFINE b == Begun("deleteContentImage", a, u)
             c == [b EXCEPT !.left = {k}]
  <2>1. c \in Calls
    BY <1>1, BegunType DEF Calls
  <2>2. /\ c.pc = "check" /\ c.op = "deleteContentImage" /\ c.a = a /\ c.caller = u
        /\ c.left = {k} /\ k.art = a /\ c.image = None
    <3>1. b \in Calls /\ b.pc = "check" /\ b.op = "deleteContentImage" /\ b.a = a /\ b.caller = u
          /\ b.refs = {} /\ b.image = None
      BY <1>1, BegunType DEF Begin
    <3> HIDE DEF b
    <3>2. QED
      BY <1>3, <3>1 DEF Calls, isValidContentKey
  <2>3. Enter(p, c)
    BY <1>3 DEF ArriveDeleteContentImage
  <2> HIDE DEF c
  <2>4. Arriving(c)
    BY <2>2, <2>3 DEF Arriving, OpsAt
  <2>5. QED
    BY <1>1, <2>1, <2>2, <2>3, <2>4, EnterLeavesRoom, EnterKeeps
<1>4. QED
  BY <1>2, <1>3

\* An upload that comes in takes one of the numbers left.
LEMMA ArriveUploadKeeps ==
  ASSUME Inv, NEW p \in Procs, NEW a \in Arts, NEW u \in Authors, NEW op \in Uploads,
         ArriveUpload(p, op, a, u)
  PROVE  Inv'
<1> DEFINE c == Begun(op, a, u)
<1>1. op \in Ops
  BY DEF Ops, Uploads
<1>2. /\ c \in Calls /\ c.pc = Begin[op] /\ c.op = op /\ c.a = a /\ c.caller = u
      /\ c.left = {} /\ c.image = None
  BY <1>1, BegunType
<1>3. Enter(p, c)
  BY DEF ArriveUpload
<1> HIDE DEF c
<1>4. Arriving(c)
  BY <1>2, <1>3 DEF Arriving, Begin, OpsAt, Uploads
<1>5. /\ call'[p] = c /\ \A q \in Procs \ {p} : call'[q] = call[q]
      /\ UNCHANGED uploads
  BY <1>3 DEF Inv, TypeOK, Enter, store
<1>6. RoomForAll'
  <2> SUFFICES ASSUME NEW b \in Arts, NEW o \in Uploads
               PROVE  Room(b, o)'
    BY DEF RoomForAll
  <2>1. uploads[b][KindOf(o)] \in Nat
    BY KindOfType DEF Inv, TypeOK
  <2>2. CASE b = a /\ o = op
    <3>1. Pending(op, a)' \subseteq Pending(op, a) \cup {p}
      BY <1>5 DEF Pending
    <3>2. /\ IsFiniteSet(Pending(op, a) \cup {p})
          /\ Cardinality(Pending(op, a) \cup {p}) <= Cardinality(Pending(op, a)) + 1
      <4> DEFINE S == Pending(op, a)
      <4>1. IsFiniteSet(S) /\ Cardinality(S) \in Nat
        BY PendingFinite
      <4> HIDE DEF S
      <4>2. /\ IsFiniteSet(S \cup {p})
            /\ Cardinality(S \cup {p}) = Cardinality(S) \/ Cardinality(S \cup {p}) = Cardinality(S) + 1
        BY <4>1, FS_AddElement, Zenon
      <4>3. IsFiniteSet(S \cup {p}) /\ Cardinality(S \cup {p}) <= Cardinality(S) + 1
        BY <4>1, <4>2
      <4>4. QED
        BY <4>3 DEF S
    <3>3. /\ Cardinality(Pending(op, a) \cup {p}) \in Nat
          /\ Cardinality(Pending(op, a)') <= Cardinality(Pending(op, a) \cup {p})
      BY <3>1, <3>2, FS_Subset, FS_CardinalityType
    <3>4. uploads[a][KindOf(op)] + Cardinality(Pending(op, a)) < MaxUploads
      BY DEF ArriveUpload
    <3>5. uploads'[a][KindOf(op)] + Cardinality(Pending(op, a)') <= MaxUploads
      BY <1>5, <2>1, <2>2, <3>2, <3>3, <3>4, PendingFinite, PendingFiniteThen, BeritaAssumption
    <3>6. QED
      BY <2>2, <3>5 DEF Room
  <2>3. CASE ~(b = a /\ o = op)
    <3>1. Pending(o, b)' \subseteq Pending(o, b)
      BY <1>2, <1>5, <2>3 DEF Pending
    <3>2. Cardinality(Pending(o, b)') <= Cardinality(Pending(o, b))
      BY <3>1, PendingFinite, FS_Subset
    <3>3. uploads[b][KindOf(o)] + Cardinality(Pending(o, b)) <= MaxUploads
      BY DEF Inv, Room
    <3>4. uploads'[b][KindOf(o)] + Cardinality(Pending(o, b)') <= MaxUploads
      BY <1>5, <2>1, <3>2, <3>3, PendingFinite, PendingFiniteThen, BeritaAssumption
    <3>5. QED
      BY <3>4 DEF Room
  <2>4. QED
    BY <2>2, <2>3
<1>7. QED
  BY <1>2, <1>3, <1>4, <1>6, EnterKeeps

-----------------------------------------------------------------------------
(* The handlers.                                                           *)

\* A call that goes on: what it is for stays, and it is no upload without file that
\* was not one before.
LEMMA GoesOn ==
  ASSUME Inv, NEW p \in Procs, NEW c \in Calls, call' = [call EXCEPT ![p] = c],
         UNCHANGED <<accounts, article, files, uploads, faults>>,
         c.op = call[p].op, c.a = call[p].a,
         c.op \in Uploads /\ c.image = None => call[p].image = None,
         Own(p)'
  PROVE  Inv'
<1>1. /\ call' \in [Procs -> Calls] /\ call'[p] = c
      /\ \A q \in Procs \ {p} : call'[q] = call[q]
  BY DEF Inv, TypeOK
<1>2. faults' \in 0 .. Faults
  BY BeritaAssumption DEF Inv, TypeOK
<1>3. Tables' /\ Frame(p)
  BY <1>1, <1>2, Stay
<1>4. Spares(p) /\ RoomForAll'
  BY <1>1, SparesStay, RoomStays DEF Own
<1>5. QED
  BY <1>3, <1>4, Gather

\* An answer without a fault.
LEMMA AnswerOnly ==
  ASSUME Inv, NEW p \in Procs, NEW code \in Codes, Answer(p, code),
         UNCHANGED <<accounts, article, files, uploads, faults>>
  PROVE  Inv'
<1>1. faults' \in 0 .. Faults
  BY BeritaAssumption DEF Inv, TypeOK
<1>2. QED
  BY <1>1, AnswerStays

\* What rows of the table are made of.
LEMMA RowType ==
  ASSUME Inv, NEW a \in Arts
  PROVE  /\ article[a].refs \in SUBSET Refs /\ article[a].cover \in Keys \cup {None}
         /\ article[a].author \in Authors \cup {None}
         /\ \A ref \in article[a].refs : ref.key \in Keys
         /\ article[a].cover # None => /\ Uploaded(article[a].cover)
                                       /\ article[a].cover.art = a
                                       /\ article[a].cover.kind = "cover"
BY DEF Inv, TypeOK, Refs

LEMMA ReadKeeps ==
  ASSUME Inv, NEW p \in Procs, Read(p)
  PROVE  Inv'
<1>1. /\ call[p] \in Calls /\ Carries(p) /\ Knows(p) /\ call[p].pc = "read"
      /\ UNCHANGED <<accounts, article, files, uploads, faults>>
  BY CallType DEF Read, store
<1>2. CASE Answer(p, 404)
  BY <1>1, <1>2, AnswerOnly DEF Codes
<1>3. CASE Live(call[p].a)
           /\ call' = [call EXCEPT ![p].pc = "remove", ![p].left = Removes(call[p].a),
                                   ![p].image = article[call[p].a].cover,
                                   ![p].refs = article[call[p].a].refs]
  <2> DEFINE a == call[p].a
             c == [call[p] EXCEPT !.pc = "remove", !.left = Removes(a),
                                  !.image = article[a].cover, !.refs = article[a].refs]
  <2>1. a \in Arts /\ call[p].op = "delete" /\ call[p].caller \in Authors
    BY <1>1 DEF Carries, OpsAt
  <2>2. /\ article[a].refs \in SUBSET Refs /\ article[a].cover \in Keys \cup {None}
        /\ \A ref \in article[a].refs : ref.key \in Keys
        /\ article[a].cover # None => /\ Uploaded(article[a].cover)
                                      /\ article[a].cover.art = a
                                      /\ article[a].cover.kind = "cover"
    BY <2>1, RowType
  <2>3. Removes(a) \in SUBSET Keys
    BY <2>2 DEF Removes, extractImageKeys
  <2>4. "remove" \in Places
    BY DEF Places
  <2>5. c \in Calls
    BY <1>1, <2>2, <2>3, <2>4 DEF Calls
  <2>6. /\ c.pc = "remove" /\ c.left = Removes(a) /\ c.image = article[a].cover
        /\ c.refs = article[a].refs /\ c.op = call[p].op /\ c.a = a
        /\ c.caller = call[p].caller
    BY <1>1 DEF Calls
  <2>7. call' = [call EXCEPT ![p] = c]
    BY <1>3 DEF Inv, TypeOK
  <2>8. call'[p] = c
    BY <2>7 DEF Inv, TypeOK
  <2> HIDE DEF c
  <2>9. Carries(p)'
    <3>1. \A k \in c.left : k = c.image \/ \E ref \in c.refs : ref.key = k
      BY <2>6 DEF Removes, extractImageKeys
    <3>2. QED
      BY <1>1, <2>1, <2>2, <2>6, <2>8, <3>1 DEF Carries, OpsAt, Uploaded
  <2>10. Knows(p)' /\ Alone(p)'
    BY <1>1, <2>1, <2>6, <2>8 DEF Knows, Checked, Alone
  <2>11. c.op \notin Uploads
    BY <2>1, <2>6 DEF Uploads
  <2>12. QED
    BY <1>1, <2>5, <2>6, <2>7, <2>9, <2>10, <2>11, GoesOn DEF Own
<1>4. QED
  BY <1>2, <1>3 DEF Read

LEMMA CheckKeeps ==
  ASSUME Inv, NEW p \in Procs, Check(p)
  PROVE  Inv'
<1>1. /\ call[p] \in Calls /\ Carries(p) /\ Knows(p) /\ call[p].pc = "check"
      /\ UNCHANGED <<accounts, article, files, uploads, faults>>
  BY CallType DEF Check, store
<1>2. CASE Answer(p, 404) \/ Answer(p, 403)
  BY <1>1, <1>2, AnswerOnly DEF Codes
<1>3. CASE Live(call[p].a) /\ MayEdit(call[p]) /\ Proceed(p)
  <2> DEFINE a == call[p].a
  <2>1. /\ a \in Arts /\ call[p].caller \in Authors /\ call[p].op \in OpsAt["check"]
        /\ article[a].status # "unborn" /\ article[a].author = call[p].caller
    BY <1>1, <1>3 DEF Carries, Live, MayEdit
  <2>2. /\ article[a].refs \in SUBSET Refs /\ article[a].cover \in Keys \cup {None}
        /\ \A ref \in article[a].refs : ref.key \in Keys
        /\ article[a].cover # None => /\ Uploaded(article[a].cover)
                                      /\ article[a].cover.art = a
                                      /\ article[a].cover.kind = "cover"
    BY <2>1, RowType
  <2>3. {"write", "store", "remove", "delete"} \subseteq Places
    BY DEF Places
  <2>4. CASE call[p].op = "update"
    <3> DEFINE c == [call[p] EXCEPT !.pc = "write", !.image = article[a].cover]
    <3>1. c \in Calls
      BY <1>1, <2>2, <2>3 DEF Calls
    <3>2. /\ c.pc = "write" /\ c.image = article[a].cover /\ c.op = call[p].op /\ c.a = a
          /\ c.refs = call[p].refs /\ c.caller = call[p].caller /\ c.left = call[p].left
      BY <1>1 DEF Calls
    <3>3. call' = [call EXCEPT ![p] = c]
      BY <1>3, <2>4 DEF Proceed, Inv, TypeOK
    <3>4. call'[p] = c
      BY <3>3 DEF Inv, TypeOK
    <3> HIDE DEF c
    <3>5. Carries(p)'
      BY <1>1, <2>1, <2>2, <2>4, <3>2, <3>4 DEF Carries, OpsAt, Uploaded
    <3>6. Knows(p)' /\ Alone(p)'
      BY <1>1, <2>1, <2>4, <3>2, <3>4 DEF Knows, Checked, Alone
    <3>7. c.op \notin Uploads
      BY <2>4, <3>2 DEF Uploads
    <3>8. QED
      BY <1>1, <3>1, <3>2, <3>3, <3>5, <3>6, <3>7, GoesOn DEF Own
  <2>5. CASE call[p].op = "uploadImage"
    <3> DEFINE c == [call[p] EXCEPT !.pc = "write", !.refs = article[a].refs]
    <3>1. c \in Calls
      BY <1>1, <2>2, <2>3 DEF Calls
    <3>2. /\ c.pc = "write" /\ c.refs = article[a].refs /\ c.op = call[p].op /\ c.a = a
          /\ c.image = call[p].image /\ c.caller = call[p].caller /\ c.left = call[p].left
      BY <1>1 DEF Calls
    <3>3. call' = [call EXCEPT ![p] = c]
      BY <1>3, <2>5 DEF Proceed, Inv, TypeOK
    <3>4. call'[p] = c
      BY <3>3 DEF Inv, TypeOK
    <3> HIDE DEF c
    <3>5. Carries(p)'
      BY <1>1, <2>1, <2>2, <2>5, <3>2, <3>4 DEF Carries, OpsAt, Uploaded
    <3>6. Knows(p)' /\ Alone(p)'
      BY <1>1, <2>1, <2>5, <3>2, <3>4 DEF Knows, Checked, Alone
    <3>7. QED
      BY <1>1, <3>1, <3>2, <3>3, <3>5, <3>6, GoesOn DEF Own
  <2>6. ASSUME NEW pc \in {"store", "remove", "delete"}, Goto(p, pc),
               pc = "store" => call[p].op = "uploadContentImage",
               pc = "remove" => call[p].op = "deleteContentImage",
               pc = "delete" => call[p].op = "delete"
        PROVE  Inv'
    <3> DEFINE c == [call[p] EXCEPT !.pc = pc]
    <3>1. c \in Calls
      BY <1>1, <2>3 DEF Calls
    <3>2. /\ c.pc = pc /\ c.op = call[p].op /\ c.a = a /\ c.caller = call[p].caller
          /\ c.image = call[p].image /\ c.refs = call[p].refs /\ c.left = call[p].left
      BY <1>1 DEF Calls
    <3>3. call' = [call EXCEPT ![p] = c]
      BY <2>6 DEF Goto, Inv, TypeOK
    <3>4. call'[p] = c
      BY <3>3 DEF Inv, TypeOK
    <3> HIDE DEF c
    <3>5. Carries(p)'
      BY <1>1, <2>1, <2>6, <3>2, <3>4 DEF Carries, OpsAt, Uploaded
    <3>6. Knows(p)' /\ Alone(p)'
      BY <1>1, <2>1, <2>6, <3>2, <3>4 DEF Knows, Checked, Alone
    <3>7. QED
      BY <1>1, <3>1, <3>2, <3>3, <3>5, <3>6, GoesOn DEF Own
  <2>7. QED
    BY <1>3, <2>1, <2>4, <2>5, <2>6 DEF Proceed, OpsAt
<1>4. QED
  BY <1>2, <1>3 DEF Check

\* All files have been seen to.
LEMMA RemovedKeeps ==
  ASSUME Inv, NEW p \in Procs, Removed(p)
  PROVE  Inv'
<1>1. /\ call[p] \in Calls /\ Carries(p) /\ Knows(p)
      /\ call[p].pc = "remove" /\ call[p].left = {} /\ Goto(p, "check")
      /\ UNCHANGED <<accounts, article, files, uploads, faults>>
  BY CallType DEF Removed, store
<1> DEFINE c == [call[p] EXCEPT !.pc = "check"]
<1>2. "check" \in Places
  BY DEF Places
<1>3. c \in Calls
  BY <1>1, <1>2 DEF Calls
<1>4. /\ c.pc = "check" /\ c.op = call[p].op /\ c.a = call[p].a /\ c.caller = call[p].caller
      /\ c.image = call[p].image /\ c.refs = call[p].refs /\ c.left = {}
  BY <1>1 DEF Calls
<1>5. call' = [call EXCEPT ![p] = c]
  BY <1>1 DEF Goto, Inv, TypeOK
<1>6. call'[p] = c
  BY <1>5 DEF Inv, TypeOK
<1> HIDE DEF c
<1>7. Carries(p)'
  BY <1>1, <1>4, <1>6 DEF Carries, OpsAt, Uploaded
<1>8. Knows(p)' /\ Alone(p)'
  BY <1>1, <1>4, <1>6 DEF Knows, Checked, Alone
<1>9. QED
  BY <1>1, <1>3, <1>4, <1>5, <1>7, <1>8, GoesOn DEF Own

\* A file is removed, or its removal fails.
LEMMA RemoveKeeps ==
  ASSUME Inv, NEW p \in Procs, NEW k \in Keys, NEW removed \in BOOLEAN, Remove(p, k, removed)
  PROVE  Inv'
<1>1. /\ call[p] \in Calls /\ Carries(p) /\ Knows(p) /\ Alone(p)
      /\ call[p].pc = "remove" /\ k \in call[p].left
      /\ UNCHANGED <<accounts, article, uploads>>
  BY CallType DEF Remove
<1>2. files' \subseteq files /\ faults' \in 0 .. Faults
  BY BeritaAssumption DEF Remove, Faulty, Inv, TypeOK
<1>3. ASSUME call' \in [Procs -> Calls], \A q \in Procs \ {p} : call'[q] = call[q]
      PROVE  Tables' /\ Frame(p)
  <2>1. Tables'
    BY <1>1, <1>2 DEF Inv, TypeOK, Tables, Unwritten, Uploaded
  <2>2. Frame(p)
    BY <1>1, <1>2, <1>3, BeritaAssumption DEF Frame, Uploaded, Inv, TypeOK
  <2>3. QED
    BY <2>1, <2>2
<1>4. CASE call[p].op = "deleteContentImage"
  <2>1. PICK code \in Codes : Answer(p, code)
    BY <1>4 DEF Remove, Codes
  <2>2. /\ call' \in [Procs -> Calls]
        /\ \A q \in Procs \ {p} : call'[q] = call[q]
        /\ call'[p].pc = "idle" /\ call'[p].a = None /\ call'[p].refs = {}
        /\ call'[p].image = None
    BY <2>1, Answered DEF Inv
  <2>3. Own(p)' /\ Spares(p)
    BY <1>1, <2>2, OwnIdle, SparesStay DEF Own
  <2>4. RoomForAll'
    BY <1>1, <2>2, RoomStays, BeritaAssumption
  <2>5. QED
    BY <1>3, <2>2, <2>3, <2>4, Gather
<1>5. CASE call[p].op # "deleteContentImage"
  <2> DEFINE c == [call[p] EXCEPT !.left = @ \ {k}]
  <2>1. c \in Calls
    BY <1>1 DEF Calls
  <2>2. /\ c.pc = "remove" /\ c.op = call[p].op /\ c.a = call[p].a /\ c.caller = call[p].caller
        /\ c.image = call[p].image /\ c.refs = call[p].refs /\ c.left = call[p].left \ {k}
    BY <1>1 DEF Calls
  <2>3. call' = [call EXCEPT ![p] = c]
    BY <1>5 DEF Remove, Inv, TypeOK
  <2>4. call' \in [Procs -> Calls] /\ call'[p] = c /\ \A q \in Procs \ {p} : call'[q] = call[q]
    BY <2>1, <2>3 DEF Inv, TypeOK
  <2> HIDE DEF c
  <2>5. Carries(p)'
    BY <1>1, <2>2, <2>4 DEF Carries, OpsAt, Uploaded
  <2>6. Knows(p)' /\ Alone(p)'
    BY <1>1, <2>2, <2>4 DEF Knows, Checked, Alone
  <2>7. Spares(p) /\ RoomForAll'
    BY <1>1, <2>2, <2>4, <2>6, SparesStay, RoomStays
  <2>8. QED
    BY <1>3, <2>4, <2>5, <2>6, <2>7, Gather DEF Own
<1>6. QED
  BY <1>4, <1>5

\* What storing a file does: its key is new and there was room for it.
LEMMA StoreFileAdds ==
  ASSUME Inv, NEW p \in Procs, call[p].pc = "store",
         NEW a, a = call[p].a, NEW op, op = call[p].op, NEW k, k = NewKey(a, KindOf(op)),
         StoreFile(a, KindOf(op)),
         call' \in [Procs -> Calls], \A q \in Procs \ {p} : call'[q] = call[q],
         UNCHANGED <<accounts, article>>, faults' \in 0 .. Faults,
         p \notin Pending(op, a)',
         call'[p].a \in {None, a}, call'[p].a = None \/ call'[p].op = op
  PROVE  /\ Tables' /\ Frame(p) /\ RoomForAll'
         /\ a \in Arts /\ op \in Uploads /\ k.art = a /\ k.kind = KindOf(op)
         /\ k \in Keys /\ Uploaded(k)'
<1> DEFINE kind == KindOf(op)
<1>1. a \in Arts /\ op \in Uploads /\ call[p].image = None
  BY CallType DEF Carries, OpsAt, Uploads
<1>2. PICK n \in Nat : kind \in Kinds /\ n = uploads[a][kind]
  BY <1>1, KindOfType DEF Inv, TypeOK
<1>3. p \in Pending(op, a)
  BY <1>1 DEF Pending
<1>4. Cardinality(Pending(op, a)') <= Cardinality(Pending(op, a)) - 1
  <2> DEFINE S == Pending(op, a)
  <2>1. Pending(op, a)' \subseteq S \ {p}
    BY DEF Pending
  <2>2. IsFiniteSet(S) /\ Cardinality(S) \in Nat /\ p \in S
    BY <1>3, PendingFinite
  <2> HIDE DEF S
  <2>3. IsFiniteSet(S \ {p}) /\ Cardinality(S \ {p}) = Cardinality(S) - 1
    BY <2>2, FS_RemoveElement
  <2>4. Cardinality(Pending(op, a)') <= Cardinality(S \ {p})
    BY <2>1, <2>3, FS_Subset
  <2>5. Cardinality(Pending(op, a)') <= Cardinality(S) - 1
    BY <2>3, <2>4
  <2>6. QED
    BY <2>5 DEF S
<1>5. n + Cardinality(Pending(op, a)) <= MaxUploads
  BY <1>1, <1>2 DEF Inv, Room
<1>6. n + 1 \in 1 .. MaxUploads /\ n + 1 + Cardinality(Pending(op, a)') <= MaxUploads
  BY <1>2, <1>4, <1>5, PendingFinite, PendingFiniteThen, BeritaAssumption
<1>7. k \in Keys /\ k.art = a /\ k.kind = kind /\ k.n = n + 1
  BY <1>1, <1>2, <1>6 DEF NewKey, Keys
<1>8. uploads \in [Arts -> [Kinds -> 0 .. MaxUploads]]
  BY DEF Inv, TypeOK
<1>9. uploads' = [uploads EXCEPT ![a][kind] = n + 1] /\ files' = files \cup {k}
  BY <1>1, <1>2, <1>8 DEF StoreFile
<1>10. /\ uploads' \in [Arts -> [Kinds -> 0 .. MaxUploads]]
       /\ uploads'[a][kind] = n + 1
       /\ \A b \in Arts, j \in Kinds : ~(b = a /\ j = kind) => uploads'[b][j] = uploads[b][j]
  BY <1>1, <1>2, <1>6, <1>8, <1>9
<1>11. \A b \in Arts, j \in Kinds : uploads[b][j] \in Nat /\ uploads'[b][j] \in Nat
                                    /\ uploads[b][j] <= uploads'[b][j]
  BY <1>2, <1>8, <1>10
<1>12. \A j \in Keys : Uploaded(j) => Uploaded(j)'
  <2> SUFFICES ASSUME NEW j \in Keys, Uploaded(j) PROVE Uploaded(j)'
    OBVIOUS
  <2>1. j.art \in Arts /\ j.kind \in Kinds /\ j.n \in Nat
    BY DEF Keys
  <2>2. j.n <= uploads[j.art][j.kind]
    BY DEF Uploaded
  <2>3. QED
    BY <2>1, <2>2, <1>11 DEF Uploaded
<1>13. ~Uploaded(k) /\ Uploaded(k)'
  BY <1>2, <1>7, <1>10 DEF Uploaded
<1>14. Tables'
  <2>1. files' \subseteq Keys /\ \A j \in files' : Uploaded(j)'
    BY <1>7, <1>9, <1>12, <1>13 DEF Inv, TypeOK
  <2>2. ASSUME NEW b \in Arts
        PROVE  article'[b].cover # None =>
                 /\ Uploaded(article[b].cover)'
                 /\ article'[b].cover.art = b /\ article'[b].cover.kind = "cover"
    <3>1. article'[b].cover # None =>
            /\ article'[b].cover \in Keys /\ Uploaded(article'[b].cover)
            /\ article'[b].cover.art = b /\ article'[b].cover.kind = "cover"
      BY RowType
    <3>2. QED
      BY <1>12, <3>1
  <2>3. QED
    BY <1>10, <2>1, <2>2 DEF Tables, Unwritten, Inv, TypeOK
<1>15. Frame(p)
  BY <1>12 DEF Frame
<1>16. RoomForAll'
  <2> SUFFICES ASSUME NEW b \in Arts, NEW o \in Uploads
               PROVE  Room(b, o)'
    BY DEF RoomForAll
  <2>1. CASE b = a /\ o = op
    BY <1>6, <1>10, <2>1 DEF Room
  <2>2. CASE ~(b = a /\ o = op)
    <3>1. Pending(o, b)' \subseteq Pending(o, b)
      <4> SUFFICES ASSUME NEW q \in Pending(o, b)' PROVE q \in Pending(o, b)
        OBVIOUS
      <4>1. q \in Procs /\ call'[q].op = o /\ call'[q].a = b /\ call'[q].image = None
        BY DEF Pending
      <4>2. CASE q = p
        <5>1. call'[p].op = op /\ b = a
          BY <4>1, <4>2, BeritaAssumption
        <5>2. QED
          BY <2>2, <4>1, <4>2, <5>1
      <4>3. CASE q # p
        BY <4>1, <4>3 DEF Pending
      <4>4. QED
        BY <4>2, <4>3
    <3>2. Cardinality(Pending(o, b)') <= Cardinality(Pending(o, b))
      BY <3>1, PendingFinite, FS_Subset
    <3>3. uploads[b][KindOf(o)] + Cardinality(Pending(o, b)) <= MaxUploads
      BY DEF Inv, Room
    <3>4. KindOf(o) \in Kinds /\ ~(b = a /\ KindOf(o) = kind)
      BY <1>1, <2>2, KindOfType DEF KindOf, Uploads
    <3>5. uploads'[b][KindOf(o)] = uploads[b][KindOf(o)] /\ uploads[b][KindOf(o)] \in Nat
      BY <1>10, <1>11, <3>4
    <3>6. uploads'[b][KindOf(o)] + Cardinality(Pending(o, b)') <= MaxUploads
      BY <3>2, <3>3, <3>5, PendingFinite, PendingFiniteThen, BeritaAssumption
    <3>7. QED
      BY <3>6 DEF Room
  <2>3. QED
    BY <2>1, <2>2
<1>17. QED
  BY <1>1, <1>7, <1>13, <1>14, <1>15, <1>16

\* An image is stored.
LEMMA StoreKeeps ==
  ASSUME Inv, NEW p \in Procs, Store(p)
  PROVE  Inv'
<1>1. /\ call[p] \in Calls /\ Carries(p) /\ Knows(p) /\ Alone(p)
      /\ call[p].pc = "store" /\ UNCHANGED <<accounts, article, faults>>
      /\ call \in [Procs -> Calls]
  BY CallType DEF Store, Inv, TypeOK
<1>2. faults' \in 0 .. Faults
  BY <1>1, BeritaAssumption DEF Inv, TypeOK
<1>3. PICK a, op, k : /\ a = call[p].a /\ op = call[p].op /\ k = NewKey(a, KindOf(op))
                      /\ StoreFile(a, KindOf(op))
  BY DEF Store
<1>4. CASE op = "uploadImage"
  <2> DEFINE c == [call[p] EXCEPT !.pc = "check", !.image = k]
  <2>1. call' = [call EXCEPT ![p] = c]
    BY <1>1, <1>3, <1>4 DEF Store, KindOf
  <2>2. k \in Keys => c \in Calls
    <3>1. "check" \in Places
      BY DEF Places
    <3>2. QED
      BY <1>1, <3>1 DEF Calls
  <2>3. /\ c.pc = "check" /\ c.image = k /\ c.op = op /\ c.a = a /\ c.caller = call[p].caller
        /\ c.left = call[p].left
    BY <1>1, <1>3 DEF Calls
  <2> HIDE DEF c
  <2>4. k \in Keys
    <3>1. a \in Arts /\ op \in Uploads /\ call[p].image = None
      BY <1>1, <1>3 DEF Carries, OpsAt, Uploads
    <3>2. p \in Pending(op, a)
      BY <1>3, <3>1 DEF Pending
    <3>3. KindOf(op) \in Kinds /\ uploads[a][KindOf(op)] \in Nat
      BY <3>1, KindOfType DEF Inv, TypeOK
    <3>4. Cardinality(Pending(op, a)) \in Nat /\ Cardinality(Pending(op, a)) # 0
      BY <3>2, PendingFinite, FS_EmptySet
    <3>5. uploads[a][KindOf(op)] + Cardinality(Pending(op, a)) <= MaxUploads
      BY <3>1 DEF Inv, Room
    <3>6. uploads[a][KindOf(op)] + 1 \in 1 .. MaxUploads
      BY <3>3, <3>4, <3>5, BeritaAssumption
    <3>7. QED
      BY <1>3, <3>1, <3>3, <3>6 DEF NewKey, Keys
  <2>5. call' \in [Procs -> Calls] /\ call'[p] = c /\ \A q \in Procs \ {p} : call'[q] = call[q]
    BY <1>1, <2>1, <2>2, <2>4
  <2>6. p \notin Pending(op, a)'
    BY <2>3, <2>4, <2>5, BeritaAssumption DEF Pending
  <2>7. /\ Tables' /\ Frame(p) /\ RoomForAll'
        /\ a \in Arts /\ op \in Uploads /\ k.art = a /\ k.kind = KindOf(op) /\ Uploaded(k)'
    BY <1>1, <1>2, <1>3, <2>3, <2>5, <2>6, StoreFileAdds
  <2>8. Carries(p)'
    <3>1. call[p].caller \in Authors /\ c.left = {}
      BY <1>1, <1>3, <1>4, <2>3 DEF Carries
    <3>2. k.kind = "cover"
      BY <1>4, <2>7 DEF KindOf
    <3>3. Uploaded(call[p].image)'
      BY <2>3, <2>5, <2>7 DEF Uploaded
    <3>4. QED
      BY <1>4, <2>3, <2>5, <2>7, <3>1, <3>2, <3>3 DEF Carries, OpsAt
  <2>9. Knows(p)' /\ Alone(p)'
    BY <1>1, <1>3, <1>4, <2>3, <2>5 DEF Knows, Checked, Alone
  <2>10. Spares(p)
    BY <1>1, <2>5, <2>9, SparesStay
  <2>11. QED
    BY <2>7, <2>8, <2>9, <2>10, Gather DEF Own
<1>5. CASE op # "uploadImage"
  <2>1. Answer(p, 200) /\ 200 \in Codes
    BY <1>3, <1>5 DEF Store, Codes
  <2>2. /\ call' \in [Procs -> Calls]
        /\ \A q \in Procs \ {p} : call'[q] = call[q]
        /\ call'[p].pc = "idle" /\ call'[p].a = None /\ call'[p].refs = {}
        /\ call'[p].image = None
    BY <2>1, Answered DEF Inv
  <2>3. Own(p)' /\ Spares(p)
    BY <1>1, <2>2, OwnIdle, SparesStay DEF Own
  <2>4. p \notin Pending(op, a)'
    BY <1>1, <1>3, <2>2, BeritaAssumption DEF Pending, Carries
  <2>5. Tables' /\ Frame(p) /\ RoomForAll'
    BY <1>1, <1>2, <1>3, <2>2, <2>4, StoreFileAdds
  <2>6. QED
    BY <2>3, <2>5, Gather
<1>6. QED
  BY <1>4, <1>5

LEMMA FailToStoreKeeps ==
  ASSUME Inv, NEW p \in Procs, FailToStore(p)
  PROVE  Inv'
<1>1. /\ Carries(p) /\ call[p].pc = "store" /\ UNCHANGED <<accounts, article>>
      /\ Answer(p, 500) /\ 500 \in Codes
  BY CallType DEF FailToStore, Codes
<1>2. faults' \in 0 .. Faults
  BY BeritaAssumption DEF FailToStore, Faulty, Inv, TypeOK
<1>3. PICK a, op, k : /\ a = call[p].a /\ op = call[p].op /\ k = NewKey(a, KindOf(op))
                      /\ StoreFile(a, KindOf(op))
  BY DEF FailToStore
<1>4. /\ call' \in [Procs -> Calls]
      /\ \A q \in Procs \ {p} : call'[q] = call[q]
      /\ call'[p].pc = "idle" /\ call'[p].a = None /\ call'[p].refs = {}
      /\ call'[p].image = None
  BY <1>1, Answered DEF Inv
<1>5. Own(p)' /\ Spares(p)
  BY <1>1, <1>4, OwnIdle, SparesStay DEF Own
<1>6. p \notin Pending(op, a)'
  BY <1>1, <1>3, <1>4, BeritaAssumption DEF Pending, Carries
<1>7. Tables' /\ Frame(p) /\ RoomForAll'
  BY <1>1, <1>2, <1>3, <1>4, <1>6, StoreFileAdds
<1>8. QED
  BY <1>5, <1>7, Gather

LEMMA FailKeeps ==
  ASSUME Inv, NEW p \in Procs, Fail(p)
  PROVE  Inv'
<1>1. /\ Answer(p, 500) /\ 500 \in Codes
      /\ UNCHANGED <<accounts, article, files, uploads>>
  BY DEF Fail, Codes, store
<1>2. faults' \in 0 .. Faults
  BY BeritaAssumption DEF Fail, Faulty, Inv, TypeOK
<1>3. QED
  BY <1>1, <1>2, AnswerStays

\* A row of a well-typed article: what Insert, Write, DeleteRow and PurgeAuthor leave.
GoodRow(a, row) ==
  /\ row \in [status : {"unborn", "live", "deleted"}, author : Authors \cup {None},
              cover : Keys \cup {None}, refs : SUBSET Refs]
  /\ row.cover # None => /\ Uploaded(row.cover)
                         /\ row.cover.art = a /\ row.cover.kind = "cover"
  /\ row.status = "unborn" => row.author = None

\* Rows are good before a step.
LEMMA RowsAreGood ==
  ASSUME Inv, NEW a \in Arts
  PROVE  GoodRow(a, article[a])
BY RowType DEF GoodRow, Inv, TypeOK, Unwritten

\* A step that only writes good rows keeps the tables good.
LEMMA RowsStayGood ==
  ASSUME Inv, NEW rows, article' = rows, DOMAIN rows = Arts, rows = [a \in Arts |-> rows[a]],
         \A a \in Arts : GoodRow(a, rows[a]),
         accounts' \subseteq accounts, UNCHANGED <<files, uploads, faults>>
  PROVE  Tables'
<1>1. \A k : Uploaded(k)' <=> Uploaded(k)
  BY DEF Uploaded
<1>2. article' \in [Arts -> [status : {"unborn", "live", "deleted"},
                             author : Authors \cup {None},
                             cover : Keys \cup {None}, refs : SUBSET Refs]]
  BY DEF GoodRow
<1>3. \A a \in Arts : article'[a].cover # None =>
        /\ Uploaded(article'[a].cover)
        /\ article'[a].cover.art = a /\ article'[a].cover.kind = "cover"
  BY DEF GoodRow
<1>4. accounts' \subseteq Authors /\ files' \subseteq Keys /\ faults' \in 0 .. Faults
      /\ uploads' \in [Arts -> [Kinds -> 0 .. MaxUploads]]
      /\ \A k \in files' : Uploaded(k)'
  BY <1>1 DEF Inv, TypeOK
<1>5. QED
  BY <1>1, <1>2, <1>3, <1>4 DEF Tables, Unwritten, GoodRow

\* A call that has written a row is answered.
LEMMA WroteKeeps ==
  ASSUME Inv, NEW p \in Procs, NEW code \in Codes, Answer(p, code),
         NEW a \in Arts, NEW row, GoodRow(a, row), article' = [article EXCEPT ![a] = row],
         \A q \in Procs \ {p} : call[q].pc = "insert" => call[q].a # a,
         article[a].status # "unborn" => row.status # "unborn" /\ row.author = article[a].author,
         UNCHANGED <<accounts, files, uploads, faults>>
  PROVE  Inv'
<1>1. /\ call' \in [Procs -> Calls]
      /\ \A q \in Procs \ {p} : call'[q] = call[q]
      /\ call'[p].pc = "idle" /\ call'[p].a = None /\ call'[p].refs = {}
      /\ call'[p].image = None
  BY Answered DEF Inv
<1> DEFINE rows == [b \in Arts |-> IF b = a THEN row ELSE article[b]]
<1>2. article' = rows
  BY DEF Inv, TypeOK
<1>3. \A b \in Arts : GoodRow(b, rows[b])
  BY RowsAreGood
<1>4. Tables'
  <2>1. DOMAIN rows = Arts /\ rows = [b \in Arts |-> rows[b]]
    OBVIOUS
  <2> HIDE DEF rows
  <2>2. QED
    BY <1>2, <1>3, <2>1, RowsStayGood
<1>5. Frame(p)
  BY <1>1, <1>2, BeritaAssumption DEF Frame, Uploaded, Inv, TypeOK
<1>6. Spares(p)
  <2> SUFFICES ASSUME NEW q \in Procs \ {p}, call[q].pc = "insert"
               PROVE  article'[call[q].a] = article[call[q].a] /\ call'[p].pc # "insert"
    BY DEF Spares
  <2>1. call[q].a \in Arts /\ call[q].a # a
    BY CallType DEF Carries
  <2>2. QED
    BY <1>1, <1>2, <2>1, BeritaAssumption
<1>7. Own(p)' /\ RoomForAll'
  BY <1>1, OwnIdle, RoomStays, BeritaAssumption
<1>8. QED
  BY <1>1, <1>4, <1>5, <1>6, <1>7, Gather

\* A call that writes a row writes that of an article that nobody else is creating.
LEMMA NotBeingCreated ==
  ASSUME Inv, NEW p \in Procs, call[p].pc \in {"insert", "write", "delete"}
  PROVE  \A q \in Procs \ {p} : call[q].pc = "insert" => call[q].a # call[p].a
BY CallType DEF Alone, Knows, Checked

LEMMA InsertKeeps ==
  ASSUME Inv, NEW p \in Procs, Insert(p)
  PROVE  Inv'
<1>1. /\ Carries(p) /\ Alone(p) /\ call[p].pc = "insert" /\ call[p].refs \in SUBSET Refs
      /\ UNCHANGED <<accounts, files, uploads, faults>>
  BY CallType DEF Insert
<1>2. call[p].a \in Arts /\ call[p].caller \in Authors
  BY <1>1 DEF Carries
<1>3. CASE call[p].caller \in accounts
  <2> DEFINE row == [status |-> "live", author |-> call[p].caller, cover |-> None,
                     refs |-> call[p].refs]
  <2>1. GoodRow(call[p].a, row)
    BY <1>1, <1>2 DEF GoodRow, Carries
  <2>2. article' = [article EXCEPT ![call[p].a] = row] /\ Answer(p, 200) /\ 200 \in Codes
    BY <1>3 DEF Insert, Codes
  <2>3. article[call[p].a].status = "unborn"
    BY <1>1 DEF Alone
  <2> HIDE DEF row
  <2>4. /\ \A q \in Procs \ {p} : call[q].pc = "insert" => call[q].a # call[p].a
        /\ article[call[p].a].status # "unborn" =>
             row.status # "unborn" /\ row.author = article[call[p].a].author
    BY <1>1, <2>3, NotBeingCreated
  <2>5. QED
    BY <1>1, <1>2, <2>1, <2>2, <2>4, WroteKeeps
<1>4. CASE call[p].caller \notin accounts
  BY <1>1, <1>4, AnswerOnly DEF Insert, Codes
<1>5. QED
  BY <1>3, <1>4

LEMMA WriteKeeps ==
  ASSUME Inv, NEW p \in Procs, Write(p)
  PROVE  Inv'
<1>1. /\ call[p] \in Calls /\ Carries(p) /\ Knows(p) /\ call[p].pc = "write"
      /\ call[p].refs \in SUBSET Refs
      /\ UNCHANGED <<accounts, files, uploads, faults>>
  BY CallType DEF Write
<1>2. call[p].a \in Arts
  BY <1>1 DEF Carries
<1>3. Answer(p, 200) /\ 200 \in Codes
  BY DEF Write, Codes
<1>4. CASE Live(call[p].a)
  <2> DEFINE row == [article[call[p].a] EXCEPT !.refs = call[p].refs, !.cover = call[p].image]
  <2>1. call[p].image \in Keys \cup {None}
    BY <1>1 DEF Calls
  <2>2. article[call[p].a] \in [status : {"unborn", "live", "deleted"},
                                author : Authors \cup {None},
                                cover : Keys \cup {None}, refs : SUBSET Refs]
    BY <1>2 DEF Inv, TypeOK
  <2>3. /\ row \in [status : {"unborn", "live", "deleted"}, author : Authors \cup {None},
                    cover : Keys \cup {None}, refs : SUBSET Refs]
        /\ row.refs = call[p].refs /\ row.cover = call[p].image
        /\ row.status = article[call[p].a].status /\ row.author = article[call[p].a].author
    BY <1>1, <2>1, <2>2
  <2>4. article' = [article EXCEPT ![call[p].a] = row]
    BY <1>2, <1>4 DEF Write, Inv, TypeOK
  <2> HIDE DEF row
  <2>5. GoodRow(call[p].a, row)
    BY <1>1, <1>4, <2>3 DEF GoodRow, Carries, Live
  <2>6. article[call[p].a].status # "unborn" =>
          row.status # "unborn" /\ row.author = article[call[p].a].author
    BY <2>3
  <2>7. QED
    BY <1>1, <1>2, <1>3, <2>4, <2>5, <2>6, NotBeingCreated, WroteKeeps
<1>5. CASE ~Live(call[p].a)
  BY <1>1, <1>3, <1>5, AnswerOnly DEF Write
<1>6. QED
  BY <1>4, <1>5

\* What is left of the row of a deleted article.
LEMMA DeletedRow ==
  ASSUME Inv, NEW a \in Arts
  PROVE  /\ GoodRow(a, Deleted(a)) /\ Deleted(a).status = "deleted"
         /\ Deleted(a).author = article[a].author
<1>1. article[a] \in [status : {"unborn", "live", "deleted"}, author : Authors \cup {None},
                      cover : Keys \cup {None}, refs : SUBSET Refs]
  BY DEF Inv, TypeOK
<1>2. /\ Deleted(a) \in [status : {"unborn", "live", "deleted"}, author : Authors \cup {None},
                         cover : Keys \cup {None}, refs : SUBSET Refs]
      /\ Deleted(a).status = "deleted" /\ Deleted(a).author = article[a].author
      /\ Deleted(a).cover = None /\ Deleted(a).refs = {}
  BY <1>1 DEF Deleted
<1>3. QED
  BY <1>2 DEF GoodRow

LEMMA DeleteRowKeeps ==
  ASSUME Inv, NEW p \in Procs, DeleteRow(p)
  PROVE  Inv'
<1>1. /\ Carries(p) /\ call[p].pc = "delete" /\ Answer(p, 200) /\ 200 \in Codes
      /\ UNCHANGED <<accounts, files, uploads, faults>>
  BY CallType DEF DeleteRow, Codes
<1>2. PICK a \in Arts : a = call[p].a
  BY <1>1 DEF Carries
<1>3. PICK row : row = Deleted(a)
  OBVIOUS
<1>4. /\ GoodRow(a, row) /\ row.status = "deleted" /\ row.author = article[a].author
      /\ article' = [article EXCEPT ![a] = row]
  BY <1>2, <1>3, DeletedRow DEF DeleteRow
<1>5. QED
  BY <1>1, <1>2, <1>4, NotBeingCreated, WroteKeeps

\* The account of an author goes, and the articles with it: calls stay as they are.
LEMMA PurgeAuthorKeeps ==
  ASSUME Inv, NEW u \in Authors, PurgeAuthor(u)
  PROVE  Inv'
<1>1. /\ accounts' \subseteq accounts /\ UNCHANGED <<files, uploads, call, faults>>
      /\ article' = [a \in Arts |-> IF article[a].author = u THEN Deleted(a) ELSE article[a]]
  BY DEF PurgeAuthor
<1> DEFINE rows == [a \in Arts |-> IF article[a].author = u THEN Deleted(a) ELSE article[a]]
<1>2. \A a \in Arts : GoodRow(a, rows[a])
  BY RowsAreGood, DeletedRow
<1>3. Tables'
  <2>1. article' = rows /\ DOMAIN rows = Arts /\ rows = [a \in Arts |-> rows[a]]
    BY <1>1
  <2> HIDE DEF rows
  <2>2. QED
    BY <1>1, <1>2, <2>1, RowsStayGood
<1>4. \A a \in Arts : /\ article'[a].author = article[a].author
                      /\ article[a].status = "unborn" => article'[a].status = "unborn"
                      /\ article[a].status # "unborn" => article'[a].status # "unborn"
  BY <1>1, DeletedRow, BeritaAssumption DEF Inv, Unwritten
<1>5. ASSUME NEW p \in Procs
      PROVE  Carries(p)' /\ Knows(p)' /\ Alone(p)'
  <2>1. Carries(p) /\ Knows(p) /\ Alone(p)
    BY CallType
  <2>2. call[p].pc # "idle" => call[p].a \in Arts
    BY <2>1 DEF Carries
  <2>3. Carries(p)'
    BY <1>1, <2>1 DEF Carries, Uploaded
  <2>4. call' = call
    BY <1>1
  <2>5. Knows(p)' /\ Alone(p)'
    BY <1>4, <2>1, <2>2, <2>4 DEF Knows, Checked, Alone
  <2>6. QED
    BY <2>3, <2>5
<1>6. RoomForAll'
  BY <1>1 DEF Inv, RoomForAll, Room, Pending
<1>7. TypeOK'
  BY <1>1, <1>3 DEF Tables, TypeOK, Inv
<1>8. QED
  BY <1>3, <1>5, <1>6, <1>7 DEF Inv, RoomForAll, Tables

-----------------------------------------------------------------------------
(* The theorems.                                                           *)

LEMMA InitInv == Init => Inv
<1> SUFFICES ASSUME Init PROVE Inv
  OBVIOUS
<1>1. \A p \in Procs : call[p] = NoCall
  BY DEF Init
<1>2. \A p \in Procs : /\ call[p].pc = "idle" /\ call[p].a = None /\ call[p].refs = {}
                       /\ call[p].image = None /\ call[p].left = {}
  BY <1>1, NoCallType
<1>3. \A a \in Arts : article[a] = NoArticle
  BY DEF Init
<1>4. \A a \in Arts : article[a].cover = None /\ article[a].author = None
  BY <1>3 DEF NoArticle
<1>5. TypeOK
  <2>1. call \in [Procs -> Calls]
    BY NoCallType DEF Init
  <2>2. article \in [Arts -> [status : {"unborn", "live", "deleted"},
                             author : Authors \cup {None},
                             cover : Keys \cup {None}, refs : SUBSET Refs]]
    BY DEF Init, NoArticle
  <2>3. uploads \in [Arts -> [Kinds -> 0 .. MaxUploads]] /\ faults \in 0 .. Faults
    BY BeritaAssumption DEF Init
  <2>4. QED
    BY <1>4, <2>1, <2>2, <2>3 DEF Init, TypeOK
<1>6. Unwritten
  BY <1>4 DEF Unwritten
<1>7. \A p \in Procs : Carries(p) /\ Knows(p) /\ Alone(p)
  BY <1>2 DEF Carries, Knows, Checked, Alone
<1>8. ASSUME NEW a \in Arts, NEW op \in Uploads
      PROVE  Room(a, op)
  <2>1. Pending(op, a) = {}
    BY <1>2, BeritaAssumption DEF Pending
  <2>2. uploads[a][KindOf(op)] = 0
    BY KindOfType DEF Init
  <2>3. QED
    BY <2>1, <2>2, FS_EmptySet, BeritaAssumption DEF Room
<1>9. QED
  BY <1>5, <1>6, <1>7, <1>8 DEF Inv

LEMMA StutterKeeps == Inv /\ UNCHANGED vars => Inv'
<1> SUFFICES ASSUME Inv, UNCHANGED vars PROVE Inv'
  OBVIOUS
<1>1. TypeOK' /\ Unwritten'
  BY DEF Inv, vars, store, TypeOK, Unwritten, Uploaded
<1>2. ASSUME NEW p \in Procs
      PROVE  Carries(p)' /\ Knows(p)' /\ Alone(p)'
  BY CallType DEF vars, store, Carries, Knows, Checked, Alone, Uploaded
<1>3. ASSUME NEW a \in Arts, NEW op \in Uploads
      PROVE  Room(a, op)'
  BY DEF Inv, vars, store, Room, Pending
<1>4. QED
  BY <1>1, <1>2, <1>3 DEF Inv

LEMMA ArriveKeeps ==
  ASSUME Inv, NEW p \in Procs, Arrive(p)
  PROVE  Inv'
<1>1. CASE \E op \in Ops : ArriveBad(p, op)
  BY <1>1, ArriveBadKeeps DEF ArriveBad
<1>2. CASE \E a \in Arts, u \in Authors :
             \E text \in Texts : ArriveCreate(p, a, u, text) \/ ArriveUpdate(p, a, u, text)
  BY <1>2, ArriveWithText
<1>3. CASE \E a \in Arts, u \in Authors : ArriveDelete(p, a, u)
  BY <1>3, ArriveDeleteKeeps
<1>4. CASE \E a \in Arts, u \in Authors :
             \E op \in {"uploadImage", "uploadContentImage"} : ArriveUpload(p, op, a, u)
  BY <1>4, ArriveUploadKeeps DEF Uploads
<1>5. CASE \E a \in Arts, u \in Authors :
             \E k \in Keys : ArriveDeleteContentImage(p, a, u, k)
  BY <1>5, ArriveDeleteContentImageKeeps
<1>6. QED
  BY <1>1, <1>2, <1>3, <1>4, <1>5 DEF Arrive

LEMMA NextKeeps == Inv /\ [Next]_vars => Inv'
<1> SUFFICES ASSUME Inv, [Next]_vars PROVE Inv'
  OBVIOUS
<1>1. ASSUME NEW p \in Procs, Arrive(p) PROVE Inv'
  BY <1>1, ArriveKeeps
<1>2. ASSUME NEW p \in Procs, Handle(p) PROVE Inv'
  BY <1>2, ReadKeeps, CheckKeeps, StoreKeeps, RemovedKeeps, InsertKeeps, WriteKeeps,
     DeleteRowKeeps, RemoveKeeps, FailKeeps, FailToStoreKeeps DEF Handle
<1>3. ASSUME NEW u \in Authors, PurgeAuthor(u) PROVE Inv'
  BY <1>3, PurgeAuthorKeeps
<1>4. CASE UNCHANGED vars
  BY <1>4, StutterKeeps
<1>5. QED
  BY <1>1, <1>2, <1>3, <1>4 DEF Next

\* What holds of articles, files and calls together, in every reachable state.
THEOREM SpecInv == Spec => []Inv
<1>1. QED
  BY InitInv, NextKeeps, PTL DEF Spec

\* Every variable has its type; every file was uploaded, and the cover of an article
\* is an uploaded image of its own, whatever the calls do between check and write.
THEOREM SpecTypeOK == Spec => []TypeOK
<1>1. Inv => TypeOK
  BY DEF Inv
<1>2. QED
  BY <1>1, SpecInv, PTL

\* A live article changes only by a call of its author, or goes with the author's
\* account, whatever else changed between the check and the write.
THEOREM SpecOnlyAuthorEdits == Spec => OnlyAuthorEdits
<1> DEFINE A == \A a \in Arts : (Live(a) /\ article'[a] # article[a]) =>
                  \/ article[a].author \notin accounts'
                  \/ \E p \in Procs : /\ call[p].pc \in {"write", "delete"} /\ call'[p].pc = "idle"
                                      /\ call[p].a = a /\ call[p].caller = article[a].author
<1>1. Inv /\ [Next]_vars => A
  <2> SUFFICES ASSUME Inv, [Next]_vars, NEW a \in Arts, Live(a), article'[a] # article[a]
               PROVE  \/ article[a].author \notin accounts'
                      \/ \E p \in Procs : /\ call[p].pc \in {"write", "delete"}
                                          /\ call'[p].pc = "idle"
                                          /\ call[p].a = a /\ call[p].caller = article[a].author
    OBVIOUS
  <2>1. ASSUME NEW p \in Procs, Write(p) \/ DeleteRow(p)
        PROVE  /\ call[p].pc \in {"write", "delete"} /\ call'[p].pc = "idle"
               /\ call[p].a = a /\ call[p].caller = article[a].author
    <3>1. call[p].pc \in {"write", "delete"} /\ Answer(p, 200) /\ 200 \in Codes
      BY <2>1 DEF Write, DeleteRow, Codes
    <3>2. call'[p].pc = "idle"
      BY <3>1, Answered DEF Inv
    <3>3. call[p].a = a
      BY <2>1 DEF Write, DeleteRow, Inv, TypeOK
    <3>4. call[p].caller = article[a].author
      BY <3>1, <3>3, CallType DEF Knows, Checked
    <3>5. QED
      BY <3>1, <3>2, <3>3, <3>4
  <2>2. ASSUME NEW p \in Procs, Insert(p)
        PROVE  FALSE
    <3>1. Alone(p) /\ call[p].pc = "insert"
      BY <2>2, CallType DEF Insert
    <3>2. call[p].a = a
      BY <2>2 DEF Insert, Inv, TypeOK
    <3>3. QED
      BY <3>1, <3>2 DEF Alone, Live
  <2>3. ASSUME NEW u \in Authors, PurgeAuthor(u)
        PROVE  article[a].author \notin accounts'
    BY <2>3 DEF PurgeAuthor
  <2>4. article' = article \/ (\E p \in Procs : Insert(p) \/ Write(p) \/ DeleteRow(p))
          \/ (\E u \in Authors : PurgeAuthor(u))
    <3>1. ASSUME NEW p \in Procs, Arrive(p)
          PROVE  article' = article
      <4>1. PICK c : Enter(p, c)
        BY <3>1 DEF Arrive, ArriveBad, ArriveCreate, ArriveUpdate, ArriveDelete, ArriveUpload,
                    ArriveDeleteContentImage
      <4>2. QED
        BY <4>1 DEF Enter, store
    <3>2. ASSUME NEW p \in Procs, Handle(p)
          PROVE  article' = article \/ Insert(p) \/ Write(p) \/ DeleteRow(p)
      <4>1. CASE \E k \in Keys, removed \in BOOLEAN : Remove(p, k, removed)
        BY <4>1 DEF Remove
      <4>2. CASE Read(p) \/ Check(p) \/ Store(p) \/ Removed(p) \/ Fail(p) \/ FailToStore(p)
        BY <4>2 DEF Read, Check, Store, Removed, Fail, FailToStore, store
      <4>3. QED
        BY <3>2, <4>1, <4>2 DEF Handle
    <3>3. QED
      BY <3>1, <3>2 DEF Next, vars, store
  <2>5. QED
    BY <2>1, <2>2, <2>3, <2>4
<1>2. QED
  BY <1>1, SpecInv, PTL DEF Spec, OnlyAuthorEdits

\* The files of images for texts come and go only by calls of the author of their
\* article, or with an article that showed them when its deletion read it, however the
\* steps of other calls and the deletion of accounts fall between check and file.
THEOREM SpecOnlyAuthorKeepsImages == Spec => OnlyAuthorKeepsImages
<1> DEFINE By(p, k) ==
             /\ call'[p] # call[p]
             /\ \/ /\ call[p].op = "delete" /\ k \notin files'
                   /\ k = call[p].image \/ \E ref \in call[p].refs : ref.key = k
                \/ call[p].a = k.art /\ call[p].caller = article[k.art].author
           A == \A k \in Keys : (k.kind = "content" /\ (k \in files') # (k \in files)) =>
                  \E p \in Procs : By(p, k)
<1>1. Inv /\ [Next]_vars => A
  <2> SUFFICES ASSUME Inv, [Next]_vars, NEW k \in Keys, k.kind = "content",
                      (k \in files') # (k \in files)
               PROVE  \E p \in Procs : By(p, k)
    OBVIOUS
  <2>1. ASSUME NEW p \in Procs, Store(p) \/ FailToStore(p)
        PROVE  By(p, k)
    <3>1. /\ call[p].pc = "store" /\ Carries(p) /\ Knows(p) /\ k = NewKey(call[p].a, KindOf(call[p].op))
      BY <2>1, CallType DEF Store, FailToStore, StoreFile
    <3>2. call[p].op \in Uploads /\ call[p].a \in Arts
      BY <3>1 DEF Carries, OpsAt, Uploads
    <3>3. k.art = call[p].a /\ k.kind = KindOf(call[p].op)
      BY <3>1 DEF NewKey
    <3>4. call[p].op = "uploadContentImage"
      BY <3>2, <3>3 DEF KindOf, Uploads
    <3>5. PICK code \in Codes : Answer(p, code)
      BY <2>1, <3>4 DEF Store, FailToStore, Codes
    <3>6. call'[p].pc = "idle"
      BY <3>5, Answered DEF Inv
    <3>7. QED
      BY <3>1, <3>3, <3>4, <3>6 DEF Knows, Checked
  <2>2. ASSUME NEW p \in Procs, NEW j \in Keys, NEW removed \in BOOLEAN, Remove(p, j, removed)
        PROVE  By(p, k)
    <3>1. /\ call[p] \in Calls /\ call[p].pc = "remove" /\ Carries(p) /\ Knows(p)
          /\ j = k /\ j \in call[p].left /\ k \notin files'
      BY <2>2, CallType DEF Remove
    <3>2. call[p].op \in {"delete", "deleteContentImage"}
      BY <3>1 DEF Carries, OpsAt
    <3>3. CASE call[p].op = "deleteContentImage"
      <4>1. PICK code \in Codes : Answer(p, code)
        BY <2>2, <3>3 DEF Remove, Codes
      <4>2. call'[p].pc = "idle"
        BY <4>1, Answered DEF Inv
      <4>3. QED
        BY <3>1, <3>3, <4>2 DEF Carries, Knows, Checked
    <3>4. CASE call[p].op = "delete"
      <4>1. call'[p].left = call[p].left \ {k}
        BY <2>2, <3>1, <3>4 DEF Remove, Inv, TypeOK, Calls
      <4>2. QED
        BY <3>1, <3>4, <4>1 DEF Carries
    <3>5. QED
      BY <3>2, <3>3, <3>4
  <2>3. files' = files \/ (\E p \in Procs : Store(p) \/ FailToStore(p))
          \/ (\E p \in Procs, j \in Keys, removed \in BOOLEAN : Remove(p, j, removed))
    <3>1. ASSUME NEW p \in Procs, Arrive(p)
          PROVE  files' = files
      <4>1. PICK c : Enter(p, c)
        BY <3>1 DEF Arrive, ArriveBad, ArriveCreate, ArriveUpdate, ArriveDelete, ArriveUpload,
                    ArriveDeleteContentImage
      <4>2. QED
        BY <4>1 DEF Enter, store
    <3>2. ASSUME NEW p \in Procs,
                 Read(p) \/ Check(p) \/ Removed(p) \/ Insert(p) \/ Write(p) \/ DeleteRow(p) \/ Fail(p)
          PROVE  files' = files
      BY <3>2 DEF Read, Check, Removed, Insert, Write, DeleteRow, Fail, store
    <3>3. ASSUME NEW u \in Authors, PurgeAuthor(u)
          PROVE  files' = files
      BY <3>3 DEF PurgeAuthor
    <3>4. CASE UNCHANGED vars
      BY <3>4 DEF vars, store
    <3>5. QED
      BY <3>1, <3>2, <3>3, <3>4 DEF Next, Handle
  <2>4. QED
    BY <2>1, <2>2, <2>3
<1>2. QED
  BY <1>1, SpecInv, PTL DEF Spec, OnlyAuthorKeepsImages

=============================================================================
