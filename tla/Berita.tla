------------------------------- MODULE Berita -------------------------------
(***************************************************************************)
(* News articles (berita) and their images.  Articles are rows of a table, *)
(* images are files in a directory; no transaction spans the two, and no   *)
(* handler keeps anything locked between the statements and file           *)
(* operations it is made of.  Each of those is one step.                   *)
(*                                                                         *)
(* Of an article's text only the image references matter.  Titles, sizes   *)
(* and content types are left out, and code 200 stands for every success.  *)
(***************************************************************************)
EXTENDS Naturals, FiniteSets

CONSTANTS Arts,       \* article ids that id.New may hand out
          Authors,    \* users with role jurnal
          Procs,      \* handler goroutines
          MaxUploads, \* bound: uploads per article and kind of image
          MaxRefs,    \* bound: references in one text
          Forms,      \* bound: the forms of reference that callers send
          Faults,     \* bound: how many statements and file operations fail
          None        \* no image, no author

VARIABLES
  accounts, \* the authors whose accounts exist
  article,  \* the table berita
  files,    \* the keys under which the storage directory has a file
  uploads,  \* how many files were ever stored, by article and kind
  call,     \* what each handler is doing
  faults    \* how many statements and file operations failed

store == <<article, files, uploads>>
vars  == <<accounts, article, files, uploads, call, faults>>

Kinds == {"cover", "content"}

\* berita/{art}/{uuid}.ext and berita/{art}/content/{uuid}.ext: the n-th key that was
\* handed out of its kind, since a uuid never comes twice; 0 for those made up.
Keys == [art : Arts, kind : Kinds, n : 0 .. MaxUploads]

ASSUME BeritaAssumption ==
  /\ IsFiniteSet(Procs)
  /\ MaxUploads \in Nat /\ MaxRefs \in Nat /\ Faults \in Nat
  /\ Forms \subseteq {"key", "signed", "bucket", "proxy"}
  /\ None \notin Arts \cup Authors \cup Keys

Uploaded(k) == k.n \in 1 .. uploads[k.art][k.kind]

\* The keys that callers may name: nobody guesses a uuid.
Known(k) == k.n = 0 \/ Uploaded(k)

\* How a text may name an image of ours: by its key, by a signed URL whose path
\* is the key, by one whose path has the bucket before the key, or by the proxy
\* URL that Get answers with.
Refs == [form : {"key", "signed", "bucket", "proxy"}, key : Keys]

NoArticle == [status |-> "unborn", author |-> None, cover |-> None, refs |-> {}]

Live(a) == article[a].status = "live"

\* The images of an article that readers are shown.
Shown(a) == ({article[a].cover} \ {None}) \cup {ref.key : ref \in article[a].refs}

-----------------------------------------------------------------------------
(* References in texts.                                                    *)

\* A URL is replaced by its path when the path starts with berita/.
normalizeImageRefs(ref) ==
  IF ref.form = "signed" THEN [ref EXCEPT !.form = "key"] ELSE ref

\* Only bare keys are recognised as images of ours.
extractImageKeys(refs) == {ref.key : ref \in {x \in refs : x.form = "key"}}

isValidContentKey(a, k) == k.art = a /\ k.kind = "content"

\* What editors put into texts: nobody checks that an image exists, or whose it is.
Texts ==
  LET usable == {ref \in Refs : ref.form \in Forms /\ Known(ref.key)}
  IN {refs \in SUBSET usable : Cardinality(refs) <= MaxRefs}

-----------------------------------------------------------------------------
(* The calls.                                                              *)

Ops == {"create", "update", "delete", "uploadImage", "uploadContentImage",
        "deleteContentImage"}

\* read: before the first ByID of Delete; check: before the ByID that checks the
\* author; then before each file operation, UPDATE, INSERT and DELETE.
Places == {"idle", "read", "check", "store", "remove", "insert", "write", "delete"}

\* 0: there was no answer yet.
Codes == {0, 200, 400, 403, 404, 500}

Calls == [pc : Places, op : Ops, a : Arts \cup {None}, caller : Authors \cup {None},
          refs : SUBSET Refs,              \* the text read, or to be written
          image : Keys \cup {None},        \* the cover read, or to be written
          left : SUBSET Keys,              \* the files still to be removed
          code : Codes]

NoCall == [pc |-> "idle", op |-> "create", a |-> None, caller |-> None, refs |-> {},
           image |-> None, left |-> {}, code |-> 0]

\* Every variable has its type; every file was uploaded, and the cover of an
\* article is an image of its own that was.
TypeOK ==
  /\ accounts \subseteq Authors
  /\ article \in [Arts -> [status : {"unborn", "live", "deleted"},
                           author : Authors \cup {None},
                           cover : Keys \cup {None}, refs : SUBSET Refs]]
  /\ files \subseteq Keys
  /\ uploads \in [Arts -> [Kinds -> 0 .. MaxUploads]]
  /\ call \in [Procs -> Calls]
  /\ faults \in 0 .. Faults
  /\ \A k \in files : Uploaded(k)
  /\ \A a \in Arts : article[a].cover # None =>
       /\ Uploaded(article[a].cover)
       /\ article[a].cover.art = a /\ article[a].cover.kind = "cover"

Init ==
  /\ accounts = Authors
  /\ article = [a \in Arts |-> NoArticle]
  /\ files = {}
  /\ uploads = [a \in Arts |-> [kind \in Kinds |-> 0]]
  /\ call = [p \in Procs |-> NoCall]
  /\ faults = 0

Answer(p, code) == call' = [call EXCEPT ![p] = [NoCall EXCEPT !.op = call[p].op,
                                                              !.code = code]]

\* Slip: every upload stores its file before it looks at the article.
BeginWithFile ==
  [create |-> "insert", update |-> "check", delete |-> "read", uploadImage |-> "store",
   uploadContentImage |-> "store", deleteContentImage |-> "check"]

\* The step each call starts with: only create knows no article, and only the
\* upload of a cover stores its file before it looks at the article.
Begin == [create |-> "insert", update |-> "check", delete |-> "read",
          uploadImage |-> "store", uploadContentImage |-> "check",
          deleteContentImage |-> "check"]

Enter(p, c) ==
  /\ call[p].pc = "idle"
  /\ call' = [call EXCEPT ![p] = c]
  /\ UNCHANGED <<accounts, store, faults>>

KindOf(op) == IF op = "uploadImage" THEN "cover" ELSE "content"

Begun(op, a, u) == [NoCall EXCEPT !.op = op, !.pc = Begin[op], !.a = a, !.caller = u]
Refused(op)     == [NoCall EXCEPT !.op = op, !.code = 400]

\* Texts are normalised on arrival; an empty one is refused.
ArriveCreate(p, a, u, text) ==
  /\ u \in accounts
  /\ article[a].status = "unborn"
  /\ \A q \in Procs : call[q].pc = "insert" => call[q].a # a \* id.New
  /\ Enter(p, [Begun("create", a, u) EXCEPT !.refs = {normalizeImageRefs(x) : x \in text}])

\* The other calls take any id, of which there may be no article.
ArriveUpdate(p, a, u, text) ==
  /\ u \in accounts
  /\ Enter(p, [Begun("update", a, u) EXCEPT !.refs = {normalizeImageRefs(x) : x \in text}])

ArriveBad(p, op) == Enter(p, Refused(op))

ArriveDelete(p, a, u) == u \in accounts /\ Enter(p, Begun("delete", a, u))

\* The uploads in flight that have yet to store their file.
Pending(op, a) == {q \in Procs : call[q].op = op /\ call[q].a = a /\ call[q].image = None}

\* The bound leaves room for them.
ArriveUpload(p, op, a, u) ==
  /\ u \in accounts
  /\ uploads[a][KindOf(op)] + Cardinality(Pending(op, a)) < MaxUploads
  /\ Enter(p, Begun(op, a, u))

ArriveDeleteContentImage(p, a, u, k) ==
  /\ u \in accounts
  /\ Known(k)
  /\ Enter(p, IF isValidContentKey(a, k)
              THEN [Begun("deleteContentImage", a, u) EXCEPT !.left = {k}]
              ELSE Refused("deleteContentImage"))

-----------------------------------------------------------------------------
(* The handlers.                                                           *)

Goto(p, pc) == call' = [call EXCEPT ![p].pc = pc]

\* The files a delete call removes: the cover and what the text names by key.
Removes(a) == ({article[a].cover} \ {None}) \cup extractImageKeys(article[a].refs)

\* Delete looks the article up and goes on to its files.
Read(p) ==
  LET c == call[p] IN
  /\ c.pc = "read"
  /\ \/ ~Live(c.a) /\ Answer(p, 404)
     \/ Live(c.a) /\ call' = [call EXCEPT ![p].pc = "remove", ![p].left = Removes(c.a),
                                          ![p].image = article[c.a].cover,
                                          ![p].refs = article[c.a].refs]
  /\ UNCHANGED <<accounts, store, faults>>

\* Slip: nobody asks whose article it is.
MayEditAny(c) == TRUE

MayEdit(c) == article[c.a].author = c.caller

\* What comes after the check of the author.  An update keeps the cover, and the
\* upload of a cover the text, as they were read here.
Proceed(p) ==
  LET c == call[p] IN
  CASE c.op = "update" ->
         call' = [call EXCEPT ![p].pc = "write", ![p].image = article[c.a].cover]
    [] c.op = "uploadImage" ->
         call' = [call EXCEPT ![p].pc = "write", ![p].refs = article[c.a].refs]
    [] c.op = "uploadContentImage" -> Goto(p, "store")
    [] c.op = "deleteContentImage" -> Goto(p, "remove")
    [] c.op = "delete" -> Goto(p, "delete")

Check(p) ==
  LET c == call[p] IN
  /\ c.pc = "check"
  /\ \/ ~Live(c.a) /\ Answer(p, 404)
     \/ Live(c.a) /\ ~MayEdit(c) /\ Answer(p, 403)
     \/ Live(c.a) /\ MayEdit(c) /\ Proceed(p)
  /\ UNCHANGED <<accounts, store, faults>>

\* Slip: an image for the text gets the key of a cover.
CoverKey(a, kind) == [art |-> a, kind |-> "cover", n |-> uploads[a][kind] + 1]

NewKey(a, kind) == [art |-> a, kind |-> kind, n |-> uploads[a][kind] + 1]

StoreFile(a, kind) ==
  /\ uploads' = [uploads EXCEPT ![a][kind] = @ + 1]
  /\ files' = files \cup {NewKey(a, kind)}

\* The image is stored under a new key, for the cover or to be put into a text.
Store(p) ==
  LET c == call[p] IN
  /\ c.pc = "store"
  /\ StoreFile(c.a, KindOf(c.op))
  /\ IF c.op = "uploadImage"
     THEN call' = [call EXCEPT ![p].pc = "check", ![p].image = NewKey(c.a, "cover")]
     ELSE Answer(p, 200)
  /\ UNCHANGED <<accounts, article, faults>>

Faulty == faults < Faults /\ faults' = faults + 1

\* One file is removed, the cover first; that it may not be there is no error.
\* Delete goes on when a removal fails, and then looks at the author.
Remove(p, k, removed) ==
  LET c == call[p] IN
  /\ c.pc = "remove"
  /\ k \in c.left
  /\ c.image \in c.left => k = c.image
  /\ \/ removed /\ files' = files \ {k} /\ UNCHANGED faults
     \/ ~removed /\ Faulty /\ UNCHANGED files
  /\ IF c.op = "deleteContentImage"
     THEN Answer(p, IF removed THEN 200 ELSE 500)
     ELSE call' = [call EXCEPT ![p].left = @ \ {k}]
  /\ UNCHANGED <<accounts, article, uploads>>

\* The handler has been through all files.
Removed(p) ==
  /\ call[p].pc = "remove"
  /\ call[p].left = {}
  /\ Goto(p, "check")
  /\ UNCHANGED <<accounts, store, faults>>

\* The author's account may be gone by now.
Insert(p) ==
  LET c == call[p] IN
  /\ c.pc = "insert"
  /\ IF c.caller \in accounts
     THEN /\ article' = [article EXCEPT ![c.a] = [status |-> "live", author |-> c.caller,
                                                 cover |-> None, refs |-> c.refs]]
          /\ Answer(p, 200)
     ELSE Answer(p, 500) /\ UNCHANGED article
  /\ UNCHANGED <<accounts, files, uploads, faults>>

\* UPDATE of text and cover; that the row may be gone is no error.
Write(p) ==
  LET c == call[p] IN
  /\ c.pc = "write"
  /\ article' = IF Live(c.a)
                THEN [article EXCEPT ![c.a].refs = c.refs, ![c.a].cover = c.image]
                ELSE article
  /\ Answer(p, 200)
  /\ UNCHANGED <<accounts, files, uploads, faults>>

Deleted(a) == [article[a] EXCEPT !.status = "deleted", !.cover = None, !.refs = {}]

\* DELETE of the row; that it may be gone is no error.
DeleteRow(p) ==
  LET c == call[p] IN
  /\ c.pc = "delete"
  /\ article' = [article EXCEPT ![c.a] = Deleted(c.a)]
  /\ Answer(p, 200)
  /\ UNCHANGED <<accounts, files, uploads, faults>>

\* A statement or file operation fails, or the server goes down.
Fail(p) ==
  /\ Faulty
  /\ call[p].pc # "idle"
  /\ Answer(p, 500)
  /\ UNCHANGED <<accounts, store>>

\* An upload breaks off and leaves the beginning of a file behind.
FailToStore(p) ==
  /\ Faulty
  /\ call[p].pc = "store"
  /\ StoreFile(call[p].a, KindOf(call[p].op))
  /\ Answer(p, 500)
  /\ UNCHANGED <<accounts, article>>

\* Deleting an author's account takes the rows of the articles with it.
PurgeAuthor(u) ==
  /\ u \in accounts
  /\ accounts' = accounts \ {u}
  /\ article' = [a \in Arts |-> IF article[a].author = u THEN Deleted(a) ELSE article[a]]
  /\ UNCHANGED <<files, uploads, call, faults>>
-----------------------------------------------------------------------------
Arrive(p) ==
  \/ \E op \in Ops : ArriveBad(p, op)
  \/ \E a \in Arts, u \in Authors :
       \/ \E text \in Texts : ArriveCreate(p, a, u, text) \/ ArriveUpdate(p, a, u, text)
       \/ ArriveDelete(p, a, u)
       \/ \E op \in {"uploadImage", "uploadContentImage"} : ArriveUpload(p, op, a, u)
       \/ \E k \in Keys : ArriveDeleteContentImage(p, a, u, k)

Handle(p) ==
  \/ Read(p) \/ Check(p) \/ Store(p) \/ Removed(p) \/ Insert(p) \/ Write(p) \/ DeleteRow(p)
  \/ \E k \in Keys, removed \in BOOLEAN : Remove(p, k, removed)
  \/ Fail(p) \/ FailToStore(p)

Next == \/ \E p \in Procs : Arrive(p) \/ Handle(p)
        \/ \E u \in Authors : PurgeAuthor(u)

Spec == Init /\ [][Next]_vars

-----------------------------------------------------------------------------
(* Properties.                                                             *)

\* "Only the article author can update" an article (berita.md): a row changes
\* only by a call of its author, or goes with the author's account, whatever
\* else changed between the check and the write.
OnlyAuthorEdits ==
  [][\A a \in Arts : (Live(a) /\ article'[a] # article[a]) =>
       \/ article[a].author \notin accounts'
       \/ \E p \in Procs : /\ call[p].pc \in {"write", "delete"} /\ call'[p].pc = "idle"
                           /\ call[p].a = a /\ call[p].caller = article[a].author]_vars

\* "Only the article author can ... delete images on their own articles"
\* (berita.md): an image that a live article shows is removed only by a call of
\* that article's author on that article, and the cover only with the article.
ImagesTakenByOwner ==
  [][\A a \in Arts, k \in Keys : (Live(a) /\ k \in Shown(a) \cap (files \ files')) =>
       \E p \in Procs : /\ call[p].pc = "remove" /\ call[p].a = a
                        /\ call[p].caller = article[a].author
                        /\ \/ call[p].op = "delete"
                           \/ call[p].op = "deleteContentImage" /\ k.kind = "content"]_vars

\* "Only the article author can ... upload/delete images on their own articles"
\* (berita.md): the files of images for texts come and go only by calls of the author
\* of their article, which may be gone by then, unless an article is deleted that
\* showed them when it was read.
OnlyAuthorKeepsImages ==
  [][\A k \in Keys : (k.kind = "content" /\ (k \in files') # (k \in files)) =>
       \E p \in Procs :
         /\ call'[p] # call[p]
         /\ \/ /\ call[p].op = "delete" /\ k \notin files'
               /\ k = call[p].image \/ \E ref \in call[p].refs : ref.key = k
            \/ call[p].a = k.art /\ call[p].caller = article[k.art].author]_vars
=============================================================================
