----------------------------- MODULE Knowledge ------------------------------
(***************************************************************************)
(* Indexing the knowledge base.  A seeding run goes through the markdown   *)
(* files; of each it deletes the old document, inserts a new one, and      *)
(* embeds and inserts its chunks batch by batch, every statement on its    *)
(* own.  cmd/kbseed runs when it is called, the server in the background   *)
(* when it starts and finds no chunks.                                     *)
(***************************************************************************)
EXTENDS Naturals, FiniteSets, Sequences

CONSTANTS Chunks,    \* the chunks of each markdown file, in the order of their paths
          slugify,   \* the slug of each
          Seeders,   \* programs that seed
          AutoSeeds, \* the servers among them
          BatchSize,
          Runs,      \* bound: how often each of them seeds
          Faults     \* bound: do statements, embeddings or programs fail?

\* What is assumed of the constants.  There is a file; a chunk is a stretch of its text.
KnowledgeAssumption ==
  /\ Chunks \in Seq(Seq([from : Nat, to : Nat])) /\ Chunks # <<>>
  /\ Len(slugify) = Len(Chunks)
  /\ IsFiniteSet(Seeders) /\ AutoSeeds \subseteq Seeders
  /\ BatchSize \in Nat \ {0} /\ Runs \in Nat /\ Faults \in BOOLEAN

VARIABLES
  documents, \* the table kb_documents
  chunks,    \* the table kb_chunks
  nextId,    \* the sequence of kb_documents.id
  run,       \* what each program is at
  outcome    \* how its last run ended

vars == <<documents, chunks, nextId, run, outcome>>

FileIds == DOMAIN Chunks

MaxId == Runs * Cardinality(Seeders) * Len(Chunks)

Documents == [id : 1 .. MaxId, slug : {slugify[f] : f \in FileIds}, file : FileIds]

\* A chunk is given by the file it was cut from, its number there, and who inserted it.
ChunkRows == [document : 1 .. MaxId, file : FileIds, n : Nat, by : Seeders]

RunStates == [pc : {"idle", "count", "clear", "insert", "embed", "chunk"},
              file : 1 .. Len(Chunks) + 1, \* the file it is at
              document : 0 .. MaxId,      \* the document it made
              done : Nat,                 \* how many chunks it inserted
              vectors : Nat,              \* up to which chunk it has vectors
              runs : 0 .. Runs]

\* Every variable has its type, and every chunk a document.
TypeOK ==
  /\ documents \subseteq Documents
  /\ chunks \subseteq ChunkRows
  /\ nextId \in 1 .. MaxId + 1
  /\ run \in [Seeders -> RunStates]
  /\ outcome \in [Seeders -> {"none", "done", "conflict", "broken"}]
  /\ \A c \in chunks : \E d \in documents : d.id = c.document
  /\ \A p \in Seeders : run[p].pc \notin {"idle", "count"} => run[p].file <= Len(Chunks)

NotRunning == [pc |-> "idle", file |-> 1, document |-> 0, done |-> 0, vectors |-> 0, runs |-> 0]

Init ==
  /\ documents = {} /\ chunks = {} /\ nextId = 1
  /\ run = [p \in Seeders |-> NotRunning]
  /\ outcome = [p \in Seeders |-> "none"]
-----------------------------------------------------------------------------
Start(p) ==
  /\ run[p].pc = "idle" /\ run[p].runs < Runs
  /\ run' = [run EXCEPT ![p].pc = IF p \in AutoSeeds THEN "count" ELSE "clear",
                        ![p].runs = @ + 1]
  /\ UNCHANGED <<documents, chunks, nextId, outcome>>

\* A run is over; a run that finds chunks does nothing.
End(p, how) ==
  /\ run' = [run EXCEPT ![p] = [NotRunning EXCEPT !.runs = run[p].runs]]
  /\ outcome' = [outcome EXCEPT ![p] = how]

Count(p) ==
  /\ run[p].pc = "count"
  /\ IF chunks = {} THEN run' = [run EXCEPT ![p].pc = "clear"] /\ UNCHANGED outcome
                    ELSE End(p, outcome[p])
  /\ UNCHANGED <<documents, chunks, nextId>>

\* On to the next file, if there is one.
NextFile(p) ==
  IF run[p].file = Len(Chunks)
  THEN End(p, "done")
  ELSE /\ run' = [run EXCEPT ![p] = [pc |-> "clear", file |-> run[p].file + 1, document |-> 0,
                                         done |-> 0, vectors |-> 0, runs |-> run[p].runs]]
       /\ UNCHANGED outcome

\* Slip: a document that a broken run left without chunks is not replaced.
WithChunks(f) == {d \in documents : d.slug = slugify[f] /\ \E c \in chunks : c.document = d.id}

\* DELETE FROM kb_documents WHERE slug = $1.
Cleared(f) == {d \in documents : d.slug = slugify[f]}

\* Slip: chunks are left behind.
NoCascade(gone) == {}

\* kb_chunks.document_id ... ON DELETE CASCADE.
Cascade(gone) == {c \in chunks : \E d \in gone : d.id = c.document}

\* Slip: it ends the run.
BlankEnds(p) == End(p, "done")

\* A file without text has no chunks, and gets no document.
SkipBlank(p) == NextFile(p)

Clear(p) ==
  LET f == run[p].file IN
  /\ run[p].pc = "clear"
  /\ documents' = documents \ Cleared(f)
  /\ chunks' = chunks \ Cascade(Cleared(f))
  /\ IF Chunks[f] = <<>>
     THEN SkipBlank(p)
     ELSE run' = [run EXCEPT ![p].pc = "insert"] /\ UNCHANGED outcome
  /\ UNCHANGED nextId

\* slug ... UNIQUE.
SlugFree(f) == \A d \in documents : d.slug # slugify[f]

\* A failing INSERT takes a number of the sequence, too.
Insert(p) ==
  LET f == run[p].file IN
  /\ run[p].pc = "insert"
  /\ IF SlugFree(f)
     THEN /\ documents' = documents \cup {[id |-> nextId, slug |-> slugify[f], file |-> f]}
          /\ run' = [run EXCEPT ![p].pc = "embed", ![p].document = nextId]
          /\ UNCHANGED outcome
     ELSE End(p, "conflict") /\ UNCHANGED documents
  /\ nextId' = nextId + 1
  /\ UNCHANGED chunks

\* The next batch ends with its BatchSize-th chunk, or the last.
BatchEnd(p) ==
  LET end == run[p].done + BatchSize
      all == Len(Chunks[run[p].file])
  IN IF end > all THEN all ELSE end

Embed(p) ==
  /\ run[p].pc = "embed"
  /\ run' = [run EXCEPT ![p].pc = "chunk", ![p].vectors = BatchEnd(p)]
  /\ UNCHANGED <<documents, chunks, nextId, outcome>>

\* The reference to the document fails when another run has replaced it.
InsertChunk(p) ==
  LET r == run[p]
      n == r.done + 1
  IN /\ r.pc = "chunk"
     /\ \/ /\ \E d \in documents : d.id = r.document
           /\ chunks' = chunks \cup {[document |-> r.document, file |-> r.file, n |-> n, by |-> p]}
           /\ \/ n = Len(Chunks[r.file]) /\ NextFile(p)
              \/ /\ n # Len(Chunks[r.file])
                 /\ run' = [run EXCEPT ![p].done = n,
                                       ![p].pc = IF n = r.vectors THEN "embed" ELSE "chunk"]
                 /\ UNCHANGED outcome
        \/ /\ \A d \in documents : d.id # r.document
           /\ End(p, "conflict") /\ UNCHANGED chunks
     /\ UNCHANGED <<documents, nextId>>

\* A statement or embedding fails, time is up, or the program is stopped.
Fail(p) ==
  /\ Faults
  /\ run[p].pc # "idle"
  /\ End(p, "broken")
  /\ UNCHANGED <<documents, chunks, nextId>>
-----------------------------------------------------------------------------
Next == \E p \in Seeders : \/ Start(p) \/ Count(p) \/ Clear(p) \/ Insert(p) \/ Embed(p)
                           \/ InsertChunk(p) \/ Fail(p)

Spec == Init /\ [][Next]_vars
-----------------------------------------------------------------------------
(* Properties.                                                             *)

\* The chunks of a file are stored, whole and once, and are those of its text.
Indexed(f) ==
  \E d \in documents :
    LET rows == {c \in chunks : c.document = d.id} IN
    /\ d.file = f
    /\ \A c \in rows : c.file = f
    /\ Cardinality(rows) = Len(Chunks[f]) /\ {c.n : c \in rows} = DOMAIN Chunks[f]

Whole ==
  /\ \A f \in FileIds : Chunks[f] # <<>> => Indexed(f)
  /\ \A d, e \in documents : d.file = e.file => d = e

\* "Seed indexes every markdown file, replacing each document by slug" (seed.go): as
\* soon as no program seeds any more, and the last run of none was broken off, the
\* base holds every file, whole and once, although runs that overlap delete each
\* other's documents and stop each other.
SeededIsWhole ==
  (/\ \A p \in Seeders : run[p].pc = "idle" /\ outcome[p] # "broken"
   /\ \E p \in Seeders : outcome[p] # "none") => Whole
=============================================================================
