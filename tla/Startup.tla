------------------------------ MODULE Startup -------------------------------
(***************************************************************************)
(* Programs that start: the server and cmd/kbseed migrate the database and *)
(* then, one in the background, the other as its work, index the knowledge *)
(* base into it.  An operator may roll migrations back in between, the     *)
(* tables of the base included, with what is in them and the numbers of    *)
(* the documents.                                                          *)
(***************************************************************************)
EXTENDS Migrations, Chunker

CONSTANTS Files, \* the texts of the markdown files, in the order of their paths
          Texts, \* bound: texts that are cut into chunks
          slugify, AutoSeeds, BatchSize, Faults \* as in Knowledge

VARIABLES
  documents, chunks, nextId, outcome, \* as in Knowledge
  seeding, \* what each program is at with seeding
  torn     \* was the base dropped while a program seeded?

Chunks == [f \in DOMAIN Files |-> chunkText(Files[f])]

base == <<documents, chunks, nextId, seeding, outcome>>

KB == INSTANCE Knowledge WITH Seeders <- Starters, Runs <- Starts, run <- seeding

ASSUME StartupAssumption ==
  KB!KnowledgeAssumption /\ ChunkerAssumption /\ Texts \subseteq Seq(TextLines)

\* Every variable has its type; only a program that is ready seeds.
StartupTypeOK ==
  /\ TypeOK
  /\ KB!TypeOK
  /\ torn \in BOOLEAN
  /\ \A p \in Starters : seeding[p].pc # "idle" => run[p].pc = "ready"
  /\ "kb" \notin schema => documents = {} /\ chunks = {}

StartupInit == Init /\ KB!Init /\ torn = FALSE
-----------------------------------------------------------------------------
\* A program is started, if it has done with seeding.
Begin(p) == seeding[p].pc = "idle" /\ Start(p) /\ UNCHANGED <<base, torn>>

\* A step of the migrations; seeding starts when they are done.
Migrate(p) ==
  /\ Check(p) \/ Apply(p) \/ Record(p)
  /\ IF run'[p].pc = "ready" THEN KB!Start(p) ELSE UNCHANGED base
  /\ UNCHANGED torn

\* Statements need the tables; embeddings do not.
Statement(p) == "kb" \in schema /\ (KB!Count(p) \/ KB!Clear(p) \/ KB!Insert(p) \/ KB!InsertChunk(p))

NoTable(p) ==
  /\ "kb" \notin schema
  /\ seeding[p].pc \in {"count", "clear", "insert", "chunk"}
  /\ KB!End(p, "broken") /\ UNCHANGED <<documents, chunks, nextId>>

Seed(p) == (Statement(p) \/ KB!Embed(p) \/ NoTable(p)) /\ UNCHANGED <<vars, torn>>

\* A program fails: as it migrates, or as it seeds.
Break(p) == \/ Fail(p) /\ UNCHANGED <<base, torn>>
            \/ KB!Fail(p) /\ UNCHANGED <<vars, torn>>

\* DROP TABLE kb_chunks, kb_documents, with the sequence of the ids.
DropRows(v) == IF v = 8 THEN documents' = {} /\ chunks' = {} /\ nextId' = 1
                        ELSE UNCHANGED <<documents, chunks, nextId>>

RollBack(v) ==
  /\ Rollback(v)
  /\ DropRows(v)
  /\ torn' = (torn \/ (v = 8 /\ \E p \in Starters : seeding[p].pc # "idle"))
  /\ UNCHANGED <<seeding, outcome>>

StartupNext == \/ \E p \in Starters : Begin(p) \/ Migrate(p) \/ Seed(p) \/ Break(p)
               \/ \E v \in Rollable : RollBack(v)

\* A program that runs goes on.
StartupSpec ==
  /\ StartupInit /\ [][StartupNext]_<<vars, base, torn>>
  /\ \A p \in Starters : WF_<<vars, base>>(Migrate(p)) /\ WF_<<vars, base>>(Seed(p))
-----------------------------------------------------------------------------
(* Properties.                                                             *)

\* "Seed indexes every markdown file, replacing each document by slug" (seed.go): as
\* soon as no program seeds any more, and the last run of none was broken off, the
\* base holds every file, whole and once, although runs that overlap delete each
\* other's documents and stop each other; unless it was rolled back since, or while
\* a program filled it.
SeededIsWhole == ~torn /\ (rollbacks = 0 \/ documents # {}) => KB!SeededIsWhole

\* "chunkText splits markdown text into overlapping chunks. New chunks begin at
\* headings whenever the running chunk exceeds maxChars" (seed.go; they do in any
\* case): whatever the text, nothing of it is lost, also where a line is longer than a
\* chunk, and every heading begins a chunk.  Texts do not change, and are looked at
\* once, before any program is started.
ChunksAreFaithful ==
  (\A p \in Starters : run[p].starts = 0) => \A text \in Texts : Faithful(text, chunkText(text))

\* From migrating to indexing nothing gets stuck: a program that is started, alone
\* or with others, in the end leaves the whole base behind, provided that from the
\* beginning nothing fails and nothing is rolled back.
Undisturbed == crashes = 0 /\ rollbacks = 0 /\ \A p \in Starters : outcome[p] # "broken"

BaseIsBuilt ==
  []Undisturbed => [](\A p \in Starters : run[p].starts > 0 => <>KB!Whole)
=============================================================================
