# A TLA+ model of the JHIC backend

The server is a Go program over PostgreSQL and a directory of image files, with goroutines per HTTP request and a
few programs beside it (`cmd/migrate`, `cmd/kbseed`, `cmd/seed`). Its own logic is small; what is hard about it is
that almost every handler is a sequence of SQL statements, each committed on its own, between which anything may
happen. The models here take that literally: a statement or file operation is a step, what a handler read is kept in
its own state, and what it writes is computed from there.

This directory holds the specifications, the instances that TLC checks, and the proofs that TLAPS checks.

* [1. The system](#1-the-system)
* [2. The modules](#2-the-modules)
* [3. The approval workflow](#3-the-approval-workflow)
* [4. The other components](#4-the-other-components)
* [5. The runs](#5-the-runs)
* [6. Fairness](#6-fairness)
* [7. The proofs](#7-the-proofs)
* [8. What was found](#8-what-was-found)
* [9. What is not modelled](#9-what-is-not-modelled)
* [10. What comes next](#10-what-comes-next)

## 1. The system

| Component | State | Operations | What is hard | What makes it correct |
|---|---|---|---|---|
| **pkl** (internship requests) | `pkl_requests`, `pkl_approval_steps` | Create, Decide, Cancel, Get, List | two tables, reads before the transaction, optimistic guards, row locks against cascades | steps are decided in order, by their approvers, finally; the request row says what the steps say; the pointer names whose turn it is |
| **user** | `users` with unique indexes | Create, Update, UpdateRole, Delete, List, Get | read, check, write without a transaction | emails and seats are unique; an edit does not undo a change of role |
| **auth** | `sessions` | Register, Login, Logout | logins that race with deletions and logouts | no token stands for a deleted account; ended sessions stay ended |
| **auth and role middleware** | none | token lookup, role check | roles may change after the check | only valid tokens pass |
| **berita** (news) | `berita`, image files | Create, Update, Delete, upload and deletion of images | rows and files change by separate steps | only the author edits an article, and stores and removes its images |
| **local storage** | a directory | Upload, Delete, Get | operations fail half-way | (part of berita) |
| **snowflake ids** | `lastTime`, `sequence` | New | clock set back, sequence used up, restarts | ids ascend, and differ between processes |
| **rate limiter** | a map of buckets | Allow, sweep | lazy filling, opportunistic sweeping | answers as from buckets filled all the time |
| **match** | none | answer a questionnaire, validate-input, normalize-output | three percentages that the language model makes up are rescaled by integers | the sum is 100, none is out of range or far from its exact value |
| **cvreview** | none | review a CV, validate-input, normalize-output | lists of any length, with gaps, are capped and renumbered | an audit is the beginning of what the model said |
| **chat** | (chat memory) | answer a question, retrieve from the knowledge base | two slow requests in a row | (chat memory) |
| **chat memory** | a map of sessions | Messages, Append, sweep | requests overlap while the model thinks | whole turns, the last ones, none lost |
| **llm client** | none | Complete, Embed | errors and timeouts at any point of an answer | statuses tell apart what failed |
| **migration runner** | the schema, `schema_migrations` | RunMigrations, RollbackMigration | several programs at once, crashes between script and record | who gets to work finds the whole schema |
| **knowledge base** | `kb_documents`, `kb_chunks` | Count, Seed, chunkText | two seeders delete each other's documents; lines longer than a chunk | in the end every file is there, whole and once, and no text is lost |

How they interact: every route of a signed-in user passes the middleware (`users`, `sessions`); pkl looks its
approvers up in `users`, which accounts edit at the same time; deleting a user cascades to sessions, articles and
PKL requests, and is refused while the user is an approver of somebody else's request; all inserts take their keys
from the snowflake generator; each AI route has a rate limiter of its own, and asks the language model; chat retrieves
from the knowledge base, which the server seeds in the background at its start, after the migrations.

Not modelled (reasons in [section 9](#9-what-is-not-modelled)): analytics, demo data, the connection pool, router, CORS,
logging, responses, configuration, vector literals, mocks and test helpers.

## 2. The modules

| Module | Role | Source |
|---|---|---|
| `ApprovalChain` | what a PKL request promises (abstract) | the contract of `pkl` |
| `PklApproval` | Decide, Cancel, Get, the cascade, statement by statement; implements `ApprovalChain` | `domain/pkl` |
| `PklApprovalProofs` | all its safety properties and the refinement, for all constants | |
| `UserRows` | rows and unique indexes of `users`, `validatePosition`, `FindByPosition` (no state) | `domain/user`, migrations 001 and 004 |
| `PklRouting`, `PklRoutingProofs` | Create: how a request finds its approvers; extends `UserRows`; all its properties proved | `domain/pkl`, `domain/user` |
| `Accounts`, `AccountsProofs` | accounts, sessions, middleware; extends `UserRows`; all its properties proved | `domain/user`, `domain/auth`, `middleware` |
| `Berita`, `BeritaProofs` | articles and images; its type invariant and the rules of authors proved | `domain/berita`, `storage` |
| `Snowflake`, `SnowflakeProofs` | ids; their order and uniqueness proved | `pkg/id` |
| `TokenBuckets` | what a rate limiter promises (abstract) | |
| `RateLimiter` | lazy buckets and sweeping; implements `TokenBuckets`, proved in `NexxaProofs` | `middleware/ratelimit.go` |
| `MatchScores` | how percentages are rescaled (no state) | `nexxa/match/content` |
| `CvAudit` | what is made of an audit (no state) | `nexxa/cvreview/content` |
| `Nexxa`, `NexxaProofs` | the AI endpoints; composes `RateLimiter`, `MatchScores`, `CvAudit`; implements `TokenBuckets`; all its properties proved | `nexxa/match`, `nexxa/cvreview`, `nexxa/chat`, `llm` |
| `Transcripts` | what a chat memory promises (abstract) | |
| `ChatMemory`, `ChatMemoryProofs` | the memory under overlapping requests; implements `Transcripts`, proved | `domain/nexxa/chat` |
| `Migrations` | the runner in several programs | `database/migrate.go`, `cmd/server/migrations` |
| `Chunker` | how a text is cut into chunks (no state) | `knowledge/seed.go` |
| `Knowledge` | seeding by several programs | `knowledge/seed.go`, `cmd/kbseed` |
| `Startup`, `StartupProofs` | a program from its start to a filled base; composes `Migrations`, `Chunker`, `Knowledge`; all their safety properties proved | `cmd/server/main.go`, `cmd/kbseed` |

`MC...` modules only give constants small values and declare symmetries. `UserRows` is shared, so that `Accounts` and
`PklRouting` cannot disagree about the table they both use. `PklRouting` ends where `PklApproval` begins: the former
has one step that inserts a request with the approvers it found, the latter's `Create` takes any tuple from the constant
`Chains`. Its values in the runs are those `PklRouting` shows to be possible: all approvers different, or, after an edit
between two lookups, one guru twice.

Conventions. Names of the source are kept (`FindByPosition`, `normalizeImageRefs`, `ApprovalOrder`, `maxMsg`...). A
handler is a record per goroutine whose `pc` says before which statement it is. Places where the code could plausibly be
wrong are operators of their own; the operator before it, marked *Slip*, is such a mistake, and substituting it breaks
the property it is listed with in `PROJECT.json`. Bounds are constants marked *bound*, or are named where they stand.
Codes are HTTP statuses.

## 3. The approval workflow

| `PklApproval` | Code |
|---|---|
| `row[r]` | the row of `pkl_requests`: `status`, `current_step`, requester, and, for brevity, the approvers of its steps, which never change |
| `steps[r][i]` | `status` of the `i`-th row of `pkl_approval_steps` |
| `reqLock`, `stepLock` | PostgreSQL's row locks |
| `call[p]` | the local variables of a handler goroutine |
| `Create` | the transaction of `CreateRequest` |
| `Arrive` | route, role and body of a call |
| `ReadRequest`, `ReadSteps`, `ReadStepsForGet` | `ByID` and `StepsByRequest`, each with the checks that follow it |
| `WriteStep`, `WriteRequest` | the two UPDATEs of `Decide`; the one UPDATE of `Cancel` |
| `Commit` | COMMIT, whose answer may be lost |
| `Fail` | an error of any statement, the caller hanging up, a crash |
| `PurgeLock`, `PurgeCommit`, `PurgeAbort` | `DELETE FROM users` with its cascade |
| `DeadlockVictim` | what PostgreSQL does about a deadlock (`Fail` or `PurgeAbort`) |

Row locks are those of READ COMMITTED: an UPDATE that matches a row which somebody else has locked waits, and looks at
the committed row again when it gets the lock; one that matches no row returns at once. Uncommitted writes are visible to
nobody, and so appear only as locks held. The statement-level model is what the properties need: `Decide` reads the request
row and the step rows by two statements *before* its transaction, computes `current_step + 1` from the first, and its
UPDATEs are guarded by the statuses it had read. A model with `Decide` as one step could not tell apart any of this.

`ApprovalChain` has no pointer, no locks and no handlers: a status and the decisions, with an action per decision.
`ImplementsChain` says that everything the handlers do to the tables, in any interleaving, is one of those actions or
nothing. It subsumes a lot (order, who may settle a question only once, what a cancel may do), so that the other
properties concern what the chain does not have: the pointer, callers, error codes, torn reads, liveness.

`PointsAtTheTurn`, that a pending request's `current_step` names an undecided step after approved ones, is what lets
the next approver act. It holds as long as no guru has two decide calls in flight, and not otherwise
([section 8](#8-what-was-found)); the weaker `PointerNotAhead` holds always.

## 4. The other components

**Accounts.** No handler uses a transaction: `Register` looks for the email, hashes, and inserts; `Update` reads the row,
checks the position against the role it read, and writes email and profile; `UpdateRole` is another statement. Each is a
step, the middleware's token lookup and role check too, so that a role may be taken away between check and effect. The
properties relate what handlers read to what they find when they write: uniqueness in spite of look-then-insert, sessions
of logins that passed their check before the account went, roles in spite of the write-back of an old row.

**PklRouting.** Each lookup of an approver is a statement; users are added, edited, promoted and deleted in between. The
variable `edited` is not in the code: it marks the calls during which the table changed, since what is promised of routing
is promised for a table that stands still. `PartiesExist` needs no such condition.

**Berita.** Files and rows have no common transaction. Keys of images are `(article, kind, n)` because a UUID never
comes twice; a text is the set of references in it, each in one of the forms the code tells apart: the bare key,
a signed URL whose path is the key, a URL with the bucket in front of it, the proxy URL of `Get`. `normalizeImageRefs` and
`extractImageKeys` are modelled by what they do to these forms. An editor may name any image, also one that does not exist (`n = 0`)
or is another article's, and an upload may be for any id, also one of which there is no article: nobody checks. The model bounds
uploads per article and kind; a call to upload comes in only when the bound leaves room for it. That nobody guesses a UUID (`Known`) is
assumed of what callers name.

No property says that references are stored in one form, or that all images of an article go when it is deleted: the code
does neither ([section 8](#8-what-was-found)). What it does keep to is in `OnlyAuthorEdits` and `OnlyAuthorKeepsImages`: rows change only by calls
of the author, and so do the files of images for texts, but that the deletion of an article takes what its text names by key.
Covers are left out of the latter, since a cover is stored before the author is checked: a refused upload leaves its file behind.

**Snowflake.** `New` runs under a mutex, so each process has one call at a time; but it sleeps in it, while the clock moves
on or is set back, and other processes go on. Widths are constants (`Nodes`, `Seqs`), and `Pack` is the real packing, so
that an overflow of the sequence runs into the node's bits.

**RateLimiter.** Tokens are floats in the code. Here a token is `Minute` parts, of which `perMinute` flow in per tick:
the same arithmetic without fractions, and without the rounding of floats. `Level`, what each client's bucket would hold
were it filled continually, is the refinement mapping; a client without a bucket has a full one, which is why sweeping
must wait until a bucket is full. `served` and `age` count calls in an arbitrary window (`OpenWindow` may start one at any
time), which turns "per minute" into an invariant.

**Nexxa.** Chat, match and cv-review have the same course: the limiter, the checks of the input, one or two requests to the
language model, and the shaping of its answer. `route`, chosen at the start, says which of them a behaviour is about, as they
share nothing. A call passes the limiter (`Arrive` takes the step `Allow` of `RateLimiter`, of which `Nexxa` is an extension)
and then waits, so that any number of calls are under way while buckets fill and are swept: `ImplementsBuckets` and
`WindowBound` are checked of the endpoints, not of the limiter alone. `Pass` is time, which goes no further than a request
to the model may last. What the model says is an input (`Outputs`): nothing at all, prose, scores that add up to nothing, lists
that are too long.

*MatchScores* has the arithmetic of `content.go` on integers: half-up rounding of three quotients, and the correction of the
sum, given to the largest. The code parses percentages as floats; fractions of a percent scale away, and so are left out. The string
`NaN` does not: it parses, passes every comparison, and makes all three quotients NaN, whose conversion to int Go leaves to the
processor (`NaNAsInt`; 0 or the least int). The model takes this path too, and the answer is 200; `MatchIsWhole` and `HighestIsTheMajor` speak of scores that
are numbers (`Numbers`). *CvAudit* keeps of an item its name, whether it is an object, and whether it is complete: a list is unmarshalled as a
whole, so that an item that is no object refuses the audit wherever it stands, while completeness is looked at item by item up to the
cap, which is why `CvIsPrefix` is about what stands before and after it. `validate-input` and `normalize-output` of match and of cv-review are handlers of their
own (`ValidateNexxaInput`, `ValidateCvInput`, `NormalizeNexxaOutput`, `NormalizeCvOutput`); `FieldErrors` knows that a CV's counts of words and pages may be left out.

**ChatMemory.** `Messages` and `Append` are atomic, the model is asked between them. `Transcripts` has sequences of turns;
`ChatMemory` messages, late deletion and sweeping. The number of turns kept is `maxMsg \div 2`: an odd `CHAT_HISTORY_MAX`
keeps one message less.

**Migrations.** The eight scripts by what they create and need: tables, columns added to `users`, and the references to
`users`, since rolling back the first script drops these. A script is applied as a whole (one `Exec`, an implicit
transaction), its record is a statement of its own.

**Chunker.** A line is a kind and a length, a chunk a stretch of the text from one position to another: that what a chunk holds
stood together, which the code does with string builders, needs no model of characters. `ReadLine` is one round of the loop,
an operator for each statement in it (`Enter`, `BeginAnew`, `CutUp`, `MakeRoom`, `Gather`); the inner loop over the cuts of a long line
is given in closed form (`Cuts`, `Cut`). `ReadLines` is the loop, a recursive function of the number of lines. `chunkText` is what `Startup` cuts its files with.

**Knowledge.** One file is deleted, inserted, and its chunks embedded and inserted batch by batch. The server's background
run first counts chunks. Unique slug and cascading references decide what happens when two runs overlap.

**Startup.** Server and kbseed migrate, then seed (`Migrate` takes the step `KB!Start` together with the end of the migrations),
at the same time, and are stopped and started again; an operator rolls back the tables the other program is filling. Neither
component knows of this alone: that an INSERT finds no table, that document ids start again.

## 5. The runs

| Run | Instance | Distinct states | Shows |
|---|---|---|---|
| `pkl_safety` | 1 request, 3 approvers, 2 students, 2 handlers, decide / cancel / get, failures, cascade | 581,000 | tables consistent, decisions ordered, final, the approver's own; reads not torn; lost races answered 409; refines `ApprovalChain` |
| `pkl_turn` | 1 request, 2 approvers or one guru twice, 2 handlers, fairness, no overlapping decides of one guru | 68,000 | the pointer is right, every call is answered |
| `pkl_turn_overlap` | 3 approvers, overlapping decides | *violation* | the pointer falls behind |
| `accounts` | 3 users, 2 emails, 1 unique seat, 2 tokens, 2 handlers, failures | 671,000 | uniqueness, sessions, roles |
| `routing` | 3 users, 2 positions, 2 classes, 2 majors, 1 call, any edits | 416,000 | parties exist, approvers are the right ones |
| `berita_calls` | 1 article, 2 authors, 1 upload per kind, references by key and by signed URL, 1 fault, 2 handlers | 1,228,000 | only the author edits, and stores and removes images for texts |
| `berita_refused_delete` | the same | *violation* | images are gone before the author is checked |
| `snowflake` | 2 processes, 2 sequence numbers, 4 ms, clock set back once, 1 restart, fairness | 226,000 | ids ascend and are unique, calls return |
| `nexxa` | 3 endpoints, 2 clients, 1 call per 2 ticks, sweeping from the first bucket, 2 calls at a time, 4 ticks | 242,000 | refines `TokenBuckets`, bound of calls per window; match makes whole percentages of any numbers, cv-review audits of the beginning of the lists |
| `nexxa_ranking` | the same | *violation* | the rescaling puts another major before the one that is named |
| `chat_memory` | 3 sessions, 5 turns, 5 messages, 2 sessions before sweeping | 196,000 | refines `Transcripts` |
| `startup` | 2 programs started twice, 2 crashes, 1 rollback of any version but 1 and 6, 3 files, texts up to 3 lines | 2,121,000 | whole schema for who gets to work, at most one unrecorded version per crash; the base whole and once in the end, and built if nothing disturbs it; chunks lose nothing |

Why the bounds are enough:

* *Two handlers.* The guards compare one call's reads with one row. What a third handler does to a row looks to a call like
  what the second does; a deadlock of handlers alone would need locks taken in two orders, and all take the step row first.
  The cascade, which takes them in the other order, is a third party of its own in `PklApproval`.
* *Calls are not bounded*: a handler that is done takes the next call, so all sequences of calls are covered, up to the
  end of the request. One request is enough in `PklApproval` since no statement of a handler touches two; the cascade does,
  and holds what it has locked in any order.
* *Three approvers*, so that there is a first, a last, and one in between, where `current_step` moves on and a question
  may be resumed; the code has four.
* *One guru twice* in `pkl_turn`, because `PklRouting` shows that this can happen.
* *Three users* in `accounts`: the administrator and two who compete for one email or seat. `i0` stays an administrator,
  so that there is always somebody to call the routes; other administrators do not come about (`Roles1`).
* *An odd limit of messages*, since even ones never leave half a turn.
* *Three sessions with a limit of two*, so that sweeping happens with one to sweep and one to stay.
* *One restart, not after the clock was set back, and not while it is behind*: with both, ids may come twice (see below).
* *Scores*: one triple for each way in which three roundings go wrong or right (sums of 99, 100, 101, ties, a correction that
  meets a tie), each reason for refusing them, and NaN; that the rescaling is right for all numbers is proved.
* *Lists* end before the cap, at it and after it, with an incomplete item in each of these places, and an item that is no object.
* *Texts* of all lines of lengths around the chunk (1 to 9, for chunks of 4 and an overlap of 1) in all orders of up to three:
  a line is handled by what was gathered before it, and what is left of that after a chunk is full.
* *Two starts*: one that breaks off, and one that meets what it left. Three files, of one, of several and of no chunks, a batch of
  two: so that a run stops between files, between batches and within one.
* *Version 1 is not rolled back*: its script drops columns that version 4 made and that stay recorded. Version 6 has nothing to
  roll back. *Nothing is rolled back while a program starts* (but while it seeds): a start looks at each version once, so that one rolled back
  behind its back would stay away. Both are up to the operator; the code enforces neither, and `StartedIsWhole` rests on them.

Deadlock is checked in all runs but `snowflake` and `startup`, where the clock or the number of starts is bounded and everything
really ends. Symmetry is declared on handlers, tokens, ids, clients, callers, sessions and turns where no liveness property is
checked.

## 6. Fairness

`pkl_turn`, `snowflake` and `startup` assume:

* a goroutine goes on to its next read or its COMMIT (weak fairness): Go's scheduler does not starve runnable goroutines;
* an UPDATE gets its row lock (strong fairness of `WriteStep` and `WriteRequest`, `PurgeLock` and `PurgeCommit`): PostgreSQL
  queues waiters for a row, so that none is passed over for ever, although the lock is not free continually;
* a deadlock is detected (weak fairness of `DeadlockVictim`): `deadlock_timeout` does this, after a second by default;
* the clock moves on, and a sleeping or spinning call of `New` looks at it again (weak fairness of `Tick`, `Read`, `Wait`);
* a program that migrates or seeds goes on to its next statement (weak fairness of `Migrate(p)` and `Seed(p)`): it is one
  goroutine that waits for nothing but its own statements.

Nothing is assumed of callers, of failures, of the clock being set back or of restarts: none of them must happen.
`EveryCallIsAnswered` needs the detector, since `Decide` and the cascade take their locks in opposite orders and do
deadlock; and it needs that locks are given back on every path, which is what its mutant breaks. `BaseIsBuilt` speaks of behaviours that nothing
disturbs from the beginning: no crash, no rollback, no run that is broken off. That one of two programs which stop each other (a unique slug, a
reference to a replaced document) completes the base is what it says; it says nothing of what programs make of a base that an earlier failure left.

## 7. The proofs

| Theorem | States | Assumes |
|---|---|---|
| `PklApprovalProofs!Invariance`, `TypeCorrect` | `[]Inv`, `[]TypeOK` | `PklAssumption` |
| `PklApprovalProofs!ApprovalsInOrder`, `StatusIsTrue`, `PointerFollows` | `[]DecidedInOrder`, `[]StatusMatchesSteps`, `[]PointerNotAhead` | |
| `PklApprovalProofs!Finality` | `DecisionsAreFinal` | |
| `PklApprovalProofs!Authority` | `OnlyItsApproverDecides` | |
| `PklApprovalProofs!Implementation` | `Spec => ImplementsChain` | |
| `PklApprovalProofs!GetIsWhole` | `[]GetIsNotTorn` | |
| `PklApprovalProofs!LosersAreTold` | `LostDecideIs409` | |
| `PklApprovalProofs!TurnIsKept` | `[]PointsAtTheTurn` | `~OverlappingDecides` |
| `SnowflakeProofs!TypeCorrect` | `[]TypeOK` | `SnowflakeAssumption` |
| `SnowflakeProofs!Monotonicity` | `IdsIncrease` | any restarts, if no process begins while its clock is behind, and no clock is set back after a restart |
| `SnowflakeProofs!Uniqueness` | `[]IdsAreUnique` | different node ids |
| `NexxaProofs!Invariance`, `Bounded` | `[]Inv`, `[]WindowBound` | `RateLimiterAssumption`: buckets are not swept within a minute (the code: five) |
| `NexxaProofs!Implementation` | `Spec => ImplementsBuckets` | the same |
| `AccountsProofs!InvAlways`, `TypeCorrect` | `[]Inv`, `[]TypeOK` | `AccountsAssumption`, `UserRowsAssumption` |
| `AccountsProofs!AccountsAreUnique`, `SessionsEndWithUsers` | `[]UniqueAccounts`, `[]SessionsHaveUsers` | |
| `AccountsProofs!SessionsStayEnded`, `RolesAreKept` | `EndedSessionsStayEnded`, `RolesSurviveEdits` | |
| `PklRoutingProofs!InvAlways`, `TypeCorrect`, `PartiesStay` | `[]Inv`, `[]TypeOK`, `[]PartiesExist` | `PklRoutingAssumption`: there is a position |
| `PklRoutingProofs!RoutedRight` | `RightApprovers` | |
| `NexxaProofs!SharesAddUp` | shares of any numbers sum to 100, are in range and within one of the exact value | |
| `NexxaProofs!MatchAddsUp` | `[]MatchIsWhole`, which speaks of scores that are numbers | `NexxaAssumption`: scores are whole numbers or NaN |
| `NexxaProofs!KeepsToLimiter`, `ClientsAreLimited` | `NexxaSpec` implements the limiter's `Spec`, `[]WindowBound` | `RateLimiterAssumption` |
| `NexxaProofs!ValidatedAlways`, `InTimeAlways` | `[]ValidatedIsTaken`, `[]AnsweredInTime` | `LLM_TIMEOUT` is not longer than `WriteTimeout` |
| `NexxaProofs!TypesAlways` | `[]NexxaTypeOK` | `NexxaAssumption` |
| `NexxaProofs!ListsAreCut`, `AuditsArePrefixes` | what `NormalizedList` makes of any list; `[]CvIsPrefix` | the same: the model's answer, once parsed, has lists of items and of strings |
| `BeritaProofs!SpecInv`, `SpecTypeOK` | `[]Inv`, `[]TypeOK` | `BeritaAssumption`: finitely many handlers |
| `BeritaProofs!SpecOnlyAuthorEdits`, `SpecOnlyAuthorKeepsImages` | `OnlyAuthorEdits`, `OnlyAuthorKeepsImages` | |
| `ChatMemoryProofs!Invariance`, `TypeCorrect` | `[]Inv`, `[]TypeOK` | `ChatMemoryAssumption` |
| `ChatMemoryProofs!Implementation` | `Spec => ImplementsTranscripts` | |
| `StartupProofs!CrashesAreCounted` | `[]AppliedIsRecorded` | `MigrationsAssumption` |
| `StartupProofs!ReadyIsWhole` | `StartedIsWhole` | version 1 is not rolled back, and nothing while a program starts |
| `StartupProofs!KeepsToRunner` | `StartupSpec` implements the runner's `Spec` | |
| `StartupProofs!TypesAlways` | `[]StartupTypeOK` | `StartupAssumption`: a file at least, finitely many programs |
| `StartupProofs!SeededAlways` | `[]SeededIsWhole` | no two files have one slug |
| `StartupProofs!ChunksAlways` | `[]ChunksAreFaithful` | a line that is not blank has a character |

They hold for every number of requests, users, articles, sessions, programs, handlers, processes and clients, every length of the chain,
every order of positions, every width, every number of restarts, every text and every list and number that the language model may say. Of the hypotheses in the last column,
that no two files share a slug holds of the repository's files, and what is rolled back when is up to the operator; what happens
without them, when decisions overlap, or when a process restarts with its clock behind, is in sections [5](#5-the-runs) and [8](#8-what-was-found).

*The approval workflow.* The safety properties are not inductive: they speak of the tables, and what a handler will
write into the tables depends on what it read a while ago. `Inv` adds what such a call still knows:

* `ReadsHold`: the steps before the one that the call had read as current are still approved (approvals are final, so this
  never stops being true, however stale the read), and the step it is about is its caller's own;
* `LocksHold`: a row the transaction has matched is locked by it, and still has the status that was expected;
* `RowsTogether`: a request and its steps come and go together.

`AtCommit` draws from these, and from the table invariants, that a decide call which commits is about the step whose turn
it is: if the status was `pending`, its step is undecided, hence by `DecidedInOrder` all later ones are; if it was a question,
its step has that question, and all before it are approved. `DecideKeepsTables` and `OthersSurviveCommit` show that the commit
preserves the invariants and does not disturb what other calls know; the latter is where row locks are needed. The proof
shows *why* current_step may be stale and everything but `PointsAtTheTurn` holds nevertheless: no part of `Inv` says that the
pointer is equal to the turn, only that it is not ahead. The action properties and the refinement then follow from `Inv` and
from what each action does to the tables.

The pointer is right (`TurnIsKept`) when no guru has two decide calls in flight, and `TurnInv` says why: the question that
holds a request up stands where current_step points (`QuestionAtPointer`, true in any case), a call that read the request so
finds no other question of its caller later (`QuestionsKept`), since only another call of the same guru could ask one
(`OneDecideEach`). Then the step it approves is the one its old pointer named. Get is not torn (`GetIsWhole`) because what
the first read saw is not ahead of the steps, and steps only ever become decided (`StepsGrow`).

*Ids.* `Latest`: what a process has handed out is below `(lastTime, sequence)` lexicographically, or equal, with the
exception of a call that waits for the next millisecond and has reset the sequence, and of ids from before a restart, which are
older than the clock: a process begins only when its clock is not behind, and that clock is not set back any more. `PackByTime`, `PackByNode` and `PackBySeq`
say that the packed numbers are ordered as their fields; these are the arithmetic lemmas the rest needs.

*The rate limiter.* `Ledger`: parts served in the window plus parts that are left are at most a full bucket plus what flowed
in. For the refinement, `AfterAllow` shows that an Allow of one client changes no other client's `Level`, sweeping included
(`SweptIsFull`), and `AfterTick` that time changes every `Level` as the abstract bucket.

*Accounts.* Three lemmas about what a statement may do to `users` (`Inserted`, `ProfileChanged`, `RoleChanged`, `Deleted`) and one
about `sessions` carry everything: `RowsAreRight` says that rows keep their email for ever and that the table stays unique,
whichever it was. What a handler must still know when it writes is little: `Sound` what its place says of its call, `ReadsHold` that
the row an Update had read has kept its email, so that writing it back changes nothing (`WriteSteps`). Nothing is known of seats, of
the role, or of whether the row is still there; the indexes and the row count settle that when the statement runs. One lemma per
statement shows that it is such a step. `RolesAreKept` goes back to the statements, since it is about which of them changed a role.

*Routing.* `FoundRight`: as long as nobody has edited the table (`edited`), class, jurusan and the approvers found so far are what the
table says. Any edit marks all calls in flight, so that it need not be preserved by edits at all. `PartiesStay` rests on the foreign keys alone.

*Match.* Each rounded share misses its exact value by at most a half (`RoundingError`), so the sum misses 100 by at most one
(`RoundedSum`), and the largest share can bear the difference without leaving 0 to 100. After that it is still within one of its exact
value (`LargestPays`): its error is then what the errors of the other two, of a half each, leave of the sum. `KeepsToLimiter` is a step simulation: every action of an endpoint is
`Allow`, `Tick`, `OpenWindow` or a stutter of the limiter, whose theorems then hold of the endpoints.

*Audits* (`AuditsArePrefixes`) and *chunks* are made by loops over data, which the models have as recursive functions. The
library's induction takes an operator as a parameter and cannot be used; instead `First` gives the least counterexample of a set of numbers,
from the well-founded order of the naturals, and `FromFirstToLast` is the induction over a set that follows. What an audit's
loop keeps is `Taken`: after n items, those read so far, numbered, up to the first gap or the cap. What the loop over lines keeps is
`Sound`: every position of the text read so far that is not blank is in a chunk or in what is gathered, chunks ascend and are short enough, and
every heading begins a chunk, or what is gathered. There is a lemma for each statement of the loop (`FlushSound`, `CarrySound`, `CutSound`,
`LineGathered`); the arithmetic is in `CutsRange` and `CutPlaces`: the cuts of a long line leave no gap, and a rest that is not empty.

*Articles.* Files and rows change apart from each other, so `Inv` says of each call what it still knows: an image it carries is a cover of its article, and
what it has still to remove is its article's, or was shown by the article that it deletes (`Carries`); once its article has been checked (`Checked`), this was created, by the caller
(`Knows`: articles are not created twice and never change their author, so that this stays true however long ago the check was); an article being
created is nobody else's (`Alone`). `Others` shows once and for all that the step of one call, by what it may do to files and rows (`Frame`,
`Spares`), leaves the others' knowledge true. `Room` is about the bound on uploads alone: every upload in flight has a number left.

*The chat memory.* Histories hold whole turns because only `Append` extends them, by two messages, and cutting removes an even number (`Dropped`,
`ExcessIsTurns`, where an odd limit is rounded). The refinement maps a session that is expired but still stored, and one that was swept, to
no history at all; one lemma per action shows that it is a step of `Transcripts` or none.

*Migrations.* `Behind`: the versions a program is past are recorded, whoever recorded them. `AppliedIsRecorded` counts versions against
crashes, so that it is kept by showing which step adds a version to those unrecorded (`UnrecordedStep`). `Applied`, that what is recorded is there, is
what `StartedIsWhole` needs, and what rolling back version 1 breaks.

*The knowledge base.* Types first: ids are numbers up to a bound, since each program inserts each file at most once in a run (`Passed` grows whenever
an id is taken, `Room`). `SeededIsWhole` is far from inductive. `InOrder` adds: documents are told apart by id and slug (`Keyed`); a
document in the making holds exactly the chunks its program has inserted so far, and no two programs fill one document (`Filled`); and
`NobodyMissing`: a file whose document is missing or incomplete has a program that is at it or before it, and is not lost, unless a run was broken
off or none took place. A program is lost when its slug is taken or its document deleted, and will end in a conflict. The heart is
that whoever makes another program lost is at the same file and not lost itself, so the last hope for a file never goes. Once no program is active,
nothing can be missing. `DistinctSlugs` is what keeps a program at one file from deleting the document of another; `torn` excludes the rollback
under a running program.

*Only model-checked:* liveness (`EveryCallIsAnswered`, `EveryCallReturns`, `BaseIsBuilt`), which is outside what TLAPS proves.
Every other property of a passing run is stated by a theorem.

## 8. What was found

Three runs show the code to do otherwise than the documentation says:

1. **`current_step` falls behind** (`pkl_turn_overlap`, `src/internal/domain/pkl/service.go:199`). A decide call computes
   `current_step + 1` from a row it read before its transaction, and the UPDATE checks the status only. Guru 2's call reads the
   request while guru 1's question holds it up; guru 1 resolves it, another call of guru 2 asks a question; the first call
   goes on, finds guru 2's step flagged, the request held up as it had read, approves, and writes the old pointer plus one.
   The request is pending at an approved step, and nobody can decide any more; it can only be cancelled. "Resumes the next step"
   (`docs/modules/pkl/pkl.md:99`) does not happen.
2. **A refused deletion takes the images** (`berita_refused_delete`, `src/internal/domain/berita/handler.go:230`). The handler
   removes cover and images before the service checks the author, so that a call answered 403 has removed them. "Only the article
   author can ... delete images on their own articles" (`docs/modules/berita/berita.md:109`).
3. **The rescaling turns the ranking round** (`nexxa_ranking`, `src/internal/domain/nexxa/match/content/content.go:205`). For 100, 99 and
   1 percent, the shares round to 50, 50 and 1; the excess is taken from the first of the largest, so that the answer names a major with
   49 percent and gives another one 50. "The highest score must always match nama_jurusan", the model is told
   (`src/internal/domain/nexxa/match/prompt.go:29`); it had.

Other places where code and documentation differ, met while modelling. The models follow the code; no run is about these:

* a cancel call that loses a race is answered 500 (`pkl/handler.go:186`), and not 409 (`pkl.md:103`);
* a guru whose role is taken away keeps their position (`user/service.go:109`; the check in `validatePosition` is made only when
  positions are set), goes on being chosen as an approver, and cannot decide, since the route asks for the role;
* `PUT /users/{id}` without class, jurusan or position empties them (`user/service.go:88`);
* a requester without class or jurusan is sent to any wali_kelas or kaprog (`user/pg/repository.go:88`), which is why
  `RightApprovers` speaks of requesters who have both;
* signed URLs with the bucket in their path are stored as they come (`berita/content.go:66`, as `content_test.go:85` wants), although texts are said to
  hold keys only (`berita.md:55`, `berita.md:113`);
* proxy URLs, the form in which texts go out, are stored as they come back; and images that a text names by a proxy URL or one with the bucket stay when
  the article goes, since only bare keys are recognised (`berita/content.go:41-50`; `berita.md:114` has all images deleted);
* a text may name images of other articles by their keys, which then go with this article (`berita/handler.go:231`);
* the upload of a cover stores its file before it looks at the article (`berita/handler.go:250-255`): a refused one leaves it behind;
* overlapping `Update` and `SetImage` of one article lose one of the changes (`berita/pg/repository.go:72`);
* a crash between a script and its record leaves a version that every later start fails at (`database/migrate.go:67-71`);
* two files with one slug replace each other (`knowledge/seed.go:83`);
* a process restarted while its clock is behind, or whose clock is set back after a restart, may hand out an id again; the
  primary keys refuse it;
* the percentage `"NaN"` passes all checks of match (`match/content/content.go:144`, `:180-193`): the answer is 200 with percentages that are
  left to the processor, where `nexxa.md:204` has a sum of exactly 100 or 422. `null` counts as 0;
* match asks the model about texts as they come, with their markup (`match/service.go:23-38`; `nexxa.md:208` speaks of sanitized
  input), and validate-input hands out `""` for an answer that is nothing but markup, which match then refuses; cv-review looks again;
* chat sends two requests to the model, each of which may take `LLM_TIMEOUT`, against a `WriteTimeout` chosen so that answers
  "are not cut off" (`nexxa.md:185`); the turn is remembered although its answer was not delivered;
* a timeout in the midst of the model's answer is reported as 502 (`llm/client.go:149-151`), not 504;
* chunks do not overlap in production: only a negative `Overlap` is replaced by the default (`knowledge/seed.go:46`), and nobody sets one
  (`nexxa.md` has "~100-char overlap");
* `chunkText` cuts long lines between bytes (`knowledge/seed.go:220`), possibly within a character, which PostgreSQL refuses: every run
  ends at that file. No file of the repository has so long a line. Chunks begin at headings in any case, not only "whenever the
  running chunk exceeds maxChars" (`seed.go:185`), and may be longer by one than `seed_test.go:16` has it;
* a base that the server left half-way is never completed by the server, which only looks whether it is empty; kbseed does it;
* rolling back version 8 while a program seeds starts the document ids again, and the run may insert its chunks into another
  run's document of the same id (`torn` excludes this from `SeededIsWhole`).

## 9. What is not modelled

* `analytics`: inserts rows that only a count reads, and ignores failures (it uses the context of a request that may be over).
* `cmd/seed`: inserts demo data without branches. Its ids count as a second process in `Snowflake`.
* the connection pool, so that waiting for a connection is not part of `EveryCallIsAnswered`;
* router, CORS, logging, responses, configuration, vector literals, mocks, test helpers: wiring and formatting;
* within modelled components: `List` and `Get` handlers that only read (but for `Get` of pkl, which reads twice); password
  hashing; names, titles, periods and other data no property tells apart; the rounding of floats in the rate limiter;
  which chunks chat retrieves; prompts; the wording of answers and reasons; the paths and content types of stored files.

## 10. What comes next

The order followed the weight of the parts: the approval workflow with its abstract specification and proofs, the accounts it
depends on, routing between the two, articles, then the infrastructure and the AI endpoints. Left, in this order:

1. the composition of `ChatMemory` with `Nexxa`: sessions that overlap and limits per client;
2. `List` of pkl, whose rows and steps are read by two statements as in `Get`.
