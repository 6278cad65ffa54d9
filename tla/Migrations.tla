----------------------------- MODULE Migrations -----------------------------
(***************************************************************************)
(* The migration runner.  The server and cmd/kbseed run it when they       *)
(* start, cmd/migrate rolls back; all of them on one database.  A script   *)
(* is applied as a whole, and recorded by a statement of its own; a        *)
(* rollback is one transaction.                                            *)
(***************************************************************************)
EXTENDS Naturals, FiniteSets

CONSTANTS Starters,  \* programs that migrate when they start
          Rollable,  \* bound: the versions that are rolled back
          Rollbacks, \* bound: how many rollbacks
          Starts,    \* bound: how often each program is started
          Crashes    \* bound: how often programs crash or lose connections

ASSUME MigrationsAssumption ==
  /\ Rollable \subseteq 1 .. 8
  /\ Rollbacks \in Nat /\ Starts \in Nat /\ Crashes \in Nat

VARIABLES
  schema,    \* what the scripts made and is still there
  recorded,  \* the table schema_migrations
  run,       \* what each program is at
  rollbacks, \* how many there were
  crashes

vars == <<schema, recorded, run, rollbacks, crashes>>

Versions == 1 .. 8

\* What each script makes: tables, with their indexes, columns and references to
\* users.  The sixth only rewrites rows.
Makes == << {"users"}, {"sessions", "sessions_fk"}, {"berita", "berita_fk"}, {"profile"},
            {"pkl", "pkl_fk"}, {}, {"analytics", "analytics_fk"}, {"kb"} >>

\* The tables that must be there for it.
Needs == << {}, {"users"}, {"users"}, {"users"}, {"users"}, {"berita"}, {"users"}, {} >>

\* It fails when its table or column is there: CREATE INDEX and ADD COLUMN cannot
\* be repeated.  Only the sixth and the eighth can.
Once == Versions \ {6, 8}

\* What rollbacks drop: users with all that refers to it.
Drops == [Makes EXCEPT ![1] = {"users", "profile", "sessions_fk", "berita_fk", "pkl_fk",
                               "analytics_fk"}]

Whole == UNION {Makes[v] : v \in Versions}

Runs == [pc : {"idle", "check", "apply", "record", "ready", "failed"},
         version : 1 .. 9, \* the migration it is at
         starts : 0 .. Starts]

\* Every variable has its type; a program is ready when all versions are behind it.
TypeOK ==
  /\ schema \subseteq Whole
  /\ recorded \subseteq Versions
  /\ run \in [Starters -> Runs]
  /\ rollbacks \in 0 .. Rollbacks /\ crashes \in 0 .. Crashes
  /\ \A p \in Starters : run[p].version = 9 <=> run[p].pc = "ready"

Init ==
  /\ schema = {} /\ recorded = {}
  /\ run = [p \in Starters |-> [pc |-> "idle", version |-> 1, starts |-> 0]]
  /\ rollbacks = 0 /\ crashes = 0
-----------------------------------------------------------------------------
\* A program is started, after it has stopped.
Start(p) ==
  /\ run[p].pc \in {"idle", "ready", "failed"}
  /\ run[p].starts < Starts
  /\ run' = [run EXCEPT ![p] = [pc |-> "check", version |-> 1, starts |-> @.starts + 1]]
  /\ UNCHANGED <<schema, recorded, rollbacks, crashes>>

\* The loop goes on to the next version, or is over.
OnToNext(r) == [r EXCEPT !.version = @ + 1, !.pc = IF r.version = 8 THEN "ready" ELSE "check"]

Goto(p, pc) == run' = [run EXCEPT ![p].pc = pc]

\* Slip: only the last version is looked up.
NotAfterLast(v) == \E w \in recorded : w >= v

\* SELECT COUNT(*) FROM schema_migrations WHERE version = $1.
IsRecorded(v) == v \in recorded

Check(p) ==
  /\ run[p].pc = "check"
  /\ IF IsRecorded(run[p].version)
     THEN run' = [run EXCEPT ![p] = OnToNext(@)]
     ELSE Goto(p, "apply")
  /\ UNCHANGED <<schema, recorded, rollbacks, crashes>>

Applicable(v) == Needs[v] \subseteq schema /\ (v \in Once => Makes[v] \cap schema = {})

Apply(p) ==
  LET v == run[p].version IN
  /\ run[p].pc = "apply"
  /\ IF Applicable(v)
     THEN schema' = schema \cup Makes[v] /\ Goto(p, "record")
     ELSE UNCHANGED schema /\ Goto(p, "failed")
  /\ UNCHANGED <<recorded, rollbacks, crashes>>

\* INSERT INTO schema_migrations, whose key is the version.
Record(p) ==
  LET v == run[p].version IN
  /\ run[p].pc = "record"
  /\ IF v \in recorded
     THEN UNCHANGED recorded /\ Goto(p, "failed")
     ELSE recorded' = recorded \cup {v} /\ run' = [run EXCEPT ![p] = OnToNext(@)]
  /\ UNCHANGED <<schema, rollbacks, crashes>>

\* A program crashes, is stopped, or loses its connection.
Fail(p) ==
  /\ crashes < Crashes
  /\ crashes' = crashes + 1
  /\ run[p].pc \in {"check", "apply", "record"}
  /\ Goto(p, "failed")
  /\ UNCHANGED <<schema, recorded, rollbacks>>

\* Slip: a rollback forgets the later versions, too.
ForgottenFrom(v) == {w \in Versions : w >= v}

\* DELETE FROM schema_migrations WHERE version = $1.
Forgotten(v) == {v}

\* RollbackMigration, by hand and while no program is starting; the sixth has no
\* script.  The check that v is recorded and the transaction are one step.
Rollback(v) ==
  /\ rollbacks < Rollbacks
  /\ v \in recorded \ {6}
  /\ \A p \in Starters : run[p].pc \in {"idle", "ready", "failed"}
  /\ schema' = schema \ Drops[v]
  /\ recorded' = recorded \ Forgotten(v)
  /\ rollbacks' = rollbacks + 1
  /\ UNCHANGED <<run, crashes>>
-----------------------------------------------------------------------------
Next == \/ \E p \in Starters : Start(p) \/ Check(p) \/ Apply(p) \/ Record(p) \/ Fail(p)
        \/ \E v \in Rollable : Rollback(v)

Spec == Init /\ [][Next]_vars
-----------------------------------------------------------------------------
(* Properties.                                                             *)

\* "Run pending SQL migrations" comes before everything else (systemDesign.md): a
\* program that gets to work finds the whole schema, whatever failed before, was done
\* by another program at the same time, or was rolled back, provided that this was not
\* version 1 (Rollable) and not done while a program was starting (Rollback).
StartedIsWhole ==
  [][\A p \in Starters : (run[p].pc # "ready" /\ run'[p].pc = "ready") => schema = Whole]_vars

\* "The runner records applied versions in schema_migrations" (design.md): what is
\* there is recorded, or about to be, except that each crash may leave one version
\* applied and unrecorded.
Unrecorded ==
  {v \in Versions : /\ Makes[v] \cap schema # {} /\ v \notin recorded
                    /\ \A p \in Starters : ~(run[p].pc = "record" /\ run[p].version = v)}

AppliedIsRecorded == Cardinality(Unrecorded) <= crashes
=============================================================================
