----------------------------- MODULE Installation -----------------------------
(***************************************************************************)
(* An installation, in the order of "make bootstrap" and of the container: *)
(* several processes migrate the database, and overlap, fail and die; once *)
(* it stands at the head of the revisions, either the seeding commands run *)
(* or the service generates and publishes.  The trigger that checks a      *)
(* publication is there if the migrations have made it.                    *)
(***************************************************************************)
EXTENDS SchemaMigrations, OnyxSeeding, Publishing

\* The migrations have made the trigger.
Triggered == <<"publish_log", "trg_publish_log_readiness_check">> \in schema.parts

InstallInit == InitSchema /\ InitSeed /\ InitPublish /\ guarded = Triggered

\* Migrations run before all else.
Migrating == InitSeed /\ InitPublish /\ UNCHANGED <<seedVars, publishVars>>

TriggerFollows == guarded' = Triggered'

\* The database at the head.  What came before makes a difference to the history variables
\* of the migrations only, so one value of these stands for all.
AtHead == /\ version = Latest /\ \A p \in Migrators : migrators[p] = Idle
          /\ crashes = 0 /\ drift = "none"
          /\ UNCHANGED <<migrationVars, guarded>>

Seeding == AtHead /\ dialect = "postgresql" /\ InitPublish /\ UNCHANGED publishVars
Serving == AtHead /\ InitSeed /\ UNCHANGED seedVars

\* Migrate, every action before the rest.
MigrationStep ==
    \/ Migrating /\ (\E p \in Migrators, goal \in Goals : Begin(p, goal)) /\ TriggerFollows
    \/ Migrating /\ (\E p \in Migrators : RunStatement(p)) /\ TriggerFollows
    \/ Migrating /\ (\E p \in Migrators : Stamp(p)) /\ TriggerFollows
    \/ Migrating /\ (\E p \in Migrators : FailMigration(p)) /\ TriggerFollows
    \/ Migrating /\ (\E p \in Migrators : Commit(p)) /\ TriggerFollows
    \/ Migrating /\ (\E p \in Migrators : Crash(p)) /\ TriggerFollows
    \/ Migrating /\ (\E p \in Migrators : BreakDeadlock(p)) /\ TriggerFollows
    \/ Migrating /\ StoreDriftEvent /\ TriggerFollows

\* Seed, every action after the migrations.
SeedStep ==
    \/ Seeding /\ \E p \in Seeders : \E cmd \in Commands : Start(p, cmd)
    \/ Seeding /\ \E p \in Seeders : LookAtSkills(p)
    \/ Seeding /\ \E p \in Seeders : CommitSkills(p)
    \/ Seeding /\ \E p \in Seeders : CheckCoverage(p)
    \/ Seeding /\ \E p \in Seeders : ListOnyx(p)
    \/ Seeding /\ \E p \in Seeders : SkipSet(p)
    \/ Seeding /\ \E p \in Seeders : LinkSkill(p)
    \/ Seeding /\ \E p \in Seeders : LookAtPrompts(p)
    \/ Seeding /\ \E p \in Seeders : LookAtDemo(p)
    \/ Seeding /\ \E p \in Seeders : CommitSeed(p)
    \/ Seeding /\ \E p \in Seeders : FailJob(p)
    \/ Seeding /\ \E p \in Seeders : AbortJob(p)
    \/ Seeding /\ \E p \in Seeders, outcome \in SeedOutcomes : CreateSet(p, outcome)
    \/ Seeding /\ \E p \in Seeders, outcome \in SeedOutcomes : CreatePersona(p, outcome)
    \/ Seeding /\ \E p \in Seeders, outcome \in SeedOutcomes : UpdatePersona(p, outcome)
    \/ Seeding /\ \E s \in Skills : GrowGold(s)
    \/ Seeding /\ CreateConsoleTopic

\* Serve, every action after the migrations.
GateStep ==
    \/ Serving /\ \E g \in Regressions, result \in {"pass", "fail"} :
                    RunExample(g, result)
    \/ Serving /\ \E o \in Outputs, eval \in EvalScores, fresh \in Freshness,
                      cites \in Citations, passed \in BOOLEAN :
                    GenerateOutput(o, passed, eval, fresh, cites)
    \/ Serving /\ \E o \in Outputs, eval \in EvalScores, fresh \in Freshness,
                      cites \in Citations, hygiene \in Hygienes :
                    GenerateArtifact(o, eval, fresh, cites, hygiene)
    \/ Serving /\ \E o \in Outputs, destination \in Destinations :
                    Publish(o, destination)

InstallSpec ==
    InstallInit /\ [][MigrationStep \/ SeedStep \/ GateStep]_<<migrationVars, seedVars,
                                                               guarded, publishVars>>

\* Every variable of every phase has its type.
InstallTypeOK == SchemaTypeOK /\ SeedTypeOK /\ PublishTypeOK
=============================================================================
