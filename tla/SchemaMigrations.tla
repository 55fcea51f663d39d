--------------------------- MODULE SchemaMigrations ---------------------------
(***************************************************************************)
(* The Alembic migrations 0001 to 0013.  A container runs "alembic upgrade *)
(* head" before the service starts, and several may start at once; an      *)
(* operator may downgrade.  On PostgreSQL a whole upgrade is one           *)
(* transaction, and a statement waits for the objects that an open         *)
(* transaction has touched; on SQLite every statement commits on its own.  *)
(*                                                                         *)
(* A schema is a set of parts <<table, name>>: the table itself, its       *)
(* unique keys, triggers, the columns that a later migration touches and   *)
(* the columns whose type is not the one of the models; and the foreign    *)
(* keys between tables.  Plain indexes and other columns are left out.     *)
(***************************************************************************)
EXTENDS Integers, Sequences, SequencesExt, FiniteSets

CONSTANTS
    Migrators,      \* processes that run Alembic
    Dialects,       \* "postgresql", "sqlite"
    Goals,          \* revisions a process migrates to
    MaxCrashes      \* bound on crashes

VARIABLES
    dialect,
    schema,         \* committed schema
    version,        \* committed alembic_version, 0 for an empty one
    migrators,
    crashes,        \* crashes so far
    torn,           \* history: a process stopped between two statements that commit alone
    brokenAlone,    \* history: a migration failed that no other process disturbed
    drift           \* a drift event of the service: "none", "stored" or "refused"

migrationVars == <<dialect, schema, version, migrators, crashes, torn, brokenAlone, drift>>

-----------------------------------------------------------------------------
(* Statements.  Only a loose one tolerates that what it adds is there already.  *)

Statement(table, adds, drops, refs, strict) ==
    [on |-> table, adds |-> adds, drops |-> drops, refs |-> refs, strict |-> strict]

Create(table, refs, parts) == Statement(table, {"table"} \cup parts, {}, refs, TRUE)
DropTable(table)           == Statement(table, {}, {"table"}, {}, TRUE)
Add(table, parts)          == Statement(table, parts, {}, {}, TRUE)
DropParts(table, parts)       == Statement(table, {}, parts, {}, TRUE)
Loose(table, adds, drops)  == Statement(table, adds, drops, {}, FALSE)

Trigger == "trg_publish_log_readiness_check"

\* SQLite has no type UUID, and the trigger is not made there.
PostgresOnly == {Trigger, "last_run_round_id: uuid", "event_id: uuid", "workspace_id: uuid",
                 "gold_id: uuid", "prompt_version_id: uuid", "round_id: uuid"}

OnDialect(d, x) == IF d = "postgresql" THEN x
                   ELSE [x EXCEPT !.adds = @ \ PostgresOnly, !.drops = @ \ PostgresOnly]

Empty == [parts |-> {}, refs |-> {}]

Tables(s) == {p[1] : p \in {q \in s.parts : q[2] = "table"}}

\* The database refuses to add what exists, to touch what does not, to reference a missing
\* table and to drop a referenced one.
Accepts(s, x) ==
    /\ "table" \in x.adds \/ x.on \in Tables(s)
    /\ x.strict => ({x.on} \X x.adds) \cap s.parts = {}
    /\ x.strict => ({x.on} \X x.drops) \subseteq s.parts
    /\ x.refs \subseteq Tables(s)
    /\ "table" \in x.drops => \A r \in s.refs : r[2] # x.on

Execute(s, x) ==
    IF "table" \in x.drops
    THEN [parts |-> {p \in s.parts : p[1] # x.on}, refs |-> {r \in s.refs : r[1] # x.on}]
    ELSE [parts |-> (s.parts \ ({x.on} \X x.drops)) \cup ({x.on} \X x.adds),
          refs |-> s.refs \cup ({x.on} \X x.refs)]

-----------------------------------------------------------------------------
(* The migrations, in the order of their statements.                       *)

Revision(up, down) == [up |-> up, down |-> down]

Up1 == << Create("skills", {}, {}),
          Create("prompt_versions", {"skills"}, {"uq_skill_version"}),
          Add("prompt_versions", {"one_active_per_skill"}),
          Create("eval_rounds", {"skills", "prompt_versions"}, {}),
          Create("eval_outputs", {"eval_rounds"}, {}),
          Create("gold_examples", {"skills", "prompt_versions"}, {}),
          Create("publish_log", {"skills", "prompt_versions", "eval_outputs"}, {}),
          Create("onyx_document_map", {}, {}) >>

Down1 == << DropTable("onyx_document_map"), DropTable("publish_log"),
            DropTable("gold_examples"), DropTable("eval_outputs"), DropTable("eval_rounds"),
            DropParts("prompt_versions", {"one_active_per_skill"}),
            DropTable("prompt_versions"), DropTable("skills") >>

GoldColumns == {"role", "ck_gold_examples_role", "expected_pass_criteria",
                "last_run_round_id", "last_result"}
ReadinessColumns == {"export_readiness", "export_breakdown_json"}

Up2 == << Add("gold_examples", GoldColumns \cup {"last_run_round_id: uuid"}),
          Create("gold_drift_events", {},
                 {"event_id: uuid", "workspace_id: uuid", "gold_id: uuid",
                       "prompt_version_id: uuid", "round_id: uuid"}),
          Add("eval_outputs", ReadinessColumns) >>

Down2 == << DropParts("eval_outputs", ReadinessColumns),
            DropTable("gold_drift_events"),
            DropParts("gold_examples", GoldColumns \cup {"last_run_round_id: uuid"}) >>

ConsoleTopics == Revision(<< Create("console_topics", {}, {}) >>,
                          << DropTable("console_topics") >>)

ConsoleEnhancements == Revision(
    << Add("console_topics", {"owner"}), Add("console_topics", {"status"}),
       Add("console_topics", {"target_decision_at"}) >>,
    << DropParts("console_topics", {"target_decision_at"}),
       DropParts("console_topics", {"status"}), DropParts("console_topics", {"owner"}) >>)

\* The rows that would break the index are deactivated first; one_active_per_skill has
\* kept them out already.
PromptActiveIndex == Revision(<< Add("prompt_versions", {"ix_one_active_per_skill"}) >>,
                              << DropParts("prompt_versions", {"ix_one_active_per_skill"}) >>)

AuditEvents == Revision(<< Create("audit_events", {}, {}) >>, << DropTable("audit_events") >>)

Up7 == << Create("artifact_feedback", {"gold_examples", "eval_outputs"}, {}),
          Create("learning_proposals", {"prompt_versions", "skills"}, {}),
          Create("production_outcomes", {"eval_outputs"}, {}),
          Create("replay_schedules", {"prompt_versions", "skills"}, {}),
          Create("replay_runs", {"eval_outputs", "prompt_versions", "eval_rounds",
                                 "replay_schedules", "skills"}, {}) >>
Down7 == << DropTable("replay_runs"), DropTable("replay_schedules"),
            DropTable("production_outcomes"), DropTable("learning_proposals"),
            DropTable("artifact_feedback") >>

GoldWorkspaceId == Revision(<< Add("gold_examples", {"workspace_id"}) >>,
                            << DropParts("gold_examples", {"workspace_id"}) >>)

ConnectorSettings == Revision(<< Create("connector_settings", {}, {}) >>,
                              << DropTable("connector_settings") >>)

SecretColumns == {"secret_ciphertext", "secret_key_id", "config_json"}

DropConnectorSync == << DropTable("connector_documents"), DropTable("connector_sync_runs"),
                        DropParts("connector_settings", SecretColumns) >>

CustomConnectorSync == Revision(
    << Add("connector_settings", SecretColumns),
       Create("connector_sync_runs", {"connector_settings"}, {}),
       Create("connector_documents", {"connector_settings", "connector_sync_runs"},
              {"uq_connector_documents_source_external"}) >>,
    DropConnectorSync)

\* A change of type succeeds as well when the column has the type already.
GoldLastRunRoundString == Revision(
    << Loose("gold_examples", {}, {"last_run_round_id: uuid"}) >>,
    << Loose("gold_examples", {"last_run_round_id: uuid"}, {}) >>)

BundleTables == << Create("context_bundles", {}, {}),
                   Create("context_sources", {"context_bundles"}, {}),
                   Create("context_entities", {"context_bundles"}, {}),
                   Create("context_claims", {"context_bundles"}, {}),
                   Create("open_questions", {"context_bundles"}, {}) >>

TopicTables == << Create("topics", {}, {"uq_topics_ws_name_type"}),
                  Create("topic_aliases", {"topics"}, {"uq_topic_aliases_ws_norm"}),
                  Create("topic_relations", {"topics"}, {}),
                  Create("context_questions", {}, {}),
                  Create("context_changes", {}, {}),
                  Create("metric_catalog", {}, {"uq_metric_catalog_ws_metric"}),
                  Create("metric_snapshots", {}, {}) >>

Up12 == << Loose("publish_log", {Trigger}, {}) >> \o BundleTables \o TopicTables

DropContext == << DropTable("metric_snapshots"), DropTable("metric_catalog"),
                  DropTable("context_changes"), DropTable("context_questions"),
                  DropTable("topic_relations"), DropTable("topic_aliases"),
                  DropTable("topics"), DropTable("open_questions"),
                  DropTable("context_claims"), DropTable("context_entities"),
                  DropTable("context_sources"), DropTable("context_bundles") >>

Down12 == DropContext \o << Loose("publish_log", {}, {Trigger}) >>

WorkflowSkillMining == Revision(
    << Create("workflow_traces", {}, {}), Create("skill_candidates", {}, {}) >>,
    << DropTable("skill_candidates"), DropTable("workflow_traces") >>)

Revisions == << Revision(Up1, Down1), Revision(Up2, Down2), ConsoleTopics,
                ConsoleEnhancements, PromptActiveIndex, AuditEvents, Revision(Up7, Down7),
                GoldWorkspaceId, ConnectorSettings, CustomConnectorSync,
                GoldLastRunRoundString, Revision(Up12, Down12), WorkflowSkillMining >>

Up   == [i \in 1..Len(Revisions) |-> Revisions[i].up]
Down == [i \in 1..Len(Revisions) |-> Revisions[i].down]

Latest == Len(Up)

RunAll(s, statements) == FoldLeft(Execute, s, statements)

\* What the first v migrations make on PostgreSQL, on a dialect, and on the one at hand.
Made == [v \in 0..Latest |-> FoldLeft(RunAll, Empty, SubSeq(Up, 1, v))]

SchemaOn(d, v) == IF d = "postgresql" THEN Made[v]
                  ELSE [Made[v] EXCEPT !.parts = {p \in @ : p[2] \notin PostgresOnly}]

SchemaAt(v) == SchemaOn(dialect, v)

ASSUME GoalsAreRevisions == Goals \subseteq 0..Latest
ASSUME DialectsAreKnown  == Dialects \subseteq {"postgresql", "sqlite"}
ASSUME CrashesAreCounted == MaxCrashes \in Nat

-----------------------------------------------------------------------------
(* The tables, foreign keys and unique keys that the ORM models declare.   *)

GovernanceModels ==
    << Create("skills", {}, {}),
       Create("prompt_versions", {"skills"}, {"uq_skill_version", "ix_one_active_per_skill"}),
       Create("eval_rounds", {"skills", "prompt_versions"}, {}),
       Create("eval_outputs", {"eval_rounds"}, ReadinessColumns),
       Create("gold_examples", {"skills", "prompt_versions"},
              {"workspace_id"} \cup (GoldColumns \ {"ck_gold_examples_role"})),
       Create("publish_log", {"skills", "prompt_versions", "eval_outputs"}, {}),
       Create("console_topics", {}, {"owner", "status", "target_decision_at"}),
       Create("onyx_document_map", {}, {}) >>

ContextModels ==
    << Create("context_bundles", {}, {}), Create("context_sources", {"context_bundles"}, {}),
       Create("context_entities", {"context_bundles"}, {}),
       Create("context_claims", {"context_bundles"}, {}),
       Create("open_questions", {"context_bundles"}, {}),
       Create("context_questions", {}, {}), Create("context_changes", {}, {}),
       Create("metric_catalog", {}, {"uq_metric_catalog_ws_metric"}),
       Create("metric_snapshots", {}, {}) >>

TopicAndConnectorModels ==
    << Create("topics", {}, {"uq_topics_ws_name_type"}),
       Create("topic_aliases", {"topics"}, {"uq_topic_aliases_ws_norm"}),
       Create("topic_relations", {"topics"}, {}),
       Create("connector_settings", {}, SecretColumns),
       Create("connector_sync_runs", {"connector_settings"}, {}),
       Create("connector_documents", {"connector_settings", "connector_sync_runs"},
              {"uq_connector_documents_source_external"}),
       Create("gold_drift_events", {}, {}), Create("audit_events", {}, {}) >>

LearningModels ==
    << Create("artifact_feedback", {"eval_outputs", "gold_examples"}, {}),
       Create("workflow_traces", {}, {}), Create("skill_candidates", {}, {}),
       Create("learning_proposals", {"skills", "prompt_versions"}, {}),
       Create("production_outcomes", {"eval_outputs"}, {}),
       Create("replay_schedules", {"skills", "prompt_versions"}, {}),
       Create("replay_runs", {"replay_schedules", "skills", "prompt_versions", "eval_rounds",
                              "eval_outputs"}, {}) >>

Models == FoldLeft(RunAll, Empty, << GovernanceModels, ContextModels,
                                     TopicAndConnectorModels, LearningModels >>)

-----------------------------------------------------------------------------
(* A process that migrates from the revision it read to its goal.          *)

Idle == [step |-> "idle", seen |-> 0, at |-> 0, goal |-> 0, next |-> 1, disturbed |-> FALSE]

Upward(m) == m.goal > m.at

\* The statements of the migration under way.
Leg(at, upward) == IF upward THEN Up[at + 1] ELSE Down[at]
Script(m) == Leg(m.at, Upward(m))

\* Its first n statements on a dialect, and what they make of the schema they start from.
Started(d, at, upward, n) == [i \in 1..n |-> OnDialect(d, Leg(at, upward)[i])]
Midway(d, at, upward, n)  == RunAll(SchemaOn(d, at), Started(d, at, upward, n))

\* The statements that lead from one revision to another.
Whole == [from, to \in 0..Latest |->
             FlattenSeq(IF from <= to THEN SubSeq(Up, from + 1, to)
                        ELSE Reverse(SubSeq(Down, to + 1, from)))]

\* The statements of the open transaction of m in the migration under way.
Begun(m) == IF m.at = m.goal THEN <<>> ELSE Started(dialect, m.at, Upward(m), m.next - 1)

Autocommit == dialect = "sqlite"

\* What m sees: the committed schema and what its own transaction did.
View(m) == IF Autocommit THEN schema
           ELSE RunAll(RunAll(schema, Whole[m.seen, m.at]), Begun(m))

Touches(x) == {x.on} \cup x.refs
AllTouched(statements) == UNION {Touches(x) : x \in ToSet(statements)}
Touched == [from, to \in 0..Latest |-> AllTouched(Whole[from, to])]

\* Bug: the row of the revision is not locked.
LockedObjects(m) ==
    IF Autocommit \/ m.step = "idle" THEN {}
    ELSE Touched[m.seen, m.at] \cup AllTouched(Begun(m))

Locked(m) ==
    IF Autocommit \/ m.step = "idle" THEN {}
    ELSE Touched[m.seen, m.at] \cup AllTouched(Begun(m))
           \cup (IF m.at # m.seen THEN {"alembic_version"} ELSE {})

Free(p, objects) == \A q \in Migrators \ {p} : Locked(migrators[q]) \cap objects = {}

InitSchema ==
    /\ dialect \in Dialects
    /\ version \in 0..Latest
    /\ schema = SchemaAt(version)
    /\ migrators = [p \in Migrators |-> Idle]
    /\ crashes = 0 /\ torn = FALSE /\ brokenAlone = FALSE
    /\ drift = "none"

\* Bug: several processes migrate a SQLite file.
BeginTogether(p, goal) ==
    /\ migrators[p] = Idle /\ version # goal
    /\ migrators' = [migrators EXCEPT ![p] =
           [Idle EXCEPT !.step = "run", !.seen = version, !.at = version, !.goal = goal]]
    /\ UNCHANGED <<dialect, schema, version, crashes, torn, brokenAlone, drift>>

\* The revision is read without a lock.  SQLite is for one local process.
Begin(p, goal) ==
    /\ migrators[p] = Idle /\ version # goal
    /\ Autocommit => \A q \in Migrators : migrators[q] = Idle
    /\ migrators' = [migrators EXCEPT ![p] =
           [Idle EXCEPT !.step = "run", !.seen = version, !.at = version, !.goal = goal]]
    /\ UNCHANGED <<dialect, schema, version, crashes, torn, brokenAlone, drift>>

NextStatement(m) == OnDialect(dialect, Script(m)[m.next])
HasStatement(m) == m.step = "run" /\ m.at # m.goal /\ m.next <= Len(Script(m))

RunStatement(p) ==
    LET m == migrators[p]
    IN  /\ HasStatement(m)
        /\ Free(p, Touches(NextStatement(m)))
        /\ Accepts(View(m), NextStatement(m))
        /\ migrators' = [migrators EXCEPT ![p].next = m.next + 1]
        /\ schema' = IF Autocommit THEN Execute(schema, NextStatement(m)) ELSE schema
        /\ UNCHANGED <<dialect, version, crashes, torn, brokenAlone, drift>>

NeedsStamp(m) == m.step = "run" /\ m.at # m.goal /\ m.next > Len(Script(m))

\* Bug: the revision left is not compared.
StampAlways(m) == TRUE

\* UPDATE alembic_version ... WHERE version_num = the revision left: one row must match.
\* The first migration inserts the row, the last downgrade deletes it.
StampMatches(m) == m.at # m.seen \/ version = m.seen

\* Bug: a downgrade counts the revision up.
StampUpward(p) ==
    LET m == migrators[p]
    IN  /\ NeedsStamp(m) /\ Free(p, {"alembic_version"}) /\ StampMatches(m)
        /\ migrators' = [migrators EXCEPT ![p].at = m.at + 1, ![p].next = 1]
        /\ UNCHANGED <<dialect, version, schema, crashes, torn, brokenAlone, drift>>

Stamp(p) ==
    LET m == migrators[p]
        to == IF Upward(m) THEN m.at + 1 ELSE m.at - 1
    IN  /\ NeedsStamp(m) /\ Free(p, {"alembic_version"}) /\ StampMatches(m)
        /\ migrators' = [migrators EXCEPT ![p].at = to, ![p].next = 1,
                                          ![p].seen = IF Autocommit THEN to ELSE m.seen]
        /\ version' = IF Autocommit THEN to ELSE version
        /\ UNCHANGED <<dialect, schema, crashes, torn, brokenAlone, drift>>

\* A statement is refused or the revision is not the one that was read: the transaction is
\* rolled back.
FailMigration(p) ==
    LET m == migrators[p]
    IN  /\ \/ /\ HasStatement(m)
              /\ Free(p, Touches(NextStatement(m)))
              /\ ~Accepts(View(m), NextStatement(m))
           \/ NeedsStamp(m) /\ Free(p, {"alembic_version"}) /\ ~StampMatches(m)
        /\ migrators' = [migrators EXCEPT ![p] = Idle]
        /\ torn' = (torn \/ Autocommit)
        /\ brokenAlone' = (brokenAlone \/ (~m.disturbed /\ ~torn))
        /\ UNCHANGED <<dialect, schema, version, crashes, drift>>

Commit(p) ==
    LET m == migrators[p]
    IN  /\ m.step = "run" /\ m.at = m.goal
        /\ schema' = View(m)
        /\ version' = m.at
        /\ migrators' = [q \in Migrators |->
               IF q = p THEN Idle
               ELSE IF migrators[q] = Idle THEN Idle
               ELSE [migrators[q] EXCEPT !.disturbed = TRUE]]
        /\ UNCHANGED <<dialect, crashes, torn, brokenAlone, drift>>

\* The process dies: PostgreSQL rolls its transaction back, SQLite keeps what it ran.
Crash(p) ==
    /\ migrators[p] # Idle /\ crashes < MaxCrashes
    /\ crashes' = crashes + 1
    /\ torn' = (torn \/ (Autocommit /\ migrators[p].next > 1))
    /\ migrators' = [migrators EXCEPT ![p] = Idle]
    /\ UNCHANGED <<dialect, schema, version, brokenAlone, drift>>

Awaited(m) == IF HasStatement(m) THEN Touches(NextStatement(m))
              ELSE IF NeedsStamp(m) THEN {"alembic_version"} ELSE {}

Waits(p, q) == p # q /\ Awaited(migrators[p]) \cap Locked(migrators[q]) # {}

\* PostgreSQL aborts one of two transactions that wait for each other.
BreakDeadlock(p) ==
    /\ \E q \in Migrators : Waits(p, q) /\ Waits(q, p)
    /\ migrators' = [migrators EXCEPT ![p] = Idle]
    /\ UNCHANGED <<dialect, schema, version, crashes, torn, brokenAlone, drift>>

\* At the head the service stores a drift event; the models declare its ids as strings, which
\* a UUID column refuses (the workspace of an output's event is even the empty string).
StoreDriftEvent ==
    /\ version = Latest /\ drift = "none"
    /\ \A p \in Migrators : Locked(migrators[p]) = {}
    /\ drift' = IF \E p \in schema.parts :
                     p \in {"gold_drift_events"} \X {"event_id: uuid", "workspace_id: uuid"}
                THEN "refused" ELSE "stored"
    /\ UNCHANGED <<dialect, schema, version, migrators, crashes, torn, brokenAlone>>

Migrate == \/ \E p \in Migrators : \E goal \in Goals : Begin(p, goal)
           \/ \E p \in Migrators :
                \/ RunStatement(p) \/ Stamp(p) \/ FailMigration(p) \/ Commit(p)
                \/ Crash(p) \/ BreakDeadlock(p)
           \/ StoreDriftEvent

MigrationSpec == InitSchema /\ [][Migrate]_migrationVars

-----------------------------------------------------------------------------
(* What the theorems assume of the scripts, which are data: TLC computes it. *)

\* On its own a leg of a dialect is accepted statement by statement, and ends in the schema of
\* the revision it leads to.
LegFits(d, at, upward) ==
    LET script == Leg(at, upward)
        mid(n) == Midway(d, at, upward, n)
    IN  /\ Len(script) \in 1..19
        /\ \A n \in 1..Len(script) :
              LET x == OnDialect(d, script[n])
              IN  Accepts(mid(n - 1), x) /\ Execute(mid(n - 1), x) = mid(n)
        /\ mid(Len(script)) = SchemaOn(d, IF upward THEN at + 1 ELSE at - 1)

LegsFit == /\ Latest \in Nat \ {0}
           /\ \A d \in {"postgresql", "sqlite"}, v \in 0..Latest :
                 /\ RunAll(SchemaOn(d, v), <<>>) = SchemaOn(d, v)
                 /\ v < Latest => LegFits(d, v, TRUE)
                 /\ v > 0 => LegFits(d, v, FALSE)

\* Several legs in one transaction do what they do one by one.
LegsCompose == \A from, to \in 0..Latest :
    RunAll(SchemaOn("postgresql", from), Whole[from, to]) = SchemaOn("postgresql", to)

\* At the head, s is what the models declare.
Serves(s) == /\ Tables(s) = Tables(Models)
             /\ s.refs = Models.refs
             /\ Models.parts \subseteq s.parts

HeadFits == \A d \in {"postgresql", "sqlite"} : Serves(SchemaOn(d, Latest))

-----------------------------------------------------------------------------
Migrator == [step : {"idle", "run"}, seen : 0..Latest, at : 0..Latest, goal : 0..Latest,
             next : 1..20, disturbed : BOOLEAN]

\* Every variable has its type.
SchemaTypeOK ==
    /\ dialect \in Dialects /\ version \in 0..Latest
    /\ migrators \in [Migrators -> Migrator]
    /\ crashes \in 0..MaxCrashes /\ torn \in BOOLEAN /\ brokenAlone \in BOOLEAN
    /\ drift \in {"none", "stored", "refused"}

\* The committed schema is the one that the migrations up to the committed revision make,
\* though upgrades and downgrades of several processes overlap, fail and crash: a downgrade
\* undoes its upgrade, and no migration is committed twice.
SchemaMatchesVersion == ~torn /\ (\A p \in Migrators : Autocommit => migrators[p] = Idle)
                            => schema = SchemaAt(version)

\* A migration that nobody disturbs never fails: it creates referenced tables before, and
\* drops them after, the tables that reference them.
AloneMigrationsSucceed == ~brokenAlone

\* At the head the service finds every table, foreign key and unique key of its models, and
\* no other table or foreign key.
HeadServesModels ==
    version = Latest /\ ~torn /\ (\A p \in Migrators : Autocommit => migrators[p] = Idle)
        => Serves(schema)

\* README.md:27: drift events are stored in SQL.
DriftEventsAreStored == drift # "refused"
=============================================================================
