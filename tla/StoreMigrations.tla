---------------------------- MODULE StoreMigrations ----------------------------
(***************************************************************************)
(* The migration framework of the frontend (lib/migrations): the registry  *)
(* of each store, the run over several versions, the rollback, on data     *)
(* that an earlier release may have left.  The framework is modelled as    *)
(* its tests call it, on the state of a store; StorePersistence shows what *)
(* comes of it when it is given zustand's envelope instead.                *)
(***************************************************************************)
EXTENDS Naturals, Sequences, FiniteSets, SequencesExt

CONSTANTS Ids,          \* project ids
          MaxRuns       \* bound of the model: runs of the framework

\* Assumed of the constants wherever this module is instantiated.
MigrationsAssumption == MaxRuns \in Nat /\ IsFiniteSet(Ids)

VARIABLES kind,      \* the store: "rag" or "settings"
          data,      \* its state, or what was left of it
          schema,    \* the version that the state has
          runs,      \* how often the framework has run
          via,       \* how the state came about: an older release, a migration, a rollback
          legacy     \* history: the state before the first run, its version, and the
                     \* lowest version the store has had

migrationVars == <<kind, data, schema, runs, via, legacy>>

Latest == 3                   \* RAG_STORE_VERSION; and of the settings registry
Missing == "missing"          \* a field that is not there
Default == "default"
Failed == [failed |-> TRUE]

(***************************************************************************)
(* The state of the RAG store: projects by id, the list of ids, the active *)
(* project.  Of a project only the fields that migrations look at: whether *)
(* it has those every version needs, its status, its count of retries.     *)
(***************************************************************************)
Project == [whole : BOOLEAN, status : {Missing, "idle", "ready"}, retries : {Missing, Default, "1"}]
Field(value, otherwise) == IF value = Missing THEN otherwise ELSE value

(* What a slip would make of it: every id is pushed again. *)
RagToV1PushesAll(d) == [d EXCEPT !.ids = @ \o SetToSeq(DOMAIN d.projects)]
KnownIds(d) ==
    LET known[n \in 0 .. Len(d.ids)] ==
          IF n = 0 THEN <<>>
          ELSE IF d.ids[n] \in DOMAIN d.projects THEN Append(known[n - 1], d.ids[n])
          ELSE known[n - 1]
    IN  known[Len(d.ids)]
MigrateRagToV1(d) ==
    [d EXCEPT !.ids = KnownIds(d) \o SetToSeq(DOMAIN d.projects \ ToSet(KnownIds(d)))]

MigrateRagToV2(d) ==
    IF \E id \in DOMAIN d.projects : ~d.projects[id].whole THEN Failed
    ELSE [d EXCEPT !.projects = [id \in DOMAIN d.projects |->
                      [d.projects[id] EXCEPT !.status = Field(@, "idle"), !.retries = Field(@, Default)]],
                   !.ids = SetToSeq(DOMAIN d.projects)]

(* Whether the data has been migrated is read off the first project. *)
FirstProject(d) == SetToSeq(DOMAIN d.projects)[1]
NeverHasRetries(d) == FALSE        \* a slip: the data is always migrated
HasRetries(d) == DOMAIN d.projects # {} /\ d.projects[FirstProject(d)].retries # Missing
MigrateRagToV3(d) ==
    IF HasRetries(d) THEN d
    ELSE LET v2 == MigrateRagToV2(d)
         IN  IF v2 = Failed THEN Failed
             ELSE [v2 EXCEPT !.projects = [id \in DOMAIN v2.projects |->
                                             [v2.projects[id] EXCEPT !.retries = Default]]]

RollbackRagToV2(d) ==
    [d EXCEPT !.projects = [id \in DOMAIN d.projects |-> [d.projects[id] EXCEPT !.retries = Missing]]]

(***************************************************************************)
(* The settings: a value for each field, which may be missing or, out of   *)
(* an older file, of the wrong type.  Each version names its own fields.   *)
(***************************************************************************)
Fields == {"language", "density", "showTokenIndicator"}
Since == [language |-> 1, density |-> 2, showTokenIndicator |-> 3]
Values == {Missing, Default, "chosen", "wrongType"}
DefaultsWin(d) == [f \in Fields |-> Default]      \* a slip: spread in the wrong order
WithDefaults(d) == [f \in Fields |-> Field(d[f], Default)]

MigrateSettings(to, d) ==
    [f \in Fields |-> IF to > 1 /\ Since[f] = to /\ d[f] = "wrongType" THEN Default
                      ELSE WithDefaults(d)[f]]
RollbackToKeys(to, d) == [f \in {f \in Fields : Since[f] <= to} |-> d[f]]    \* a slip
RollbackSettings(to, d) == [f \in Fields |-> IF Since[f] > to THEN Missing ELSE d[f]]

(* The registries. *)
Migration(to, d) == IF kind = "settings" THEN MigrateSettings(to, d)
                    ELSE CASE to = 1 -> MigrateRagToV1(d)
                           [] to = 2 -> MigrateRagToV2(d)
                           [] OTHER  -> MigrateRagToV3(d)
Rollback(to, d) == IF kind = "settings" THEN RollbackSettings(to, d)
                   ELSE IF to = 2 THEN RollbackRagToV2(d) ELSE d

(* The schemas of the latest versions, which also fill in what may miss.   *)
ValidateSettings(d) == IF \E f \in Fields : d[f] = "wrongType" THEN Failed ELSE WithDefaults(d)
ValidateRag(d) ==
    IF \E id \in DOMAIN d.projects : ~d.projects[id].whole \/ d.projects[id].status = Missing
    THEN Failed
    ELSE [d EXCEPT !.projects = [id \in DOMAIN d.projects |->
                                   [d.projects[id] EXCEPT !.retries = Field(@, Default)]]]
Validated(d) == IF d = Failed THEN Failed
                ELSE IF kind = "settings" THEN ValidateSettings(d) ELSE ValidateRag(d)

(* runMigrations: one version after the other, up to the latest, then the  *)
(* schema; the first step that throws ends the run with an error and no    *)
(* data.  rollbackMigrations goes the other way.                           *)
Stepped(v, from, d) == IF d = Failed \/ v <= from THEN d ELSE Migration(v, d)
Migrated(d, from) ==
    Validated(Stepped(3, from, Stepped(2, from, Stepped(1, from, d))))
Undone(v, from, to, d) == IF to <= v /\ v < from THEN Rollback(v, d) ELSE d
RolledBack(d, from, to) ==
    Undone(0, from, to, Undone(1, from, to, Undone(2, from, to, d)))

-----------------------------------------------------------------------------
(* What a release of each version may have left behind: ids out of step    *)
(* with the projects, which was seen in production, and in version 0       *)
(* projects without their fields; retry counts came with version 3.        *)
RagData == [projects : UNION {[S -> Project] : S \in SUBSET Ids},
            ids : UNION {[1 .. n -> Ids] : n \in 0 .. 2}, active : Ids \union {"none"}]
LeftBy(v, d) == \A id \in DOMAIN d.projects :
                   /\ v > 0 => d.projects[id].whole
                   /\ v > 1 => d.projects[id].status # Missing
                   /\ d.projects[id].retries = Missing <=> v < 3
SettingsLeftBy(v, d) == \A f \in Fields : Since[f] > v => d[f] = Missing

Init == /\ schema \in 0 .. Latest
        /\ \/ kind = "rag" /\ data \in {d \in RagData : d.active = "none" /\ LeftBy(schema, d)}
           \/ kind = "settings" /\ data \in {d \in [Fields -> Values] : SettingsLeftBy(schema, d)}
        /\ runs = 0 /\ via = "release" /\ legacy = [data |-> data, schema |-> schema, low |-> schema]

Run(d, v, how) ==
             /\ runs < MaxRuns
             /\ runs' = runs + 1
             /\ IF d = Failed THEN UNCHANGED <<data, schema, via, legacy>>
                              ELSE /\ data' = d /\ schema' = v /\ via' = how
                                   /\ legacy' = [legacy EXCEPT !.low = IF v < @ THEN v ELSE @]
             /\ UNCHANGED kind

Upgrade == schema < Latest /\ Run(Migrated(data, schema), Latest, "migration")

(* Refused when it does not go back; every registered step can be undone.  *)
RollBackTo(v) == v < schema /\ Run(RolledBack(data, schema, v), v, "rollback")

(* A migration that runs once more on what it has already migrated: the    *)
(* version key was not written after the data, or could not be read.       *)
Again == schema > 0 /\ Run(Migration(schema, data), schema, "migration")

Next == Upgrade \/ (\E v \in 0 .. Latest - 1 : RollBackTo(v)) \/ Again
Spec == Init /\ [][Next]_migrationVars

-----------------------------------------------------------------------------
TypeOK == /\ kind \in {"rag", "settings"} /\ schema \in 0 .. Latest /\ runs \in 0 .. MaxRuns
          /\ kind = "settings" => data \in [Fields -> Values]
          /\ kind = "rag" => DOMAIN data.projects \subseteq Ids /\ data.ids \in Seq(Ids)

(* "All migrations are sequential, idempotent, and validated": to run one  *)
(* again on its own result changes nothing.                                *)
AgainChangesNothing ==
    [][via = "migration" /\ via' = via /\ schema' = schema => data' = data]_migrationVars

(***************************************************************************)
(* However the store goes up and down through the versions, no project and *)
(* no status is lost, nor a count of retries unless it was rolled back,    *)
(* and an upgrade leaves every project in the list of ids once ("prevent   *)
(* desync between projects map and projectIds array").                     *)
(***************************************************************************)
ProjectsSurvive ==
    kind = "rag" =>
      /\ DOMAIN data.projects = DOMAIN legacy.data.projects
      /\ \A id \in DOMAIN legacy.data.projects :
            legacy.data.projects[id].status # Missing => data.projects[id].status = legacy.data.projects[id].status
      /\ legacy.low = Latest => data.projects = legacy.data.projects
      /\ (legacy.schema < Latest /\ schema = Latest) => IsInjective(data.ids) /\ ToSet(data.ids) = DOMAIN data.projects

(***************************************************************************)
(* At the latest version the settings are complete, and what the user had  *)
(* chosen is still there unless a rollback below the version of its field  *)
(* has dropped it.                                                         *)
(***************************************************************************)
SettingsComplete ==
    (kind = "settings" /\ runs > 0 /\ schema = Latest) =>
        \A f \in Fields :
            /\ data[f] # Missing
            /\ (legacy.data[f] = "chosen" /\ Since[f] <= legacy.low) => data[f] = "chosen"

=============================================================================
