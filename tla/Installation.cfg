\* Two processes migrate; then two seed, or outputs of a skill are published.
CONSTANTS
    Migrators = {p1, p2}
    Dialects = {"postgresql", "sqlite"}
    Goals = {0, 13}
    MaxCrashes = 1
    Seeders = {p1, p2}
    SkillOrder <- MCSkillOrder
    ConnectorSets <- MCConnectorSets
    Minimum = 1
    FaultsAlone = 3
    FaultsTogether = 1
    Outputs = {o1}
    Regressions = {g1, g2}
    EvalScores = {500, 1000}
    Freshness = {0, 500, 800, 1000}
    Citations = {0, 1, 5}
    ConfidenceThreshold = 750
    ReadinessThreshold = 800
    LineageTarget = 3
    None = None
SPECIFICATION InstallSpec
SYMMETRY Processes
CHECK_DEADLOCK FALSE
INVARIANTS
    InstallTypeOK
    SchemaMatchesVersion
    AloneMigrationsSucceed
    HeadServesModels
    LinkedSkillsCanGenerate
    OnePersonaPerSkill
    DemoSeededOnce
    PublishedHasFreshEvidence
    PublishedIsProven
    EveryAttemptIsLogged
