\* Two syncs at a time, refused documents, lost answers and crashes.
CONSTANTS
    Docs = {d1, d2}
    Contents <- TwoContents
    Edits <- OneEdit
    Requests = {q1, q2}
    Kinds = {"sync", "config", "secret"}
    Faults = {"ingest", "crash"}
    MaxCrashes = 1
    PersistenceReady = TRUE
    None = None
SYMMETRY Interchangeable
SPECIFICATION Spec
INVARIANTS
    TypeOK
PROPERTIES
    SuccessLeavesNoneOut
