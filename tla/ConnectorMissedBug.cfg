\* An update that Onyx refuses once is skipped by the syncs that follow.
CONSTANTS
    Docs = {d1}
    Contents <- TwoContents
    Edits <- OneEdit
    Requests = {q1}
    Kinds = {"sync", "config", "secret"}
    Faults = {"ingest"}
    MaxCrashes = 0
    PersistenceReady = TRUE
    None = None
SPECIFICATION Spec
PROPERTIES
    SuccessIndexesWhatWasPulled
