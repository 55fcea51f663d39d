\* One request at a time on every endpoint, without faults.
CONSTANTS
    Docs = {d1, d2}
    Contents <- TwoContents
    Edits <- OneEdit
    Requests = {q1}
    Kinds = {"sync", "bridge", "config", "secret", "unsecret", "probe", "docset", "activate", "deactivate"}
    Faults = {}
    MaxCrashes = 0
    PersistenceReady = TRUE
    None = None
SPECIFICATION FairSpec
INVARIANTS
    RowsMatchIndex
    ActiveIsConfigured
PROPERTIES
    SuccessIndexesWhatWasPulled
    IndexCatchesUp
