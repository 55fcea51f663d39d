\* Two runners with batches of two, one crash or error, and a console.
CONSTANTS
    goldReplay = goldReplay
    refresh = refresh
    refreshBack = refreshBack
    example = example
    jira = jira
    slack = slack
    Schedules = {goldReplay, refresh, refreshBack}
    Kind <- KindOf
    Writes <- WritesOf
    Newest = refreshBack
    Runners = {w1, w2}
    Limit = 2
    None = None
SPECIFICATION FairSpec
INVARIANTS
    TypeOK
    RunningHasRunner
    OncePerDue
    OncePerRunner
PROPERTY
    EveryDueScheduleRuns
