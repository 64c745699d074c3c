CONSTANT MaxOptions = 3
SPECIFICATION FairSpec
INVARIANTS TypeOK MisuseNeedsTwoCleanups ServingIsSafe ExitReleasesAll
PROPERTY SignalEndsProcess
