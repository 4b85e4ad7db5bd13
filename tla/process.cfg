SPECIFICATION FairSpec
CONSTANT MaxTargets = 2
INVARIANTS TypeOK StopReleases ReadyServes NothingSentAfterStop
PROPERTIES ExitsAfterSignal
