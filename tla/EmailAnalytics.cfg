SPECIFICATION FairSpec
CONSTANTS
    e1 = e1
    e2 = e2
    e3 = e3
    None = None
    Events <- ThreeEvents
    At <- TwoTimes
    Kind <- BothKinds
    Email <- TwoEmails
    Warming = {e1}
    Windows <- OneWindow
    Configs <- TwoConfigs
    Second = 2
    Margin = 2
    Trust = 4
    Page = 2
    Budget = 3
    MaxTime = 7
    MaxMoves = 2
INVARIANTS TypeOK NothingIsPassedUnlessJumped StatsAgreeUnlessFailed
PROPERTIES EveryFetchEnds
