CONSTANTS
    None = None
    MaxResults = 8
    Outcomes <- MCOutcomes
    MaxTrades = 5
    Window = 4
    LossRun = 3
    RetireAfter = 5
    Backtests <- MCBacktests
    Profiles <- MCProfiles
    Reviewed = "reviewed"
    MinSample = 3
    LossAlarm = 2
    Yearly = 252
    MaxProposals = 2
    Requests = {r1, r2}
    MaxHypotheses = 3
    Years = {1, 2}
    Nothing = Nothing
    Bars <- MCBars
    Signals <- MCSignals
    InitialCapital = 10150
    Commission = 1
    RiskBps = 100
    Warmup = 1
    LastBar = 6
    Windows = 5
    OosPercent = 30
    Never = Never
    Engines = {loop, integrator}
    InitialEquity = 10000
    Equities <- MCEquities
    Exposures <- MCExposures
    Candidates <- MCCandidates
    Mondays <- MCMondays
    FinalDay = 3
    MaxPositionSize = 200
    MaxRisk = 10
    MaxDailyLoss = 30
    MaxWeeklyLoss = 60
    MaxDrawdown = 150
    MaxLeverage = 1000
    MaxCorrelated = 300
    MaxSimultaneous = 5
SPECIFICATION LifeSpec
INVARIANTS
    GateTrail
    AllocationSound
    DrawdownRetiresForGood
    ReadersAgree
    ProposalsTighten
    NumbersAreDense
    CashExplained
    NoLookAhead
    WalkForwardSound
    DailyLossGate
    BothResetsNeeded
    SizedTradesFit
PROPERTY ImplementsLadder
\* The data and the calendar end; the trades and the proposals reach their bounds.
CHECK_DEADLOCK FALSE
