CONSTANTS
    Never = Never
    Engines = {loop, integrator}
    InitialEquity = 10000
    Equities <- MCEquities
    Exposures <- MCExposures
    Candidates <- MCCandidates
    Mondays <- MCMondays
    FinalDay = 3
    MaxPositionSize = 200
    MaxRisk = 10
    MaxDailyLoss = 30
    MaxWeeklyLoss = 60
    MaxDrawdown = 150
    MaxLeverage = 1000
    MaxCorrelated = 300
    MaxSimultaneous = 5
SPECIFICATION RESpec
INVARIANT RiskPerTradeCapped
