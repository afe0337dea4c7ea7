SPECIFICATION FairSpec
CONSTANTS
    Manual = {m1, m2}
    Scheduler = Scheduler
    Nobody = Nobody
    Request = {q1, q2}
    Projects = 3
    Allowed = {"fail", "dbfail", "crash", "signal"}
INVARIANT EngineNeverRefuses
PROPERTY SuccessIsComplete
PROPERTY StrategyOnlyDegrades
PROPERTY RunsRecur
