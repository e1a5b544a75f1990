SPECIFICATION MCSpec
CONSTANTS
    d1 = d1
    d2 = d2
    t1 = t1
    t2 = t2
    None = None
    Devices = {d1, d2}
    Targets = {t1, t2}
    Jobs <- PulserJobs
    Busses = {0}
    NumSteps = 2
    MaxTests = 2
    MaxEdits = 2
INVARIANTS
    TypeOK
    JobReachesItsTarget
    PendingIsOutstanding
    PulsersEndOff
PROPERTIES
    ImplementsJobService
    StepsGoOn
    GuiIsNotStuck
CHECK_DEADLOCK FALSE
