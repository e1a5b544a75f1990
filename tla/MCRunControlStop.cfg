SPECIFICATION MCSpec
CONSTANTS
    m = m
    s = s
    t1 = t1
    t2 = t2
    None = None
    Devices = {m, s}
    Targets = {t1, t2}
    Jobs <- RunJobs
    MaxClicks = 3
INVARIANTS
    StopEndsItsReadout
