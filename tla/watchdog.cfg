CONSTANTS
    SUSTAINED = 2
    Gaps = {1, 3}
    MaxTime = 9
    Watched = {"cpu", "disk"}
SPECIFICATION Spec
INVARIANTS LongStreakReported DiskReminded
PROPERTIES ReportsSustained AlertsSpaced
CHECK_DEADLOCK FALSE
