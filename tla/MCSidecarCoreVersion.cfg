SPECIFICATION MCFairSpec
CONSTANTS
    NoCore = NoCore
    RestartWindow = 0
    RestartMax = 1
    Failures = {}
    MaxGeneration = 6
    MaxTime = 0
PROPERTY VersionEventuallyKnown
CHECK_DEADLOCK FALSE
