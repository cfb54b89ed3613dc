SPECIFICATION MCFairSpec
CONSTANTS
    NoCore = NoCore
    RestartWindow = 1
    RestartMax = 2
    Failures = {"spawn", "kill", "answer"}
    MaxGeneration = 8
    MaxTime = 2
INVARIANTS OwnedProcess StoppedIsFinal CrashLoopIsCut
PROPERTIES ImplementsSupervisor SelfHealing
CHECK_DEADLOCK FALSE
