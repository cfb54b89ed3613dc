SPECIFICATION FairSpec
CONSTANTS
    Slots = {s1, s2, s3}
    NoRetry = NoRetry
    Backoff = 2
    QuietTime = 3
    MaxCrashes = 2
    Failures = {"spawn", "kill", "policy"}
    MaxStrays = 1
INVARIANTS RestartsAreBudgeted StopHolds
PROPERTIES ShutdownStopsCore CrashIsHealed
