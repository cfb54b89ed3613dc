SPECIFICATION Spec
CONSTANTS
    None = None
    Failures = {"kill", "spawn", "orphans", "scm", "ipc", "timeout", "hosted", "installer", "stale", "runtime", "persist", "reload", "confirm", "refresh", "rollback"}
INVARIANTS TunExcludesSidecar SettingsAgree
PROPERTIES RollbackRestores StopStops
