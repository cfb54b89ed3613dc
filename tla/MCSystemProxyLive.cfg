SPECIFICATION FairSpec
CONSTANTS
    Ports = {p1}
    Switches = {TRUE, FALSE}
    Down = Down
    None = None
    MaxGen = 3
    Failures = {"runtime", "persist", "get", "reload", "hotkeys", "rollback", "stop", "start", "launch", "drift", "kill"}
PROPERTIES GuardRepairs
