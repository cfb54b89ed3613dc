SPECIFICATION Spec
CONSTANTS
    Ports = {p1}
    Switches = {TRUE, FALSE}
    Down = Down
    None = None
    MaxGen = 3
    Failures = {}
PROPERTIES ExitLeavesProxyOff
