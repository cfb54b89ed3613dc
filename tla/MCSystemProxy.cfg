SPECIFICATION Spec
CONSTANTS
    Ports = {p1, p2}
    Switches = {TRUE, FALSE}
    Down = Down
    None = None
    MaxGen = 3
    Failures = {"persist", "set", "reload", "hotkeys"}
SYMMETRY Symmetry
INVARIANTS SettingsTakeEffect PortsAgree
