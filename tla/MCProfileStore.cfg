CONSTANTS
  Ids = {p1, p2}
  Urls = {u1, u2}
  ProfileNames = {n1}
  Enhs = {}
  Qualities = {"good"}
  Ops = {"import", "update", "update_meta", "select", "delete", "edit", "crash_core"}
  MaxFetches = 1
  MaxMishaps = 2
  MaxBeside = 1
  Prune = Prune
  Global = Global
  Local = Local
  None = None
SPECIFICATION Spec
SYMMETRY Symmetry
CHECK_DEADLOCK FALSE
INVARIANTS OneCurrent ProfilesHaveFiles CoreRunsRuntime
PROPERTY UpdatesMatchTheirUrl
