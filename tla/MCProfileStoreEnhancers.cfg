CONSTANTS
  Ids = {p1}
  Urls = {}
  ProfileNames = {n1, n2}
  Enhs = {e1}
  Qualities = {"good", "bad"}
  Ops = {"import_file", "save_content", "update_meta", "save_enhancer", "delete_enhancer", "toggle_enhancer", "reorder_enhancers", "stop_core"}
  MaxFetches = 1
  MaxMishaps = 1
  MaxBeside = 1
  Prune = Prune
  Global = Global
  Local = Local
  None = None
SPECIFICATION Spec
SYMMETRY Symmetry
CHECK_DEADLOCK FALSE
INVARIANTS EnhancersHaveFiles RuntimeFollowsIndex RollbackRestores
