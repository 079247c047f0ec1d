SPECIFICATION MCSpec
CONSTANTS
  c1 = c1
  c2 = c2
  Blank = Blank
  Clients = {c1, c2}
  Ops = {"settings", "password", "power"}
  Configs = {"small", "large"}
  Passwords = {"p1"}
  Powers = {"running", "stopped"}
  Faulty = TRUE
  MaxTasks = 2
SYMMETRY Symmetry
INVARIANTS TypeOK Converged PowerConverged RealTruthful
CHECK_DEADLOCK FALSE
