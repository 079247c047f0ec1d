SPECIFICATION Spec
CONSTANTS
  c1 = c1
  c2 = c2
  Blank = Blank
  Clients = {c1}
  Ops = {"password"}
  Configs = {"small", "large"}
  Passwords = {"p1", "p2"}
  Powers = {}
  Faulty = FALSE
  MaxTasks = 3
SYMMETRY Symmetry
INVARIANTS PasswordConverged
CHECK_DEADLOCK FALSE
