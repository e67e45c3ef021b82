SPECIFICATION Spec
CONSTANTS
  Nodes = {root, n1, n2, n3}
  Root = root
  Null = null
  Hooks = {h1, h2, h3}
  Threads = {t1, t2}
  MaxChanges = 6
INVARIANT SetHooksAreListed
INVARIANT WalkersStayOnTheList
INVARIANT EachHookRunsOnce
