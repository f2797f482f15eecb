\* The app's agent and its grandchild, with a call of one tool each.
SPECIFICATION FairSpec
CONSTANTS
  root = root
  child = child
  leaf = leaf
  c1 = c1
  c2 = c2
  bash = bash
  Agents = {root, child, leaf}
  Root = root
  Parent <- MCParent
  Calls = {c1, c2}
  Owner <- MCOwner
  Tool <- MCTool
INVARIANT RunsOnlyAllowed
PROPERTIES WithdrawnStaysSo AbortsSettle
CHECK_DEADLOCK FALSE
