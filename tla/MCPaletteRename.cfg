SPECIFICATION Spec
CONSTANTS
  Kinds = {"paletteRename"}
  Projects = {p1, p2}
  Nobody = Nobody
  MaxInvocations = 2
INVARIANT PrefillsCurrentName
\* Pages are closed.
CHECK_DEADLOCK FALSE
