\* Two pages and one forked backend; every surface with its submissions; two
\* effects and two lists of two projects.
SPECIFICATION MCSpec
CONSTANTS
  MaxPages = 2
  Backends = {b1}
  Darwin = FALSE
  Kinds = {"create", "rename", "directory", "delete", "paletteRename",
           "paletteCreate", "navigate", "archive", "metadata"}
  Projects = {p1, p2}
  Nobody = Nobody
  MaxInvocations = 3
  Overlays = {"rename"}
  MaxEffects = 2
  MaxLists = 2
INVARIANTS
  PortsAreOwned
  MountedIsServed
  NothingOutlivesItsOwner
  LatestOnly
  EffectsRunOnce
  SelectionIsListed
PROPERTIES
  PortsPassOn
  QuitHappens
  EffectsEnd
\* The desktop quits, pages are closed, the terminal is disposed.
CHECK_DEADLOCK FALSE
