SPECIFICATION Spec
CONSTANTS
  NoDocument = NoDocument
  View = View
  Packs = {p1, p2}
  Creations = {"q"}
  Sessions = {s1, s2}
  MaxSaves = 2
  MaxMishaps = 1
SYMMETRY WorkspaceSymmetry
CHECK_DEADLOCK FALSE
INVARIANT AppliedOnce
PROPERTY EditsBuildOnWhatWasRead
