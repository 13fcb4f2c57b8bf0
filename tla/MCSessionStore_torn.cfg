SPECIFICATION Spec
CONSTANTS
  Sessions = {s1}
  Msgs = {m1, m2}
  Writers = {w1}
  Arrays = {a1, a2, a3, a4}
  NoArray = NoArray
  NoSession = NoSession
  NoMsg = NoMsg
  DiskMayFail = FALSE
  MayCrash = TRUE
SYMMETRY Symmetry
INVARIANTS
  AckedSurvivesCrash
