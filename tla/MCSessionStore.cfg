SPECIFICATION Spec
CONSTANTS
  Sessions = {s1}
  Msgs = {m1, m2, m3}
  Writers = {w1, w2}
  Arrays = {a1, a2, a3, a4}
  NoArray = NoArray
  NoSession = NoSession
  NoMsg = NoMsg
  DiskMayFail = TRUE
  MayCrash = TRUE
SYMMETRY Symmetry
INVARIANTS
  TypeOK
  AckedIsKept
  OneMessageAtRisk
  NoDuplicates
PROPERTIES
  ImplementsDurableLog
