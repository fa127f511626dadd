SPECIFICATION AdminSpec
CONSTANTS
  Nothing = Nothing
  i1 = i1
  i2 = i2
  i3 = i3
  Item = {i1, i2, i3}
  Found <- MCFound
  Admins <- MCAdmins
  First <- MCFirst
  Call = {k1, k2}
  PageSize = 2
  Chunk = 1
  MaxChanges = 2
SYMMETRY CallSymmetry
INVARIANTS
  AdminTypeOK
  TableAnswersView
  PageSettles
  ExportIsAccounted
CHECK_DEADLOCK FALSE
