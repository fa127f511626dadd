SPECIFICATION PageSpec
CONSTANTS
  ConvId = {c1, c2}
  None = None
  Draft = Draft
  Call = {k1, k2}
  PageSize = 1
  MaxHaste = 1
SYMMETRY Symmetric
INVARIANT PageTypeOK
INVARIANT PageSettles
