SPECIFICATION Spec
CONSTANTS
  ann = ann
  ben = ben
  Request = {r1, r2, r3}
  MaxConvs = 3
  User = {ann, ben}
  OwnerOf <- MCOwnerOf
  Chunk = 2
SYMMETRY Requests
\* Requests are made once: when all have ended the model stops.
CHECK_DEADLOCK FALSE
INVARIANT TypeOK
INVARIANT RowsAreSound
INVARIANT ExportIsWhole
PROPERTY RatingsAreKept
