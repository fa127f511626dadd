SPECIFICATION RagFairSpec
CONSTANTS
  report = report
  update = update
  copy = copy
  handbook = handbook
  annex = annex
  facts = facts
  opinions = opinions
  Doc = {report, update}
  NameOf <- MCNameOf
  ContentOf <- MCContentOf
  Replacing = {report, update}
  NoDoc = NoDoc
INVARIANT RagTypeOK
INVARIANT RowsAreTrue
PROPERTY DoneIsFinal
PROPERTY SeenIsSettled
