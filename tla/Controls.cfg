SPECIFICATION ControlsSpec
CONSTANTS
  None = None
  New = New
  Builtins <- MCBuiltins
  Local = {"clear"}
  Name = {"clear", "summarize", "sum"}
  Typed = {"", "sum", "clear ", "summarize ", "noise"}
  Bare = ""
  Begins <- MCBegins
  Mentions <- MCMentions
  Tabbed <- MCTabbed
  Noise = "noise"
  Lists <- MCLists
  User = {u1}
  Link = Link
  Call = {k1, k2}
  MaxIds = 4
  MaxShares = 2
  SettingNames <- MCNames
  SettingBuiltins <- MCSettingBuiltins
  MaxChanges = 3
  Old <- MCOld
  Word = {w1, w2}
  File = {f1}
SYMMETRY Symmetry
INVARIANTS
  ControlsTypeOK
  SettingsAreSound
  
  
  InputIsSound
CHECK_DEADLOCK FALSE
