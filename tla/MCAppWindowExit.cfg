SPECIFICATION Spec
CONSTANTS
  Toolkits = {"fyne"}
  Tasks = {t1, t2}
  MaxDialogs = 1
  TypedPorts = {0, 12345}
  OldFiles <- MCFiles
  Systems <- MCSystems
  Names <- MCNames
  NameCut <- MCNameCut
  NoName = ""
  Themes = {"light", "system"}
  DefaultTheme = "system"
  Pairs = {k1}
  NoPair = NoPair
INVARIANTS
  ExitsAfterCleanup
CHECK_DEADLOCK FALSE
