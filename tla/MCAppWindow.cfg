SPECIFICATION FairSpec
CONSTANTS
  Toolkits = {"fyne", "windows"}
  Tasks = {t1, t2}
  MaxDialogs = 2
  TypedPorts = {0, 12345}
  OldFiles <- MCFiles
  Systems <- MCSystems
  Names <- MCNames
  NameCut <- MCNameCut
  NoName = ""
  Themes = {"light", "system"}
  DefaultTheme = "system"
  Pairs = {k1}
  NoPair = NoPair
INVARIANTS
  OneCommand
  ShownQuietIsQuiet
  ExitLeavesOnlyALateStart
  ServedShown
PROPERTIES
  NoSilentExit
  RestoredAsClosed
  LaunchIsUsable
  ClickEnds
  ConfirmedCloses
