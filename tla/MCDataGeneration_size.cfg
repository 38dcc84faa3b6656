SPECIFICATION GenSpec
CONSTANTS
  Program = "gen_size"
  FirstTypes <- MCAnyConf
  Mote = {"a", "b"}
  Instants <- MCInstants
  MaxLines = 4
INVARIANTS
  LabelsMatch
  EveryLineInOneWindow
  RowsAreUpToDate
  WindowIsRight
