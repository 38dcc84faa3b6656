SPECIFICATION GenSpec
CONSTANTS
  Program = "gen_more"
  FirstTypes = {1}
  Mote = {"a", "b"}
  Instants <- MCInstants
  MaxLines = 1
INVARIANTS
  LabelsMatch
