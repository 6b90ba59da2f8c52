SPECIFICATION Spec
CONSTANTS
  Workers = {w1}
  Addresses = {A}
  Nobody = Nobody
  MaxBlocks = 1
  TemplateWidth = 2
  Starters = {"rpc", "p2p"}
  BlocksMayFail = TRUE
  TemplatesMayFail = TRUE
INVARIANTS WorkersAccounted BlocksJudgedAlike 
PROPERTY MinerProgress
