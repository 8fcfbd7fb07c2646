SPECIFICATION FairSpec
CONSTANTS
  Warps = {w1, w2}
  Blocks = {x, y}
  GlobalBlocks = {x}
  Configs <- BypassConfigs
  OtherClients = {0}
  Kinds = {"LD", "ST", "ATOMIC"}
  Fences = TRUE
PROPERTIES Drains
