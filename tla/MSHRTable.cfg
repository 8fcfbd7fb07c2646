SPECIFICATION Spec
CONSTANTS
  Warps = {w1, w2}
  Blocks = {x, y, z}
  GlobalBlocks = {}
  Configs <- MSHRConfigs
  OtherClients = {}
  Kinds = {"LD", "ST"}
  Fences = FALSE
SYMMETRY Symmetry
INVARIANTS OneFillPerEntry CountsMatch SequencerAgrees ReadAfterOwnWrite WritesAskedFor
