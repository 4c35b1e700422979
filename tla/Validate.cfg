SPECIFICATION Spec
CONSTANTS
  NumNodes = 2
INVARIANTS
  ScriptFollowsImage
  MachinesFitArch
  NothingLeftToFill
