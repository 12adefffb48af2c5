SPECIFICATION Spec
CONSTANTS
  a1 = a1
  a2 = a2
  u1 = u1
  Obj <- MCObj
  Reg = {r1, r2}
  Nil = Nil
  NBlocks = 2
  BlockOf <- MCBlockOf
  UncBlocks = {1}
  InPlace = {2}
  Fields <- MCFields
  Modes = {TRUE}
  StopFuncs = {}
  InitialStack = 1
  MaxStack = 2
INVARIANTS Inv LiveKept MarkComplete
SYMMETRY MCSym
VIEW MCView
