SPECIFICATION FairSpec
CONSTANTS
  a1 = a1
  a2 = a2
  u1 = u1
  Obj <- MCObj
  Reg = {r1}
  Nil = Nil
  NBlocks = 2
  BlockOf <- MCBlockOf
  UncBlocks = {1}
  InPlace = {}
  Fields <- MCFlat
  Modes = {TRUE, FALSE}
  StopFuncs = {"stop", "never"}
  InitialStack = 2
  MaxStack = 2
PROPERTY NothingElseMarked WorldRestarts CollectReturns
VIEW MCView
