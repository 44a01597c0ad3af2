SPECIFICATION RuleEngineSpec
CONSTANTS
  r4 = r4
  r6 = r6
  x4 = x4
  bodyA = bodyA
  bodyB = bodyB
  zero = zero
  NoBody = zero
  Ids = {r4, r6}
  V4 = {r4}
  Bodies = {bodyA, bodyB}
  Slots = {1, 2, 3, 4}
  MaxRules = 1
  SlotGrace = 2
  CanFail = {"put", "v4", "v6", "restore"}
  InstallTime = 1
  ReadTime = 0
  RuleMaxTime = 4
  MaxInstalls = 3
SYMMETRY Symmetry
CHECK_DEADLOCK FALSE
INVARIANTS PacketSeesItsRule
PROPERTIES InstallsAtomic
