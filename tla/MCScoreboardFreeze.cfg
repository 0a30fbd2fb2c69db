SPECIFICATION Spec
CONSTANTS
  Freeze = 1
  MaxTick = 3
  FirstRecreate = 1
  NotThere = NotThere
  Hidden = Hidden
  NoOne = NoOne
  Trouble = {"crash", "recreate", "reset", "times"}
INVARIANTS PointsFrozen
CHECK_DEADLOCK FALSE
