CONSTANTS
  x = x  y = y  num = num  lib = lib
  Names <- MCNames
  Values = {num}
  Libraries = {lib}
  Empty = Empty  Primitive = Primitive  None = None
  Primitives = {}
  Bindings <- MCAliases
  Globals = {}
  Resumed = {}
  MaxLevel = 1
  PredefLevels = {}
SPECIFICATION Spec
INVARIANTS
  LibrariesHeld
CHECK_DEADLOCK FALSE
