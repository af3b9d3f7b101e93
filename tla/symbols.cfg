CONSTANTS
  x = x  y = y  num = num  lib = lib
  Names <- MCNames
  Values = {num}
  Libraries = {lib}
  Empty = Empty  Primitive = Primitive  None = None
  Primitives = {y}
  Bindings <- MCBindings
  Globals = {x}
  Resumed = {x}
  MaxLevel = 3
  PredefLevels = {1, 2}
SPECIFICATION Spec
INVARIANTS
  StacksOrdered
  BindingsRegistered
  LibrariesHeld
PROPERTIES
  CallersKept
  ImplementsStore
CHECK_DEADLOCK FALSE
