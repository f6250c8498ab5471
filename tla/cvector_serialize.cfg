SPECIFICATION Spec
CONSTANTS
  Values = {v1, v2}
  BlockSize = 2
  ContextRatio = 2
  MaxSize = 6
  MaxHeld = 1
  Places = {1, 4, 5}
  Throws = {FALSE}
SYMMETRY Symmetry
INVARIANTS SerializedIsContent
