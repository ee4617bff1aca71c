SPECIFICATION Spec
CONSTANTS
  fdt = fdt
  fat = fat
  box = box
  c1 = c1
  c2 = c2
  l1 = l1
  l2 = l2
  m1 = m1
  FDTs = {fdt}
  FATs = {fat}
  Others = {box}
  Cables = {c1, c2}
  Links = {l1, l2}
  Marks = {m1}
  Null = Null
  Gone = Gone
  StartRows <- Designed
  MaxOps = 2
INVARIANTS
  UndoRestoresRows
  LinkedOnce
  LogIsALine
  PatchesApply
