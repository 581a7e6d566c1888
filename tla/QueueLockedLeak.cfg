SPECIFICATION Spec
CONSTANTS
  Readers = {r}
  Writers = {w}
  Monitor = monitor
  Programs = {"mutex", "sem"}
  Cells = {c1, c2, c3, c4}
  NULL = NULL
  MaxCount = 2
  MaxVal = 4
SYMMETRY CellSymmetry
INVARIANT NoLeak
