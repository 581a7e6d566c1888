SPECIFICATION Spec
CONSTANTS
  Readers = {r}
  Writers = {w}
  Monitor = monitor
  Programs = {"mutex", "spin", "sem", "my_mutex", "my_spinlock"}
  Cells = {c1, c2, c3, c4}
  NULL = NULL
  MaxCount = 2
  MaxVal = 4
SYMMETRY CellSymmetry
INVARIANTS TransferSound ListIsContents NoLeakElsewhere
PROPERTY ImplementsFifo
