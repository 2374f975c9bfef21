SPECIFICATION Spec
CONSTANTS
  MaxHeap = 92
  Chunk = 40
  Ids = {1, 2, 3}
  Sizes = {4}
  Resizes = {0, 4, 30}
  ResizeLast = FALSE
INVARIANTS TypeOK HeapExact DataKept ExitOnlyWhenFull UtilFits
