SPECIFICATION Spec
CONSTANTS
  MaxHeap = 176
  Chunk = 64
  Ids = {1, 2}
  Sizes = {4, 30}
  Resizes = {30, 62}
  ResizeLast = TRUE
INVARIANT DataKept
