------------------------------ MODULE MmDriver ------------------------------
(***************************************************************************)
(* malloclab/mdriver.c and the allocator it drives: each trace is run by   *)
(* eval_mm_valid(), which fills every block and checks what it gets, then  *)
(* by eval_mm_util() and, several times, by eval_mm_speed(), each on a     *)
(* heap that mem_reset_brk() and mm_init() have reset.  A trace is any     *)
(* sequence of calls; that the passes repeat one sequence is left out.     *)
(***************************************************************************)
EXTENDS MmHeap, FiniteSets, FiniteSetsExt

CONSTANTS Ids,       \* the indices of a trace's blocks
          Sizes,     \* the sizes asked of mm_malloc()
          Resizes,   \* the sizes asked of mm_realloc(); 0 frees
          ResizeLast \* whether it also reallocates the last block of the heap

ASSUME DriverAssumption ==
  /\ Sizes \subseteq Nat \ {0} /\ Resizes \subseteq Nat
  /\ Ids \subseteq Nat \ {0} /\ ResizeLast \in BOOLEAN

VARIABLES heap,
          blocks,       \* the pointer to each block; NULL if it is not allocated
          block_sizes,  \* its size
          asked,        \* the size of the request that ended the program
          pass,         \* which of the three functions runs
          verdict,      \* eval_mm_valid: "ok", or why it has returned 0
          ranges,       \* its list of payload extents
          total_size, max_total_size   \* eval_mm_util

tracevars == <<blocks, block_sizes>>
utilvars  == <<total_size, max_total_size>>
vars == <<heap, tracevars, asked, pass, verdict, ranges, utilvars>>

Epilogue == heap.brk - WORD

Live == {i \in Ids : blocks[i] # NULL}

ClearRanges == ranges' = {}

\* Each pass begins with an empty heap; eval_mm_valid() also clears the ranges.
BeginPass(next) ==
  /\ pass' = next
  /\ heap' = MmInit(heap)
  /\ blocks' = [i \in Ids |-> NULL] /\ block_sizes' = [i \in Ids |-> 0]
  /\ asked' = 0 /\ verdict' = "ok"
  /\ IF next = "valid" THEN ClearRanges ELSE UNCHANGED ranges
  /\ total_size' = 0 /\ max_total_size' = 0

Init ==
  /\ pass = "valid" /\ heap = MmInit(Fresh)
  /\ blocks = [i \in Ids |-> NULL] /\ block_sizes = [i \in Ids |-> 0]
  /\ asked = 0 /\ verdict = "ok" /\ ranges = {}
  /\ total_size = 0 /\ max_total_size = 0

\* main(): a trace that is not valid is left for the next one; fsecs() times it several times.
EndPass ==
  /\ ~heap.exited
  /\ BeginPass(CASE pass = "valid" /\ verdict = "ok" -> "util"
                 [] pass = "util" -> "speed" [] OTHER -> "valid")

TimeAgain == pass = "speed" /\ ~heap.exited /\ BeginPass("speed")

-----------------------------------------------------------------------------
\* The pattern that fills a block, another one for each index, and memset().
Pattern(i) == 8 * i
Fill(h, ptr, size, i) ==
  [h EXCEPT !.mem = [a \in Addresses |-> IF a \in Words(ptr, size) THEN Pattern(i) ELSE @[a]]]

\* The driver's look at what a payload holds.
Holds(h, ptr, size, i) == \A a \in Words(ptr, size) : h.mem[a] = Pattern(i)
Least(a, b) == IF a < b THEN a ELSE b

\* add_range() and remove_range(): the ends of a payload must lie in the heap and in no other.
Extent(ptr, size) == [lo |-> ptr, hi |-> ptr + size - 1]
RangeFits(list, r, h) ==
  /\ r.lo % 4 = 0 /\ {r.lo, r.hi} \subseteq HeapLo .. h.brk - 1
  /\ \A p \in list : {r.lo, r.hi} \cap (p.lo .. p.hi) = {}
RemoveRange(list, lo) == {p \in list : p.lo # lo}

\* eval_mm_valid() on the block that m = mm_malloc() or mm_realloc() has answered with.  The data
\* of a block that had some is compared before the block is filled again.
Check(i, size, m) ==
  LET others == RemoveRange(ranges, blocks[i])
      r      == Extent(m.ptr, size)
      kept   == Least(size, block_sizes[i])
  IN  /\ verdict' = IF m.ptr = NULL THEN "failed"
                    ELSE IF ~RangeFits(others, r, m.heap) THEN "refused"
                    ELSE IF ~Holds(m.heap, m.ptr, kept, i) THEN "lost" ELSE "ok"
      /\ ranges' = IF verdict' \in {"ok", "lost"} THEN others \cup {r}
                   ELSE IF m.ptr = NULL THEN ranges ELSE others
      /\ heap' = IF verdict' = "ok" THEN Fill(m.heap, m.ptr, size, i) ELSE m.heap

\* What the driver remembers of a block; nothing if it has none.
Remember(i, ptr, size) ==
  /\ blocks' = [blocks EXCEPT ![i] = ptr]
  /\ block_sizes' = [block_sizes EXCEPT ![i] = IF ptr = NULL THEN 0 ELSE size]

\* Mutation: the old size of a reallocated block is not taken off.
Account_Twice(i, size) ==
  /\ total_size' = IF size = 0 THEN total_size - block_sizes[i] ELSE total_size + size
  /\ max_total_size' = IF total_size' > max_total_size THEN total_size' ELSE max_total_size

\* eval_mm_util(): the sizes of the blocks in use, and the most they ever were.
Account(i, size) ==
  /\ total_size' = total_size + size - block_sizes[i]
  /\ max_total_size' = IF total_size' > max_total_size THEN total_size' ELSE max_total_size

\* A call that gives block i a new size.  In the two other passes NULL is an app_error().
Receive(i, size, m) ==
  /\ Remember(i, m.ptr, size)
  /\ IF pass = "valid" THEN Check(i, size, m)
     ELSE heap' = [m.heap EXCEPT !.exited = @ \/ m.ptr = NULL] /\ UNCHANGED <<verdict, ranges>>
  /\ asked' = IF heap'.exited THEN size ELSE 0
  /\ IF pass = "util" /\ m.ptr # NULL THEN Account(i, size) ELSE UNCHANGED utilvars
  /\ UNCHANGED pass

Running == verdict = "ok" /\ ~heap.exited

Malloc(i, size) == Running /\ i \notin Live /\ Receive(i, size, MmMalloc(heap, size))

\* Two calls that mm_realloc() provides for and the driver's traces do not make are made too: a
\* pointer that is NULL (mm.c:281), and a size of 0 (mm.c:285), which eval_mm_valid() rejects.
Realloc(i, size) ==
  /\ Running /\ (size = 0 => pass = "valid" /\ i \in Live)
  /\ i \in Live /\ ~ResizeLast => Following(heap.mem, blocks[i] - PAYLOAD) # Epilogue
  /\ Receive(i, size, MmRealloc(heap, blocks[i], size))

Free(i) ==
  /\ Running /\ i \in Live
  /\ heap' = MmFree(heap, blocks[i])
  /\ Remember(i, NULL, 0)
  /\ ranges' = IF pass = "valid" THEN RemoveRange(ranges, blocks[i]) ELSE ranges
  /\ IF pass = "util" THEN Account(i, 0) ELSE UNCHANGED utilvars
  /\ UNCHANGED <<asked, pass, verdict>>

Next == \/ \E i \in Ids, size \in Sizes : Malloc(i, size)
        \/ \E i \in Ids, size \in Resizes : Realloc(i, size)
        \/ \E i \in Ids : Free(i)
        \/ EndPass \/ TimeAgain
        \/ heap.exited /\ UNCHANGED vars

Spec == Init /\ [][Next]_vars

-----------------------------------------------------------------------------
TypeOK ==
  /\ heap \in [mem : [Addresses -> Nat], brk : Addresses, exited : BOOLEAN]
  /\ blocks \in [Ids -> Addresses \cup {NULL}] /\ block_sizes \in [Ids -> Nat]
  /\ asked \in Nat /\ pass \in {"valid", "util", "speed"}
  /\ verdict \in {"ok", "failed", "refused", "lost"}
  /\ ranges \subseteq [lo : Addresses, hi : Nat]
  /\ total_size \in Nat /\ max_total_size \in Nat

\* The blocks that a walk over the sizes visits, from the first to the epilogue.
BlockStarts ==
  LET at[n \in 0 .. MaxBlocks] ==
        IF n = 0 THEN First
        ELSE LET b == at[n - 1]
             IN  IF b \in Addresses /\ b < Epilogue THEN Following(heap.mem, b) ELSE b
  IN  {at[n] : n \in 0 .. MaxBlocks}

\* The walk ends at the epilogue exactly: blocks never overlap and no byte of the heap is lost,
\* whatever was split, merged and expanded.  A footer is that of its block or, since clear_block()
\* comes last in coalesce(), 0.
HeapTiled ==
  /\ Epilogue \in BlockStarts /\ heap.mem[Epilogue] = 1
  /\ \A b \in BlockStarts \ {Epilogue} :
       /\ b < Epilogue /\ Size(heap.mem, b) >= OVERHEAD
       /\ heap.mem[FooterOf(heap.mem, b)] \in {0, Size(heap.mem, b)}

\* The explicit list holds exactly the free blocks of the walk, once each, and its back links
\* mirror it: no free block is forgotten, none that is in use can be handed out again.
FreeListExact ==
  LET list == FreeList(heap.mem)
  IN  /\ {list[k] : k \in DOMAIN list} = {b \in BlockStarts \ {Epilogue} : ~Allocated(heap.mem, b)}
      /\ Cardinality({list[k] : k \in DOMAIN list}) = Len(list)
      /\ \A k \in DOMAIN list :
           heap.mem[list[k] + PREV] = IF k = 1 THEN ListHead ELSE list[k - 1]

\* The blocks in use are those the client has, and each is large enough for what it asked: with
\* HeapTiled, payloads lie in the heap and never overlap (mdriver.c:398 and :407).
InUseExact ==
  LET used == {b \in BlockStarts \ {Epilogue} : Allocated(heap.mem, b)}
  IN  Running =>
        /\ used = {blocks[i] - PAYLOAD : i \in Live} /\ Cardinality(used) = Cardinality(Live)
        /\ \A i \in Live : Size(heap.mem, blocks[i] - PAYLOAD) >= block_sizes[i] + OVERHEAD

\* The heap, in every pass and after any number of resets over what earlier traces left: tiled by
\* blocks, with a list of exactly the free ones and the rest in the hands of the client.
HeapExact == HeapTiled /\ FreeListExact /\ InUseExact

\* mdriver.c:655 `mm_realloc did not preserve the data from old block': a reallocated block holds
\* what it held, and no call changes the payload of another block.  Nor does the driver refuse a
\* block, whose ranges are those of the blocks in use.
DataKept ==
  /\ verdict \notin {"lost", "refused"}
  /\ pass = "valid" /\ Running =>
       /\ \A i \in Live : Holds(heap, blocks[i], block_sizes[i], i)
       /\ ranges = {Extent(blocks[i], block_sizes[i]) : i \in Live}

\* The program ends (exit in expand_heap) only if the heap cannot grow by what was asked.
ExitOnlyWhenFull ==
  heap.exited => heap.brk + (IF GetBlockSize(asked) > Chunk THEN GetBlockSize(asked) ELSE Chunk) > MaxAddr

\* mdriver.c:690 `remember the high water mark hwm of the heap for an optimal allocator': the sum
\* kept by differences is that of the blocks in use, and the utilization is at most 1.
UtilFits ==
  pass = "util" /\ ~heap.exited =>
    /\ total_size = MapThenSumSet(LAMBDA i : block_sizes[i], Live) /\ total_size <= max_total_size
    /\ max_total_size <= heap.brk - HeapLo
=============================================================================
