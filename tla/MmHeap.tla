------------------------------- MODULE MmHeap -------------------------------
(***************************************************************************)
(* The allocator of malloclab/mm.c on the heap of memlib.c, as operators   *)
(* on a heap h = [mem, brk, exited].  Memory is words of 4 bytes (a 32-bit *)
(* build); addresses and sizes are bytes.  A block is a size word (bit 0:  *)
(* allocated), two link words, the payload and a footer word.              *)
(***************************************************************************)
EXTENDS Integers, Sequences, SequencesExt

CONSTANTS MaxHeap,  \* MAX_HEAP
          Chunk     \* EXPAND_HEAP_SIZE

ASSUME HeapAssumption ==
  /\ MaxHeap \in Nat /\ MaxHeap % 4 = 0
  /\ Chunk \in Nat /\ Chunk % 4 = 0 /\ Chunk > 16
  /\ Chunk + 8 <= MaxHeap     \* mm_init() succeeds

NULL   == 0
ListHead   == 4                       \* the list head, a block of its own in front of the heap
HeapLo == 16                      \* mem_heap_lo()
MaxAddr == HeapLo + MaxHeap       \* mem_max_addr
Addresses == {4 * k : k \in 1 .. MaxAddr \div 4}
MaxBlocks == MaxHeap \div 16 + 1  \* the smallest block, of mm_malloc(0), has 16 bytes
MaxVisits == MaxBlocks * MaxBlocks \* a merge in the list may lead back to an earlier block

WORD   == 4
PREV   == 4
NEXT   == 8
PAYLOAD == 12        \* sizeof(Block)
OVERHEAD == 16       \* SIZE_OF_BLOCK: the header and the footer

-----------------------------------------------------------------------------
Size(m, b)      == m[b] - (m[b] % 2)
Allocated(m, b) == m[b] % 2 = 1
FooterOf(m, b)  == b + Size(m, b) - WORD
Following(m, b) == b + Size(m, b)

SetAllocated(m, b) == [m EXCEPT ![b] = Size(m, b) + 1]
SetFree(m, b)      == [m EXCEPT ![b] = Size(m, b)]

GetBlockSize(size) == (size + OVERHEAD + 3) - ((size + OVERHEAD + 3) % 4)

ClearBlock(m, b) ==
  [m EXCEPT ![FooterOf(m, b)] = 0, ![b] = 0, ![b + PREV] = NULL, ![b + NEXT] = NULL]

RemoveFromList(m, b) ==
  [m EXCEPT ![m[b + PREV] + NEXT] = m[b + NEXT], ![m[b + NEXT] + PREV] = m[b + PREV]]

InsertToList(m, b, at) ==
  [m EXCEPT ![b + PREV] = at, ![b + NEXT] = m[at + NEXT],
            ![m[at + NEXT] + PREV] = b, ![at + NEXT] = b]

\* The list from its head on; it is circular.
Walk(m) ==
  LET at[n \in 0 .. MaxBlocks + 1] == IF n = 0 THEN ListHead ELSE m[at[n - 1] + NEXT]
  IN  at

\* The free blocks in list order.
FreeList(m) ==
  LET length == CHOOSE n \in 0 .. MaxBlocks : /\ Walk(m)[n + 1] = ListHead
                                              /\ \A k \in 1 .. n : Walk(m)[k] # ListHead
  IN  [k \in 1 .. length |-> Walk(m)[k]]

SplitBlock(m, b, size, from_allocated) ==
  LET rest  == Size(m, b) - size
      split == [m EXCEPT ![b + size] = rest, ![b + Size(m, b) - WORD] = rest,
                         ![b] = size, ![b + size - WORD] = size]
  IN  InsertToList(split, b + size, IF from_allocated THEN ListHead ELSE b)

\* find_fit() on the block it has found: split it if what remains can be a block.
Take(m, b, size) ==
  RemoveFromList(IF Size(m, b) > size + OVERHEAD THEN SplitBlock(m, b, size, FALSE) ELSE m, b)

\* find_fit(): the first block of the list that is large enough; NULL if there is none.
FirstFit(m, list, size) == SelectInSeq(list, LAMBDA b : Size(m, b) >= size)

TakeFit(m, list, k, size) ==
  IF k = 0 THEN [mem |-> m, block |-> NULL]
  ELSE [mem |-> Take(m, list[k], size), block |-> list[k]]

FindFit(m, size) == TakeFit(m, FreeList(m), FirstFit(m, FreeList(m), size), size)

-----------------------------------------------------------------------------
\* prev_free and next_free.  The footer in front of a block may be 0: then its predecessor is
\* not looked at.
Before(m, b)   == b - m[b - WORD]
PrevFree(m, b) == /\ m[b - WORD] > 0 /\ Before(m, b) # ListHead
                  /\ ~Allocated(m, Before(m, b)) /\ m[Before(m, b)] # 0
NextFree(m, b) == LET n == Following(m, b)
                  IN  n # ListHead /\ ~Allocated(m, n) /\ m[n] # 0

\* Give a free block the size of its successors too: the old footer goes, the new one comes.
Grow(m, b, extra) ==
  [m EXCEPT ![FooterOf(m, b)] = 0, ![b] = m[b] + extra,
            ![FooterOf(m, b) + extra] = Size(m, b) + extra]

\* remove_from_list() of a block that is still in use is left out.
Unlist(m, b, from_allocated) == IF from_allocated THEN m ELSE RemoveFromList(m, b)

\* clear_block() comes last and clears the footer that the merged block has just been given.
Coalesce(m, b, from_allocated) ==
  LET n == Following(m, b)
      p == Before(m, b)
  IN  IF PrevFree(m, b) /\ NextFree(m, b)
      THEN LET merged   == Grow(m, p, Size(m, b) + Size(m, n))
               unlisted == Unlist(RemoveFromList(merged, n), b, from_allocated)
           IN  [mem |-> ClearBlock(ClearBlock(unlisted, n), b), block |-> p]
      ELSE IF PrevFree(m, b)
      THEN [mem |-> ClearBlock(Unlist(Grow(m, p, Size(m, b)), b, from_allocated), b), block |-> p]
      ELSE IF NextFree(m, b)
      THEN [mem |-> ClearBlock(RemoveFromList(Grow(m, b, Size(m, n)), n), n), block |-> b]
      ELSE [mem |-> m, block |-> b]

\* The loop of expand_heap() over the free list.
Successor(c) == [mem |-> c.mem, at |-> c.mem[c.block + NEXT]]

CoalesceNext(s) == IF s.at = ListHead THEN s ELSE Successor(Coalesce(s.mem, s.at, FALSE))

CoalesceLoop(m) ==
  LET s[n \in 0 .. MaxVisits] == IF n = 0 THEN [mem |-> m, at |-> m[ListHead + NEXT]]
                                 ELSE CoalesceNext(s[n - 1])
  IN  s

CoalesceAll(m) ==
  LET n == CHOOSE k \in 0 .. MaxVisits : CoalesceLoop(m)[k].at = ListHead \/ k = MaxVisits
  IN  CoalesceLoop(m)[n].mem

\* mem_sbrk() takes an int: a size_t beyond 2^31 is a negative number for it.
SbrkFails(h, incr) == incr < 0 \/ h.brk + incr > MaxAddr
Sbrk(h, incr) == [h EXCEPT !.brk = @ + incr]

\* The new block, over the old epilogue.
AddBlock(h, size) ==
  LET b      == IF h.mem[h.brk - WORD] = 1 THEN h.brk - WORD ELSE h.brk
      whole  == h.brk + size - b
      zeroed == [a \in Addresses |-> IF a >= h.brk /\ a < h.brk + size THEN 0 ELSE h.mem[a]]
      block  == [zeroed EXCEPT ![b] = whole - WORD, ![b + whole - 2 * WORD] = whole - WORD,
                               ![b + whole - WORD] = 1]
  IN  [h EXCEPT !.mem = InsertToList(block, b, ListHead)]

\* Mutation: mem_sbrk() does not check its limit.
ExpandHeap_NoLimit(h, size) ==
  Sbrk([h EXCEPT !.mem = CoalesceAll(@)], size)

\* expand_heap(): coalesce and grow; a heap that is full ends the program.
ExpandHeap(h, size) ==
  IF SbrkFails(h, size)
  THEN [h EXCEPT !.mem = CoalesceAll(@), !.exited = TRUE]
  ELSE Sbrk(AddBlock([h EXCEPT !.mem = CoalesceAll(@)], size), size)

-----------------------------------------------------------------------------
\* The heap that mem_init() has made.
Fresh   == [mem |-> [a \in Addresses |-> IF a \in {ListHead + PREV, ListHead + NEXT} THEN ListHead ELSE 0],
            brk |-> HeapLo, exited |-> FALSE]

\* The loop of mm_init() clears every block that the list still has from an earlier trace.
ClearNext(s) == IF s.at = ListHead THEN s
                ELSE [mem |-> ClearBlock(s.mem, s.at), at |-> s.mem[s.at + NEXT]]

ClearLoop(m) ==
  LET s[n \in 0 .. MaxBlocks] == IF n = 0 THEN [mem |-> m, at |-> m[ListHead + NEXT]]
                                 ELSE ClearNext(s[n - 1])
  IN  s

ClearListed(m) == ClearLoop(m)[MaxBlocks].mem

EmptyList(m) == [m EXCEPT ![ListHead + PREV] = ListHead, ![ListHead + NEXT] = ListHead]

\* A prologue of ALIGN(12) = 8 bytes.
First == HeapLo + 8
Prologue(m) == [m EXCEPT ![HeapLo] = 9, ![HeapLo + WORD] = 8]

ResetBrk(h) == [h EXCEPT !.brk = HeapLo]

\* mem_reset_brk() and mm_init(): an empty list, the prologue and the first chunk.
MmInit(h) ==
  ExpandHeap([Sbrk(ResetBrk(h), First - HeapLo) EXCEPT !.mem = Prologue(EmptyList(ClearListed(@)))], Chunk)

\* What mm_malloc() returns: the heap and the pointer, NULL if there is none.
Nothing(h) == [heap |-> h, ptr |-> NULL]

Granted(h, found) ==
  IF found.block = NULL THEN Nothing(h)
  ELSE [heap |-> [h EXCEPT !.mem = SetAllocated(found.mem, found.block)],
        ptr  |-> found.block + PAYLOAD]

Retry(h, need) == IF h.exited THEN Nothing(h) ELSE Granted(h, FindFit(h.mem, need))

\* Mutation: the heap grows by the chunk and the size.
Place_GrowsBoth(h, fit, need) ==
  IF fit.block # NULL THEN Granted(h, fit) ELSE Retry(ExpandHeap(h, need + Chunk), need)

Place(h, fit, need) ==
  IF fit.block # NULL THEN Granted(h, fit)
  ELSE Retry(ExpandHeap(h, IF need > Chunk THEN need ELSE Chunk), need)

\* mm_malloc().
MmMalloc(h, size) ==
  Place(h, FindFit(h.mem, GetBlockSize(size)), GetBlockSize(size))

\* mm_free(): a block that has not been merged with its predecessor goes to the front of the list.
Release(h, b, c) ==
  [h EXCEPT !.mem = IF c.block = b THEN InsertToList(c.mem, b, ListHead) ELSE c.mem]

MmFree(h, ptr) ==
  IF ptr = NULL THEN h
  ELSE Release(h, ptr - PAYLOAD, Coalesce(SetFree(h.mem, ptr - PAYLOAD), ptr - PAYLOAD, TRUE))

\* The words that size bytes at a pointer touch.
Words(ptr, size) == {ptr + WORD * k : k \in 0 .. (size + 3) \div 4 - 1}

\* Mutation: the last word is not copied.
Copy_OneShort(m, to, from, size) ==
  [a \in Addresses |-> IF a \in Words(to, size - WORD) /\ a - to + from \in Addresses
                       THEN m[a - to + from] ELSE m[a]]

\* memcpy() of size bytes; it may read past the old payload and past the end of the heap.
Copy(m, to, from, size) ==
  [a \in Addresses |-> IF a \in Words(to, size) /\ a - to + from \in Addresses
                       THEN m[a - to + from] ELSE m[a]]

\* The four cases of mm_realloc() for a block in use.

Shrink(h, b, need) ==
  [h EXCEPT !.mem = SetAllocated(SplitBlock(h.mem, b, need, TRUE), b)]

\* The last block: the new block of expand_heap() is made part of it, its footer included.
Swallow(h, b, need) ==
  IF h.exited THEN h
  ELSE [h EXCEPT !.mem = [RemoveFromList(@, @[ListHead + NEXT]) EXCEPT ![b] = need + 1]]

Extend(h, b, need) == Swallow(ExpandHeap(h, need - Size(h.mem, b)), b, need)

\* extra_size is a size_t: a negative difference is a very large one.
IsLast(h, b, need) == /\ Following(h.mem, b) = h.brk - WORD
                      /\ need - Size(h.mem, b) < 0 \/ need - Size(h.mem, b) > OVERHEAD

\* Mutation: the size of the next block is not added.
Absorb_NoGrow(m, b) ==
  LET n == Following(m, b)
  IN  ClearBlock(RemoveFromList(m, n), n)

Absorb(m, b) ==
  LET n == Following(m, b)
  IN  ClearBlock(RemoveFromList(Grow(m, b, Size(m, n)), n), n)

MoveTo(new, ptr, size) ==
  IF new.ptr = NULL THEN new
  ELSE [heap |-> MmFree([new.heap EXCEPT !.mem = Copy(@, new.ptr, ptr, size)], ptr), ptr |-> new.ptr]

Same(h, ptr) == [heap |-> h, ptr |-> IF h.exited THEN NULL ELSE ptr]

Unlinked(h, b) == [h EXCEPT !.mem = [@ EXCEPT ![b + PREV] = NULL, ![b + NEXT] = NULL]]

Absorbed(h, b) == IF NextFree(h.mem, b) THEN [h EXCEPT !.mem = Absorb(@, b)] ELSE h

\* mm_realloc() of block b, not in a list, with wide what it is after case 3 has absorbed its
\* successor.
Resize(h, wide, b, size, need) ==
  IF Size(h.mem, b) > need + OVERHEAD THEN Same(Shrink(h, b, need), b + PAYLOAD)
  ELSE IF IsLast(h, b, need) THEN Same(Extend(h, b, need), b + PAYLOAD)
  ELSE IF NextFree(h.mem, b) /\ Size(wide.mem, b) > need + OVERHEAD
       THEN Same(Shrink(wide, b, need), b + PAYLOAD)
  ELSE MoveTo(MmMalloc(wide, size), b + PAYLOAD, size)

MmRealloc(h, ptr, size) ==
  LET b     == ptr - PAYLOAD
      clear == Unlinked(h, b)
  IN  IF ptr = NULL THEN MmMalloc(h, size)
      ELSE IF size = 0 THEN Nothing(MmFree(h, ptr))
      ELSE Resize(clear, Absorbed(clear, b), b, size, GetBlockSize(size))
=============================================================================
