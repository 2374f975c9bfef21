------------------------------ MODULE MmProofs ------------------------------
(***************************************************************************)
(* Proofs about the allocator and its driver, for any end of the heap, any *)
(* chunk, any block sizes and any number of calls and traces, provided the *)
(* last block of the heap is not reallocated (ResizeLast).                 *)
(*                                                                         *)
(* A memory is read as a set B of block starts (Shape) and a ranking r of  *)
(* the free ones along the list (Linked); Pool is both.  Each operation of *)
(* mm.c is a lemma: what B and the blocks in use become, and which payload *)
(* words it keeps (Kept).  HeapOf(h, U) hides B and r, and the lemmas on   *)
(* mm_init(), mm_malloc(), mm_free() and mm_realloc() speak of it only.    *)
(* With them HeapInv, which relates the heap to the driver's tables, is    *)
(* inductive, and so is Tallies, which relates the heap to what            *)
(* eval_mm_util() counts; its sums are the fold of the community modules.  *)
(***************************************************************************)
EXTENDS MmDriver, Extrema, FiniteSetTheorems, TLAPS

\* Quotients and remainders by 4, as the alignment of mm.c uses them.
LEMMA Multiples ==
  ASSUME NEW a \in Nat
  PROVE  /\ a % 4 \in 0 .. 3 /\ a \div 4 \in Nat /\ a = 4 * (a \div 4) + (a % 4)
         /\ a % 2 \in 0 .. 1
OBVIOUS

\* The addresses are the multiples of 4 from the list head to the end of the heap.
LEMMA AddressIs ==
  /\ MaxAddr \in Nat /\ MaxAddr % 4 = 0 /\ MaxAddr >= 44
  /\ \A a : a \in Addresses <=> a \in Nat /\ a % 4 = 0 /\ 4 <= a /\ a <= MaxAddr
<1>1. MaxAddr \in Nat /\ MaxAddr % 4 = 0 /\ MaxAddr >= 44
  BY HeapAssumption DEF HeapAssumption, MaxAddr, HeapLo
<1>2. ASSUME NEW a \in Addresses PROVE a \in Nat /\ a % 4 = 0 /\ 4 <= a /\ a <= MaxAddr
  <2>1. PICK k \in 1 .. MaxAddr \div 4 : a = 4 * k
    BY DEF Addresses
  <2>2. MaxAddr = 4 * (MaxAddr \div 4)
    BY <1>1, Multiples
  <2> QED
    BY <1>1, <2>1, <2>2
<1>3. ASSUME NEW a \in Nat, a % 4 = 0, 4 <= a, a <= MaxAddr PROVE a \in Addresses
  <2>1. a = 4 * (a \div 4) /\ a \div 4 \in Nat
    BY <1>3, Multiples
  <2>2. a \div 4 \in 1 .. MaxAddr \div 4
    BY <1>1, <1>3, <2>1, Multiples
  <2> QED
    BY <2>1, <2>2 DEF Addresses
<1> QED
  BY <1>1, <1>2, <1>3

\* A size is a multiple of 4; the word of a block in use is one more.
LEMMA SizeWords ==
  ASSUME NEW v \in Nat, v % 4 = 0
  PROVE  /\ v % 2 = 0 /\ v - (v % 2) = v
         /\ (v + 1) % 2 = 1 /\ (v + 1) - ((v + 1) % 2) = v
OBVIOUS

\* Sums and differences of multiples of 4 are multiples of 4.
LEMMA Sums ==
  ASSUME NEW a \in Int, NEW b \in Int, a % 4 = 0, b % 4 = 0
  PROVE  (a + b) % 4 = 0 /\ (a - b) % 4 = 0 /\ (a + 4) % 4 = 0 /\ (a - 4) % 4 = 0
         /\ (a + 8) % 4 = 0 /\ (a + 12) % 4 = 0 /\ (a + 16) % 4 = 0
         /\ (b < a => b + 4 <= a)
OBVIOUS

-----------------------------------------------------------------------------
(* The blocks of a heap: B holds where they begin, and top is the epilogue.  *)

Shape(m, top, B) ==
  /\ m \in [Addresses -> Nat]
  /\ B \subseteq Addresses /\ First \in B /\ top \in B
  /\ \A b \in B : First <= b /\ b <= top
  /\ m[HeapLo] = 9 /\ m[HeapLo + WORD] = 8 /\ m[top] = 1
  /\ \A b \in B \ {top} : /\ Size(m, b) >= OVERHEAD /\ Following(m, b) \in B
                          /\ m[FooterOf(m, b)] \in {0, Size(m, b)}
                          /\ \A c \in B : b < c => Following(m, b) <= c

FreeIn(m, top, B) == {b \in B \ {top} : ~Allocated(m, b)}
UsedIn(m, top, B) == {b \in B \ {top} : Allocated(m, b)}

\* Where the words of a block are.
LEMMA Geometry ==
  ASSUME NEW m, NEW top, NEW B, Shape(m, top, B)
  PROVE  /\ top \in Nat /\ top % 4 = 0 /\ First <= top /\ top <= MaxAddr
         /\ \A b \in B : /\ b \in Nat /\ b % 4 = 0 /\ 24 <= b /\ b <= top
                         /\ b \in Addresses /\ m[b] \in Nat
         /\ \A b \in B \ {top} :
              /\ b < top /\ Size(m, b) \in Nat /\ Size(m, b) % 4 = 0 /\ 16 <= Size(m, b)
              /\ Following(m, b) = b + Size(m, b) /\ Following(m, b) \in B
              /\ b + 16 <= Following(m, b) /\ Following(m, b) <= top
              /\ FooterOf(m, b) = Following(m, b) - 4 /\ FooterOf(m, b) \in Addresses
              /\ {b + 4, b + 8, b + 12} \subseteq Addresses
         /\ \A b, c \in B : b < c => b # top /\ Following(m, b) <= c /\ b + 16 <= c
<1>1. \A b \in B : /\ b \in Nat /\ b % 4 = 0 /\ 24 <= b /\ b <= top
                   /\ b \in Addresses /\ m[b] \in Nat
  BY AddressIs DEF Shape, First, HeapLo
<1>2. top \in Nat /\ top % 4 = 0 /\ First <= top /\ top <= MaxAddr
  BY <1>1, AddressIs DEF Shape
<1>3. ASSUME NEW b \in B \ {top}
      PROVE  /\ b < top /\ Size(m, b) \in Nat /\ Size(m, b) % 4 = 0 /\ 16 <= Size(m, b)
             /\ Following(m, b) = b + Size(m, b) /\ Following(m, b) \in B
             /\ b + 16 <= Following(m, b) /\ Following(m, b) <= top
             /\ FooterOf(m, b) = Following(m, b) - 4 /\ FooterOf(m, b) \in Addresses
             /\ {b + 4, b + 8, b + 12} \subseteq Addresses
  <2>1. Size(m, b) \in Int /\ 16 <= Size(m, b)
    <3>1. m[b] \in Nat
      BY <1>1
    <3>2. Size(m, b) \in Int
      BY <3>1 DEF Size
    <3> QED
      BY <3>2 DEF Shape, OVERHEAD
  <2>2. Following(m, b) = b + Size(m, b) /\ FooterOf(m, b) = b + Size(m, b) - 4
    BY DEF Following, FooterOf, WORD
  <2>3. Following(m, b) \in B
    BY DEF Shape
  <2>4. /\ Following(m, b) \in Nat /\ Following(m, b) % 4 = 0 /\ Following(m, b) <= top
        /\ b \in Nat /\ b % 4 = 0 /\ 24 <= b /\ b <= top
    BY <1>1, <2>3
  <2> HIDE DEF Size, Following, FooterOf
  <2>5. Size(m, b) = Following(m, b) - b
    BY <2>1, <2>2, <2>4
  <2>6. Size(m, b) % 4 = 0
    BY <2>4, <2>5, Sums
  <2>7. /\ FooterOf(m, b) = Following(m, b) - 4 /\ b + 16 <= Following(m, b)
    BY <2>1, <2>2, <2>4
  <2>8. FooterOf(m, b) \in Addresses
    <3>1. FooterOf(m, b) % 4 = 0
      BY <2>4, <2>7, Sums
    <3> QED
      BY <1>2, <2>4, <2>7, <3>1, AddressIs
  <2>9. {b + 4, b + 8, b + 12} \subseteq Addresses
    <3>1. (b + 4) % 4 = 0 /\ (b + 8) % 4 = 0 /\ (b + 12) % 4 = 0
      BY <2>4, Sums
    <3> QED
      BY <1>2, <2>4, <2>7, <3>1, AddressIs
  <2>a. Size(m, b) \in Nat /\ b < top
    BY <1>2, <2>1, <2>4, <2>7
  <2> QED
    BY <2>1, <2>2, <2>3, <2>4, <2>6, <2>7, <2>8, <2>9, <2>a
<1>4. ASSUME NEW b \in B, NEW c \in B, b < c
      PROVE  b # top /\ Following(m, b) <= c /\ b + 16 <= c
  <2>1. b # top
    BY <1>1, <1>2, <1>4
  <2>2. Following(m, b) <= c
    BY <1>4, <2>1 DEF Shape
  <2>3. b + 16 <= Following(m, b) /\ Following(m, b) \in Nat
    BY <1>1, <1>3, <2>1
  <2> QED
    BY <1>1, <2>1, <2>2, <2>3
<1> QED
  BY <1>1, <1>2, <1>3, <1>4

\* Every block but the first follows one.
LEMMA Preceded ==
  ASSUME NEW m, NEW top, NEW B, Shape(m, top, B), NEW b \in B, b # First
  PROVE  \E q \in B \ {top} : q < b /\ Following(m, q) = b
<1> DEFINE S == {q \in B : q < b}
<1>1. \A c \in B : c \in Nat /\ First <= c /\ c <= top
  BY Geometry DEF Shape
<1>2. First \in S /\ S \in SUBSET Nat
  BY <1>1 DEF Shape
<1>3. IsFiniteSet(S)
  <2>1. S \subseteq 0 .. b /\ b \in Nat
    BY <1>1
  <2>2. IsFiniteSet(0 .. b)
    BY <2>1, FS_Interval
  <2> QED
    BY <2>1, <2>2, FS_Subset
<1>4. PICK q \in S : \A c \in S : c <= q
  <2> HIDE DEF S
  <2>1. S # {}
    BY <1>2
  <2> QED
    BY <1>2, <1>3, <2>1, GreatestExists
<1>5. q \in B \ {top} /\ q < b /\ Following(m, q) <= b
  BY <1>4, Geometry
<1>6. Following(m, q) \in B /\ q < Following(m, q)
  BY <1>1, <1>5, Geometry
<1>7. ~(Following(m, q) < b)
  BY <1>1, <1>4, <1>5, <1>6
<1> QED
  BY <1>1, <1>5, <1>6, <1>7

-----------------------------------------------------------------------------
(* The list: its links mirror each other, and ranks along it grow, so that   *)
(* it is one circle through ListHead.                                        *)

Ring(F) == F \cup {ListHead}

Linked(m, F, r) ==
  /\ r \in [Ring(F) -> Nat] /\ r[ListHead] = 0
  /\ \A x \in Ring(F) :
       /\ m[x + NEXT] \in Ring(F) /\ m[m[x + NEXT] + PREV] = x
       /\ m[x + PREV] \in Ring(F) /\ m[m[x + PREV] + NEXT] = x
       /\ m[x + NEXT] # ListHead => r[x] < r[m[x + NEXT]]

\* The link words of blocks in a list of G do not meet.
Roomy(G) ==
  \A x \in Ring(G) : /\ x \in Nat /\ {x + PREV, x + NEXT} \subseteq Addresses
                     /\ \A y \in Ring(G) : x < y => x + 12 <= y

\* Nothing but links of G differs.
OnlyLinks(m, m2, G) ==
  /\ m2 \in [Addresses -> Nat]
  /\ \A a \in Addresses : (\A x \in Ring(G) : a # x + PREV /\ a # x + NEXT) => m2[a] = m[a]

\* Since a block has at least 16 bytes, no two blocks share a link word.
LEMMA RoomyBlocks ==
  ASSUME NEW m, NEW top, NEW B, Shape(m, top, B), NEW G, G \subseteq B \ {top}
  PROVE  Roomy(G)
<1>1. ListHead = 4 /\ {8, 12} \subseteq Addresses /\ PREV = 4 /\ NEXT = 8
  BY AddressIs DEF ListHead, PREV, NEXT
<1>2. \A x \in G : x \in Nat /\ 24 <= x /\ {x + 4, x + 8} \subseteq Addresses
  BY Geometry
<1>3. ASSUME NEW x \in G, NEW y \in G, x < y PROVE x + 12 <= y
  <2>1. x \in B /\ y \in B
    OBVIOUS
  <2>2. x + 16 <= y
    BY <1>3, <2>1, Geometry
  <2> QED
    BY <1>2, <2>2
<1> QED
  BY <1>1, <1>2, <1>3 DEF Roomy, Ring

\* Block b is now listed, after at, among those of G; only links have changed.
Inserted(m, m2, G, b, at) ==
  /\ OnlyLinks(m, m2, G)
  /\ \E r2 : Linked(m2, G, r2)
  /\ m2[at + NEXT] = b

\* insert_to_list() behind block at.
LEMMA InsertLinks ==
  ASSUME NEW m \in [Addresses -> Nat], NEW F, NEW r, Linked(m, F, r),
         NEW b, b \notin Ring(F), Roomy(F \cup {b}), NEW at \in Ring(F)
  PROVE  Inserted(m, InsertToList(m, b, at), F \cup {b}, b, at)
<1> DEFINE nx == m[at + NEXT]
           m2 == InsertToList(m, b, at)
           R == Ring(F)
           r2 == [x \in Ring(F \cup {b}) |->
                    IF x = b THEN r[at] + 1 ELSE IF r[x] > r[at] THEN r[x] + 1 ELSE r[x]]
<1>1. Ring(F \cup {b}) = R \cup {b} /\ ListHead \in R /\ b \notin R /\ at \in R /\ nx \in R
  BY DEF Ring, Linked
<1>2. \A x \in R \cup {b} : x \in Nat /\ x + 4 \in Addresses /\ x + 8 \in Addresses
  BY <1>1 DEF Roomy, PREV, NEXT
<1>3. \A x, y \in R \cup {b} : x # y => x + 12 <= y \/ y + 12 <= x
  <2>1. \A x, y \in R \cup {b} : x \in Nat /\ y \in Nat /\ (x < y => x + 12 <= y)
    BY <1>1, <1>2 DEF Roomy
  <2> HIDE DEF R
  <2> QED
    BY <2>1
<1>4. m2 = [m EXCEPT ![b + 4] = at, ![b + 8] = nx, ![nx + 4] = b, ![at + 8] = b]
  BY DEF InsertToList, PREV, NEXT
<1>5. /\ m2 \in [Addresses -> Nat]
      /\ m2[b + 4] = at /\ m2[b + 8] = nx /\ m2[nx + 4] = b /\ m2[at + 8] = b
      /\ \A a \in Addresses \ {b + 4, b + 8, nx + 4, at + 8} : m2[a] = m[a]
  <2>1. /\ {b + 4, b + 8, nx + 4, at + 8} \subseteq Addresses
        /\ {at, nx, b} \subseteq Nat /\ b # at /\ b # nx
    BY <1>1, <1>2
  <2>2. b + 4 # nx + 4 /\ b + 4 # at + 8 /\ b + 8 # nx + 4 /\ b + 8 # at + 8 /\ nx + 4 # at + 8
    BY <1>1, <1>3, <2>1
  <2> HIDE DEF nx, m2
  <2> QED
    BY <1>4, <2>1, <2>2
<1>6. \A x \in R : /\ m2[x + 8] = IF x = at THEN b ELSE m[x + 8]
                   /\ m2[x + 4] = IF x = nx THEN b ELSE m[x + 4]
  <2> HIDE DEF nx, m2, R
  <2>1. ASSUME NEW x \in R
        PROVE  /\ x + 8 # b + 4 /\ x + 8 # b + 8 /\ x + 8 # nx + 4
               /\ x + 4 # b + 4 /\ x + 4 # b + 8 /\ x + 4 # at + 8
               /\ x # at => x + 8 # at + 8
               /\ x # nx => x + 4 # nx + 4
    <3>1. x \in Nat /\ b \in Nat /\ nx \in Nat /\ at \in Nat /\ x # b
      BY <1>1, <1>2
    <3>2. /\ x + 12 <= b \/ b + 12 <= x
          /\ x # nx => x + 12 <= nx \/ nx + 12 <= x
          /\ x # at => x + 12 <= at \/ at + 12 <= x
      BY <1>1, <1>3, <3>1
    <3> QED
      BY <3>1, <3>2
  <2> QED
    BY <1>1, <1>2, <1>5, <2>1
<1>7. OnlyLinks(m, m2, F \cup {b})
  <2> HIDE DEF nx, m2
  <2>1. ASSUME NEW a \in Addresses, \A x \in Ring(F \cup {b}) : a # x + PREV /\ a # x + NEXT
        PROVE  m2[a] = m[a]
    <3>1. a # b + 4 /\ a # b + 8 /\ a # nx + 4 /\ a # at + 8
      BY <1>1, <2>1 DEF PREV, NEXT
    <3> QED
      BY <1>5, <3>1
  <2> QED
    BY <1>5, <2>1 DEF OnlyLinks
<1>8. \A x \in R : /\ m[x + 8] \in R /\ m[m[x + 8] + 4] = x
                   /\ m[x + 4] \in R /\ m[m[x + 4] + 8] = x
                   /\ m[x + 8] # ListHead => r[x] < r[m[x + 8]]
  BY DEF Linked, PREV, NEXT
<1>9. r \in [R -> Nat] /\ r[ListHead] = 0 /\ nx = m[at + 8]
  BY DEF Linked, NEXT
<1>a. /\ r2 \in [R \cup {b} -> Nat] /\ r2[ListHead] = 0
      /\ r2[b] = r[at] + 1
      /\ \A x \in R : r2[x] = IF r[x] > r[at] THEN r[x] + 1 ELSE r[x]
  BY SMTT(60), <1>1, <1>9
<1>b. ASSUME NEW x \in R \cup {b}
      PROVE  /\ m2[x + 8] \in R \cup {b} /\ m2[m2[x + 8] + 4] = x
             /\ m2[x + 4] \in R \cup {b} /\ m2[m2[x + 4] + 8] = x
             /\ m2[x + 8] # ListHead => r2[x] < r2[m2[x + 8]]
  <2> HIDE DEF nx, m2, R, r2
  <2>1. CASE x = b
    <3>1. nx # ListHead => r[at] < r[nx] /\ r[at] \in Nat /\ r[nx] \in Nat
      BY <1>1, <1>8, <1>9
    <3> QED
      BY <1>1, <1>5, <1>a, <2>1, <3>1
  <2>2. CASE x = at
    <3>1. m2[x + 8] = b /\ m2[b + 4] = x
      BY <1>1, <1>5, <2>2
    <3>2. m2[x + 4] \in R \cup {b} /\ m2[m2[x + 4] + 8] = x
      <4>1. CASE x = nx
        BY <1>1, <1>5, <1>6, <2>2, <4>1
      <4>2. CASE x # nx
        <5>1. m2[x + 4] = m[x + 4] /\ m[x + 4] \in R /\ m[m[x + 4] + 8] = x
          BY <1>1, <1>6, <1>8, <2>2, <4>2
        <5>2. m[x + 4] # at
          BY <1>9, <2>2, <4>2, <5>1
        <5> QED
          BY <1>6, <5>1, <5>2
      <4> QED
        BY <4>1, <4>2
    <3>3. r2[x] < r2[b]
      <4>1. r[at] \in Nat /\ r2[at] = r[at]
        BY <1>1, <1>9, <1>a
      <4> QED
        BY <1>a, <2>2, <4>1
    <3> QED
      BY <1>1, <3>1, <3>2, <3>3
  <2>3. CASE x \in R /\ x # at
    <3>1. /\ m2[x + 8] = m[x + 8] /\ m[x + 8] \in R /\ m[m[x + 8] + 4] = x
      BY <1>6, <1>8, <2>3
    <3>2. m[x + 8] # nx
      BY <1>1, <1>8, <1>9, <2>3, <3>1
    <3>3. m2[m[x + 8] + 4] = x
      BY <1>6, <3>1, <3>2
    <3>4. m2[x + 4] \in R \cup {b} /\ m2[m2[x + 4] + 8] = x
      <4>1. CASE x = nx
        BY <1>1, <1>5, <1>6, <2>3, <4>1
      <4>2. CASE x # nx
        <5>1. m2[x + 4] = m[x + 4] /\ m[x + 4] \in R /\ m[m[x + 4] + 8] = x
          BY <1>1, <1>6, <1>8, <2>3, <4>2
        <5>2. m[x + 4] # at
          BY <1>9, <4>2, <5>1
        <5> QED
          BY <1>6, <5>1, <5>2
      <4> QED
        BY <4>1, <4>2
    <3>5. m[x + 8] # ListHead => r2[x] < r2[m[x + 8]]
      <4>1. r[x] \in Nat /\ r[m[x + 8]] \in Nat /\ r[at] \in Nat
        BY <1>1, <1>9, <2>3, <3>1
      <4>2. m[x + 8] # ListHead => r[x] < r[m[x + 8]]
        BY <1>8, <2>3
      <4> QED
        BY <1>a, <2>3, <3>1, <4>1, <4>2
    <3> QED
      BY <1>1, <3>1, <3>3, <3>4, <3>5
  <2> QED
    BY <1>1, <2>1, <2>2, <2>3
<1>c. Linked(m2, F \cup {b}, r2)
  <2> HIDE DEF nx, m2, R, r2
  <2> QED
    BY <1>1, <1>a, <1>b DEF Linked, PREV, NEXT
<1>d. m2[at + NEXT] = b
  <2> HIDE DEF nx, m2
  <2> QED
    BY <1>5 DEF NEXT
<1> QED
  BY <1>7, <1>c, <1>d DEF Inserted

\* remove_from_list().
LEMMA RemoveLinks ==
  ASSUME NEW m \in [Addresses -> Nat], NEW F, NEW r, Linked(m, F, r), Roomy(F),
         NEW b \in F, b # ListHead
  PROVE  /\ OnlyLinks(m, RemoveFromList(m, b), F)
         /\ OnlyLinks(m, RemoveFromList(m, b), F \ {b})
         /\ Linked(RemoveFromList(m, b), F \ {b}, [x \in Ring(F \ {b}) |-> r[x]])
<1> DEFINE nx == m[b + NEXT]
           pv == m[b + PREV]
           m2 == RemoveFromList(m, b)
           R == Ring(F) \ {b}
           r2 == [x \in Ring(F \ {b}) |-> r[x]]
<1>1. Ring(F \ {b}) = R /\ ListHead \in R /\ b \in Ring(F) /\ Ring(F) = R \cup {b} /\ b \notin R
  BY DEF Ring
<1>2. \A x \in Ring(F) : x \in Nat /\ x + 4 \in Addresses /\ x + 8 \in Addresses
  BY DEF Roomy, PREV, NEXT
<1>3. \A x, y \in Ring(F) : x # y => x + 12 <= y \/ y + 12 <= x
  BY <1>2 DEF Roomy
<1>4. \A x \in Ring(F) : /\ m[x + 8] \in Ring(F) /\ m[m[x + 8] + 4] = x
                         /\ m[x + 4] \in Ring(F) /\ m[m[x + 4] + 8] = x
                         /\ m[x + 8] # ListHead => r[x] < r[m[x + 8]]
  BY DEF Linked, PREV, NEXT
<1>5. /\ nx \in Ring(F) /\ pv \in Ring(F) /\ m[nx + 4] = b /\ m[pv + 8] = b
      /\ nx = m[b + 8] /\ pv = m[b + 4]
  BY <1>1, <1>4 DEF PREV, NEXT
<1>r. r \in [Ring(F) -> Nat] /\ r[ListHead] = 0
  BY DEF Linked
<1>6. nx # b /\ pv # b
  <2>1. r[b] \in Nat
    BY <1>1, <1>r
  <2>2. nx # b
    BY <1>1, <1>4, <1>5, <2>1
  <2> QED
    BY <1>5, <2>2
<1>7. m2 = [m EXCEPT ![pv + 8] = nx, ![nx + 4] = pv]
  BY DEF RemoveFromList, PREV, NEXT
<1>8. /\ m2 \in [Addresses -> Nat] /\ m2[pv + 8] = nx /\ m2[nx + 4] = pv
      /\ \A a \in Addresses \ {pv + 8, nx + 4} : m2[a] = m[a]
  <2>1. pv + 8 \in Addresses /\ nx + 4 \in Addresses /\ pv \in Nat /\ nx \in Nat
    BY <1>2, <1>5
  <2>2. pv + 8 # nx + 4
    BY <1>3, <1>5, <2>1
  <2> HIDE DEF nx, pv, m2
  <2> QED
    BY <1>7, <2>1, <2>2
<1>9. \A x \in R : /\ m2[x + 8] = IF x = pv THEN nx ELSE m[x + 8]
                   /\ m2[x + 4] = IF x = nx THEN pv ELSE m[x + 4]
  <2> HIDE DEF nx, pv, m2, R
  <2>1. ASSUME NEW x \in R
        PROVE  /\ x + 8 # nx + 4 /\ x + 4 # pv + 8
               /\ x # pv => x + 8 # pv + 8
               /\ x # nx => x + 4 # nx + 4
    <3>1. x \in Ring(F) /\ x \in Nat /\ nx \in Nat /\ pv \in Nat
      BY <1>1, <1>2, <1>5
    <3>2. /\ x # nx => x + 12 <= nx \/ nx + 12 <= x
          /\ x # pv => x + 12 <= pv \/ pv + 12 <= x
      BY <1>3, <1>5, <3>1
    <3> QED
      BY <3>1, <3>2
  <2> QED
    BY <1>1, <1>2, <1>8, <2>1
<1>a. OnlyLinks(m, m2, F \ {b})
  <2> HIDE DEF nx, pv, m2
  <2>1. ASSUME NEW a \in Addresses, \A x \in Ring(F \ {b}) : a # x + PREV /\ a # x + NEXT
        PROVE  m2[a] = m[a]
    <3>1. a # nx + 4 /\ a # pv + 8
      BY <1>1, <1>5, <1>6, <2>1 DEF PREV, NEXT
    <3> QED
      BY <1>8, <3>1
  <2> QED
    BY <1>8, <2>1 DEF OnlyLinks
<1>b. OnlyLinks(m, m2, F)
  BY <1>1, <1>a DEF OnlyLinks
<1>c. ASSUME NEW x \in R
      PROVE  /\ m2[x + 8] \in R /\ m2[m2[x + 8] + 4] = x
             /\ m2[x + 4] \in R /\ m2[m2[x + 4] + 8] = x
             /\ m2[x + 8] # ListHead => r2[x] < r2[m2[x + 8]]
  <2> HIDE DEF nx, pv, m2, R
  <2>0. x \in Ring(F) /\ nx \in R /\ pv \in R
    BY <1>1, <1>5, <1>6
  <2>1. m2[x + 8] \in R /\ m2[m2[x + 8] + 4] = x
    <3>1. CASE x = pv
      BY <1>8, <2>0, <3>1
    <3>2. CASE x # pv
      <4>1. /\ m2[x + 8] = m[x + 8] /\ m[x + 8] \in Ring(F) /\ m[m[x + 8] + 4] = x
        BY <1>4, <1>9, <2>0, <3>2
      <4>2. m[x + 8] # b /\ m[x + 8] # nx
        BY <1>1, <1>5, <3>2, <4>1
      <4> QED
        BY <1>1, <1>9, <4>1, <4>2
    <3> QED
      BY <3>1, <3>2
  <2>2. m2[x + 4] \in R /\ m2[m2[x + 4] + 8] = x
    <3>1. CASE x = nx
      BY <1>8, <2>0, <3>1
    <3>2. CASE x # nx
      <4>1. /\ m2[x + 4] = m[x + 4] /\ m[x + 4] \in Ring(F) /\ m[m[x + 4] + 8] = x
        BY <1>4, <1>9, <2>0, <3>2
      <4>2. m[x + 4] # b /\ m[x + 4] # pv
        BY <1>1, <1>5, <3>2, <4>1
      <4> QED
        BY <1>1, <1>9, <4>1, <4>2
    <3> QED
      BY <3>1, <3>2
  <2>3. m2[x + 8] # ListHead => r[x] < r[m2[x + 8]]
    <3>1. CASE x = pv
      <4>1. r[pv] \in Nat /\ r[b] \in Nat /\ r[nx] \in Nat
        BY <1>1, <1>5, <1>r
      <4>2. r[pv] < r[b]
        BY <1>4, <1>5
      <4>3. nx # ListHead => r[b] < r[nx]
        BY <1>1, <1>4, <1>5
      <4> QED
        BY <1>8, <3>1, <4>1, <4>2, <4>3
    <3>2. CASE x # pv
      BY <1>4, <1>9, <2>0, <3>2
    <3> QED
      BY <3>1, <3>2
  <2> QED
    BY <1>1, <2>1, <2>2, <2>3
<1>d. Linked(m2, F \ {b}, r2)
  <2>1. r2 \in [R -> Nat] /\ r2[ListHead] = 0
    BY <1>1, <1>r
  <2> HIDE DEF nx, pv, m2, R, r2
  <2> QED
    BY <1>1, <1>c, <2>1 DEF Linked, PREV, NEXT
<1> QED
  BY <1>a, <1>b, <1>d

-----------------------------------------------------------------------------
(* What a change of some words leaves of the blocks.                         *)

\* The blocks in X keep their size words and their payloads.
Kept(m, m2, X) ==
  \A x \in X : /\ m2[x] = m[x]
               /\ \A a \in Addresses : x + 12 <= a /\ a < FooterOf(m, x) => m2[a] = m[a]

\* Two changes one after the other keep what each of them keeps.
LEMMA KeptTrans ==
  ASSUME NEW m, NEW m2, NEW m3, NEW X, Kept(m, m2, X), Kept(m2, m3, X)
  PROVE  Kept(m, m3, X)
<1>1. \A x \in X : FooterOf(m2, x) = FooterOf(m, x)
  BY DEF Kept, FooterOf, Size
<1> QED
  BY <1>1 DEF Kept

\* What is derived from a size word depends on that word alone.
LEMMA SameSize ==
  ASSUME NEW m, NEW m2, NEW b, m2[b] = m[b]
  PROVE  /\ Size(m2, b) = Size(m, b) /\ FooterOf(m2, b) = FooterOf(m, b)
         /\ Following(m2, b) = Following(m, b) /\ Allocated(m2, b) = Allocated(m, b)
BY DEF Size, FooterOf, Following, Allocated

\* A word inside block y that is none of its own links, or any word of a block not in a list.
LEMMA NotLink ==
  ASSUME NEW m, NEW top, NEW B, Shape(m, top, B), NEW G, G \subseteq B \ {top},
         NEW y \in B \ {top}, NEW a \in Addresses, y <= a, a < Following(m, y),
         y \notin G \/ a = y \/ y + 12 <= a,
         NEW x \in Ring(G)
  PROVE  a # x + PREV /\ a # x + NEXT
<1>1. a \in Nat /\ y \in Nat /\ 24 <= y /\ PREV = 4 /\ NEXT = 8 /\ Following(m, y) \in Nat
  BY AddressIs, Geometry DEF PREV, NEXT
<1>2. CASE x = ListHead
  BY <1>1, <1>2 DEF ListHead
<1>3. CASE x \in G
  <2>1. x \in Nat /\ x \in B \ {top}
    BY <1>3, Geometry
  <2>2. CASE x = y
    BY <1>1, <1>3, <2>2
  <2>3. CASE x < y
    <3>1. x + 16 <= y
      BY <2>1, <2>3, Geometry
    <3> QED
      BY <1>1, <2>1, <3>1
  <2>4. CASE y < x
    <3>1. Following(m, y) <= x
      BY <2>1, <2>4, Geometry
    <3> QED
      BY <1>1, <2>1, <3>1
  <2> QED
    BY <1>1, <2>1, <2>2, <2>3, <2>4
<1> QED
  BY <1>2, <1>3 DEF Ring

\* The prologue and the epilogue are words of the heap.
LEMMA Ends ==
  ASSUME NEW m, NEW top, NEW B, Shape(m, top, B)
  PROVE  /\ {top, HeapLo, HeapLo + WORD} \subseteq Addresses
         /\ top \in Nat /\ 24 <= top /\ HeapLo = 16 /\ WORD = 4
BY AddressIs, Geometry DEF HeapLo, WORD, First, Shape

\* The prologue and the epilogue are not link words.
LEMMA EndsNotLink ==
  ASSUME NEW m, NEW top, NEW B, Shape(m, top, B), NEW G, G \subseteq B \ {top},
         NEW a \in {top, HeapLo, HeapLo + WORD}, NEW x \in Ring(G)
  PROVE  a # x + PREV /\ a # x + NEXT
<1>1. top \in Nat /\ 24 <= top /\ PREV = 4 /\ NEXT = 8 /\ HeapLo = 16 /\ WORD = 4
  BY Ends DEF PREV, NEXT
<1>2. CASE x = ListHead
  BY <1>1, <1>2 DEF ListHead
<1>3. CASE x \in G
  <2>1. x \in Nat /\ 24 <= x /\ x + 16 <= Following(m, x) /\ Following(m, x) <= top
        /\ Following(m, x) \in Nat
    BY <1>3, Geometry
  <2> QED
    BY <1>1, <2>1
<1> QED
  BY <1>2, <1>3 DEF Ring

\* The size words and the footers make the shape.
LEMMA ShapeFrame ==
  ASSUME NEW m, NEW top, NEW B, Shape(m, top, B), NEW m2 \in [Addresses -> Nat],
         \A b \in B : m2[b] = m[b],
         \A b \in B \ {top} : m2[FooterOf(m, b)] = m[FooterOf(m, b)],
         m2[HeapLo] = m[HeapLo], m2[HeapLo + WORD] = m[HeapLo + WORD]
  PROVE  /\ Shape(m2, top, B)
         /\ FreeIn(m2, top, B) = FreeIn(m, top, B) /\ UsedIn(m2, top, B) = UsedIn(m, top, B)
<1>1. \A b \in B : /\ Size(m2, b) = Size(m, b) /\ FooterOf(m2, b) = FooterOf(m, b)
                   /\ Following(m2, b) = Following(m, b) /\ Allocated(m2, b) = Allocated(m, b)
  BY SameSize
<1>2. Shape(m2, top, B)
  <2> HIDE DEF Size, FooterOf, Following
  <2> QED
    BY <1>1 DEF Shape
<1> QED
  BY <1>1, <1>2 DEF FreeIn, UsedIn

\* A change of links only leaves the blocks, which of them are free, and every payload.
LEMMA LinksFrame ==
  ASSUME NEW m, NEW top, NEW B, Shape(m, top, B), NEW G, G \subseteq B \ {top},
         NEW m2, OnlyLinks(m, m2, G)
  PROVE  /\ Shape(m2, top, B) /\ \A b \in B : m2[b] = m[b]
         /\ FreeIn(m2, top, B) = FreeIn(m, top, B) /\ UsedIn(m2, top, B) = UsedIn(m, top, B)
         /\ \A X : X \subseteq (B \ {top}) \ G => Kept(m, m2, X)
<1>1. \A a \in Addresses : (\A x \in Ring(G) : a # x + PREV /\ a # x + NEXT) => m2[a] = m[a]
  BY DEF OnlyLinks
<1>2. ASSUME NEW y \in B \ {top} PROVE m2[y] = m[y] /\ m2[FooterOf(m, y)] = m[FooterOf(m, y)]
  <2>1. /\ y \in Addresses /\ FooterOf(m, y) \in Addresses /\ y \in Nat
        /\ FooterOf(m, y) = Following(m, y) - 4 /\ y + 16 <= Following(m, y)
        /\ Following(m, y) \in Nat
    BY Geometry
  <2>2. /\ y <= FooterOf(m, y) /\ FooterOf(m, y) < Following(m, y) /\ y + 12 <= FooterOf(m, y)
        /\ y <= y /\ y < Following(m, y)
    BY <2>1
  <2>3. \A x \in Ring(G) : y # x + PREV /\ y # x + NEXT
    BY <2>1, <2>2, NotLink
  <2>4. \A x \in Ring(G) : FooterOf(m, y) # x + PREV /\ FooterOf(m, y) # x + NEXT
    BY <2>1, <2>2, NotLink
  <2> QED
    BY <1>1, <2>1, <2>3, <2>4
<1>3. m2[top] = m[top] /\ m2[HeapLo] = m[HeapLo] /\ m2[HeapLo + WORD] = m[HeapLo + WORD]
  <2>1. ASSUME NEW a \in {top, HeapLo, HeapLo + WORD} PROVE m2[a] = m[a]
    <3>1. \A x \in Ring(G) : a # x + PREV /\ a # x + NEXT
      BY EndsNotLink
    <3>2. a \in Addresses
      BY Ends
    <3> QED
      BY <1>1, <3>1, <3>2
  <2> QED
    BY <2>1
<1>4. \A b \in B : m2[b] = m[b]
  BY <1>2, <1>3
<1>5. ASSUME NEW X, X \subseteq (B \ {top}) \ G PROVE Kept(m, m2, X)
  <2>1. ASSUME NEW x \in X, NEW a \in Addresses, x + 12 <= a, a < FooterOf(m, x)
        PROVE  m2[a] = m[a]
    <3>1. /\ x \in B \ {top} /\ x \notin G /\ x \in Nat /\ a \in Nat
          /\ FooterOf(m, x) = Following(m, x) - 4 /\ Following(m, x) \in Nat
      BY <1>5, <2>1, Geometry, AddressIs
    <3>2. x <= a /\ a < Following(m, x)
      BY <2>1, <3>1
    <3>3. \A y \in Ring(G) : a # y + PREV /\ a # y + NEXT
      BY <3>1, <3>2, NotLink
    <3> QED
      BY <1>1, <3>3
  <2> QED
    BY <1>4, <1>5, <2>1 DEF Kept
<1> QED
  BY <1>2, <1>3, <1>4, <1>5, ShapeFrame DEF OnlyLinks

\* A list is the same list in a memory with the same links.
LEMMA LinkedFrame ==
  ASSUME NEW m, NEW F, NEW r, Linked(m, F, r), NEW m2,
         \A x \in Ring(F) : m2[x + PREV] = m[x + PREV] /\ m2[x + NEXT] = m[x + NEXT]
  PROVE  Linked(m2, F, r)
BY DEF Linked

\* Blocks from p up to e become one: nothing outside them changes but links of blocks in F.
Outside(p, e) == {a \in Addresses : a < p \/ e <= a}

\* When the block at p has taken in all up to e, the rest of the blocks tile the heap.
LEMMA MergeShape ==
  ASSUME NEW m, NEW top, NEW B, Shape(m, top, B), NEW F, F \subseteq B \ {top},
         NEW p \in B, NEW e \in B, p < e, NEW m2 \in [Addresses -> Nat],
         \A a \in Outside(p, e) : (\A x \in Ring(F) : a # x + PREV /\ a # x + NEXT) => m2[a] = m[a],
         Size(m2, p) = e - p, m2[e - 4] \in {0, e - p},
         NEW B2, \A c : c \in B2 <=> c \in B /\ (c <= p \/ e <= c)
  PROVE  /\ Shape(m2, top, B2)
         /\ \A c \in B : c < p \/ e <= c => m2[c] = m[c]
         /\ \A X : (\A x \in X : x \in (B \ {top}) \ F /\ (x < p \/ e <= x)) => Kept(m, m2, X)
<1>1. /\ p \in Nat /\ e \in Nat /\ 24 <= p /\ p + 16 <= e /\ p # top /\ top \in Nat /\ e <= top
  BY Geometry
<1>2. ASSUME NEW c \in B, c < p \/ e <= c PROVE m2[c] = m[c]
  <2>1. c \in Outside(p, e) /\ c \in Addresses
    BY <1>2, Geometry DEF Outside
  <2>2. \A x \in Ring(F) : c # x + PREV /\ c # x + NEXT
    <3>1. CASE c = top
      BY <3>1, EndsNotLink
    <3>2. CASE c # top
      <4>1. c <= c /\ c < Following(m, c) /\ c \in Addresses
        BY <3>2, Geometry
      <4> QED
        BY <3>2, <4>1, NotLink
    <3> QED
      BY <3>1, <3>2
  <2> QED
    BY <2>1, <2>2
<1>3. ASSUME NEW c \in B \ {top}, c < p \/ e <= c,
             NEW a \in Addresses, c <= a, a < Following(m, c), c \notin F \/ a = c \/ c + 12 <= a
      PROVE  m2[a] = m[a]
  <2>1. a \in Outside(p, e)
    <3>1. c \in Nat /\ a \in Nat /\ Following(m, c) \in Nat /\ (c < p => Following(m, c) <= p)
      BY <1>1, <1>3, Geometry, AddressIs
    <3> QED
      BY <1>1, <1>3, <3>1 DEF Outside
  <2>2. \A x \in Ring(F) : a # x + PREV /\ a # x + NEXT
    BY <1>3, NotLink
  <2> QED
    BY <2>1, <2>2
<1>4. ASSUME NEW c \in B \ {top}, c < p \/ e <= c PROVE m2[FooterOf(m, c)] = m[FooterOf(m, c)]
  <2>1. /\ FooterOf(m, c) \in Addresses /\ c \in Nat /\ Following(m, c) \in Nat
        /\ FooterOf(m, c) = Following(m, c) - 4 /\ c + 16 <= Following(m, c)
    BY Geometry
  <2>2. c <= FooterOf(m, c) /\ FooterOf(m, c) < Following(m, c) /\ c + 12 <= FooterOf(m, c)
    BY <2>1
  <2> QED
    BY <1>3, <1>4, <2>1, <2>2
<1>5. m2[HeapLo] = 9 /\ m2[HeapLo + WORD] = 8 /\ m2[top] = 1
  <2>1. ASSUME NEW a \in {HeapLo, HeapLo + WORD} PROVE m2[a] = m[a]
    <3>1. a \in Addresses /\ a < p
      BY <1>1, Ends
    <3>2. a \in Outside(p, e)
      BY <3>1 DEF Outside
    <3>3. \A x \in Ring(F) : a # x + PREV /\ a # x + NEXT
      BY EndsNotLink
    <3> QED
      BY <3>2, <3>3
  <2> QED
    BY <1>1, <1>2, <2>1 DEF Shape
<1>6. p \in B2 /\ e \in B2 /\ First \in B2 /\ top \in B2
  <2>1. First <= p /\ First \in B /\ top \in B /\ First \in Nat
    BY DEF Shape, First, HeapLo
  <2> QED
    BY <1>1, <2>1
<1>7. ASSUME NEW b \in B2 \ {top}
      PROVE  /\ Size(m2, b) >= OVERHEAD /\ Following(m2, b) \in B2
             /\ m2[FooterOf(m2, b)] \in {0, Size(m2, b)}
             /\ \A c \in B2 : b < c => Following(m2, b) <= c
  <2>1. CASE b = p
    <3>1. Following(m2, p) = e /\ FooterOf(m2, p) = e - 4
      BY <1>1 DEF Following, FooterOf, WORD
    <3>2. \A c \in B2 : p < c => e <= c
      BY <1>1, Geometry
    <3> QED
      BY <1>1, <1>6, <2>1, <3>1, <3>2 DEF OVERHEAD
  <2>2. CASE b # p
    <3>1. (b < p \/ e <= b) /\ b \in B \ {top} /\ b \in Nat
      BY <1>1, <2>2, Geometry
    <3>2. m2[b] = m[b] /\ m2[FooterOf(m, b)] = m[FooterOf(m, b)]
      BY <1>2, <1>4, <3>1
    <3>3. /\ Size(m2, b) = Size(m, b) /\ FooterOf(m2, b) = FooterOf(m, b)
          /\ Following(m2, b) = Following(m, b)
      BY <3>2, SameSize
    <3>4. /\ Size(m, b) >= OVERHEAD /\ Following(m, b) \in B
          /\ m[FooterOf(m, b)] \in {0, Size(m, b)}
          /\ \A c \in B : b < c => Following(m, b) <= c
      BY <3>1 DEF Shape
    <3>5. Following(m, b) \in B2
      <4>1. b < p => Following(m, b) <= p
        BY <3>4
      <4>2. e <= b => e <= Following(m, b)
        BY <1>1, <3>1, Geometry
      <4> QED
        BY <3>1, <3>4, <4>1, <4>2
    <3> QED
      BY <3>2, <3>3, <3>4, <3>5
  <2> QED
    BY <2>1, <2>2
<1>8. Shape(m2, top, B2)
  <2>1. B2 \subseteq Addresses /\ \A b \in B2 : First <= b /\ b <= top
    BY DEF Shape
  <2> QED
    BY <1>5, <1>6, <1>7, <2>1 DEF Shape
<1>9. ASSUME NEW X, \A x \in X : x \in (B \ {top}) \ F /\ (x < p \/ e <= x) PROVE Kept(m, m2, X)
  <2>1. ASSUME NEW x \in X, NEW a \in Addresses, x + 12 <= a, a < FooterOf(m, x)
        PROVE  m2[a] = m[a]
    <3>1. /\ x \in B \ {top} /\ x \notin F /\ x \in Nat /\ a \in Nat /\ (x < p \/ e <= x)
          /\ FooterOf(m, x) = Following(m, x) - 4 /\ Following(m, x) \in Nat
      BY <1>9, <2>1, Geometry, AddressIs
    <3>2. x <= a /\ a < Following(m, x)
      BY <2>1, <3>1
    <3> QED
      BY <1>3, <3>1, <3>2
  <2> QED
    BY <1>2, <1>9, <2>1 DEF Kept
<1> QED
  BY <1>2, <1>8, <1>9

-----------------------------------------------------------------------------
(* Merging blocks.                                                           *)

\* Adding a multiple of 4 to a size word changes the size and keeps the allocated bit.
LEMMA ParityKept ==
  ASSUME NEW v \in Nat, NEW d \in Int, d % 4 = 0, v + d \in Nat
  PROVE  /\ (v + d) % 2 = v % 2
         /\ (v + d) - ((v + d) % 2) = (v - (v % 2)) + d
OBVIOUS

\* The blocks from p to e have become one, and the list is now that of F2.
Merged(m, m3, top, B, B2, F, F2, r2, p, e) ==
  /\ Shape(m3, top, B2) /\ Linked(m3, F2, r2)
  /\ FreeIn(m3, top, B2) = FreeIn(m, top, B) \cap B2
  /\ UsedIn(m3, top, B2) = UsedIn(m, top, B) \cap B2
  /\ \A X : (\A x \in X : x \in (B \ {top}) \ F /\ (x < p \/ e <= x)) => Kept(m, m3, X)

\* The block at p has taken in all up to e, and some blocks between are no longer listed.
LEMMA MergeStep ==
  ASSUME NEW m, NEW top, NEW B, Shape(m, top, B), NEW F, F \subseteq B \ {top},
         NEW p \in B, NEW e \in B, p < e,
         NEW m1, \A a \in Outside(p, e) : m1[a] = m[a],
         NEW mR, OnlyLinks(m1, mR, F),
         NEW F2, F2 \subseteq F, NEW r2, Linked(mR, F2, r2), \A x \in F2 : x <= p \/ e <= x,
         NEW m3 \in [Addresses -> Nat], \A a \in Outside(p, e) \cup {p + 4, p + 8} : m3[a] = mR[a],
         m3[p] = m[p] + (e - Following(m, p)), m3[e - 4] \in {0, e - p},
         NEW B2, \A c : c \in B2 <=> c \in B /\ (c <= p \/ e <= c)
  PROVE  Merged(m, m3, top, B, B2, F, F2, r2, p, e)
<1>1. /\ p \in Nat /\ e \in Nat /\ 24 <= p /\ p # top /\ p + 16 <= e /\ m[p] \in Nat
      /\ e % 4 = 0 /\ Following(m, p) \in Nat /\ Following(m, p) % 4 = 0
      /\ Following(m, p) = p + Size(m, p) /\ Following(m, p) <= e
  <2>1. Following(m, p) \in B /\ p # top
    BY Geometry
  <2> QED
    BY <2>1, Geometry
<1>2. m3[p] % 2 = m[p] % 2 /\ Size(m3, p) = e - p
  <2> DEFINE d == e - Following(m, p)
  <2>1. d \in Nat /\ d % 4 = 0
    <3> HIDE DEF Following, Size
    <3>1. \A f \in Nat : f % 4 = 0 /\ f <= e => e - f \in Nat /\ (e - f) % 4 = 0
      BY <1>1, Sums
    <3> QED
      BY <1>1, <3>1
  <2>2. m3[p] % 2 = m[p] % 2 /\ Size(m3, p) = Size(m, p) + d
    <3> HIDE DEF d
    <3>1. m[p] + d \in Nat /\ m3[p] = m[p] + d
      BY <1>1, <2>1 DEF d
    <3> QED
      BY <1>1, <2>1, <3>1, ParityKept DEF Size
  <2>3. Size(m, p) \in Nat
    BY <1>1, Geometry
  <2> HIDE DEF Size, Following
  <2> QED
    BY <1>1, <2>2, <2>3
<1>3. /\ Shape(m3, top, B2)
      /\ \A c \in B : c < p \/ e <= c => m3[c] = m[c]
      /\ \A X : (\A x \in X : x \in (B \ {top}) \ F /\ (x < p \/ e <= x)) => Kept(m, m3, X)
  <2>1. \A a \in Outside(p, e) : (\A x \in Ring(F) : a # x + PREV /\ a # x + NEXT) => m3[a] = m[a]
    BY DEF OnlyLinks, Outside
  <2>2. Size(m3, p) = e - p /\ m3[e - 4] \in {0, e - p}
    BY <1>2
  <2> HIDE DEF Size
  <2>3. /\ Shape(m3, top, B2)
        /\ \A c \in B : c < p \/ e <= c => m3[c] = m[c]
        /\ \A X : (\A x \in X : x \in (B \ {top}) \ F /\ (x < p \/ e <= x)) => Kept(m, m3, X)
    BY <2>1, <2>2, MergeShape
  <2> QED
    BY <2>3
<1>4. Linked(m3, F2, r2)
  <2>1. ASSUME NEW x \in Ring(F2)
        PROVE  m3[x + PREV] = mR[x + PREV] /\ m3[x + NEXT] = mR[x + NEXT]
    <3>1. x + 4 \in Outside(p, e) \cup {p + 4, p + 8} /\ x + 8 \in Outside(p, e) \cup {p + 4, p + 8}
      <4>1. CASE x = ListHead
        <5>1. {8, 12} \subseteq Addresses
          BY AddressIs
        <5> QED
          BY <1>1, <4>1, <5>1 DEF Outside, ListHead
      <4>2. CASE x \in F2 /\ x # p
        <5>1. x \in B \ {top} /\ x \in Nat /\ {x + 4, x + 8} \subseteq Addresses
          BY <4>2, Geometry
        <5>2. x < p => x + 16 <= p
          BY <5>1, Geometry
        <5>3. x < p \/ e <= x
          BY <1>1, <4>2, <5>1
        <5> QED
          BY <1>1, <5>1, <5>2, <5>3 DEF Outside
      <4> QED
        BY <4>1, <4>2 DEF Ring
    <3> QED
      BY <3>1 DEF PREV, NEXT
  <2> QED
    BY <2>1, LinkedFrame
<1>5. \A c \in B2 : Allocated(m3, c) = Allocated(m, c)
  <2>1. \A c \in B2 : c = p \/ c < p \/ e <= c
    BY <1>1, Geometry
  <2> QED
    BY <1>2, <1>3, <2>1 DEF Allocated
<1> QED
  BY <1>3, <1>4, <1>5 DEF Merged, FreeIn, UsedIn

\* What MergeStep asks of the memories before (m), grown (m1), relinked (mR) and cleared (m3).
MergeData(m, top, B, p, e, m1, mR, F, F2, r2, m3, B2) ==
  /\ Shape(m, top, B) /\ F \subseteq B \ {top} /\ p \in B /\ e \in B /\ p < e
  /\ \A a \in Outside(p, e) : m1[a] = m[a]
  /\ OnlyLinks(m1, mR, F)
  /\ F2 \subseteq F /\ Linked(mR, F2, r2)
  /\ \A x \in F2 : x <= p \/ e <= x
  /\ m3 \in [Addresses -> Nat]
  /\ \A a \in Outside(p, e) \cup {p + 4, p + 8} : m3[a] = mR[a]
  /\ m3[p] = m[p] + (e - Following(m, p)) /\ m3[e - 4] \in {0, e - p}
  /\ \A c : c \in B2 <=> c \in B /\ (c <= p \/ e <= c)

\* MergeStep, its hypotheses in one.
LEMMA MergeFrom ==
  ASSUME NEW m, NEW top, NEW B, NEW p, NEW e, NEW m1, NEW mR, NEW F, NEW F2, NEW r2, NEW m3,
         NEW B2, MergeData(m, top, B, p, e, m1, mR, F, F2, r2, m3, B2)
  PROVE  Merged(m, m3, top, B, B2, F, F2, r2, p, e)
  BY MergeStep DEF MergeData

\* The words that Grow() writes.
Grown(m, m1, F, r, p, n, e) ==
  /\ m1 \in [Addresses -> Nat] /\ Linked(m1, F, r)
  /\ m1[p] = m[p] + (e - n) /\ m1[e - 4] = e - p
  /\ \A a \in Addresses \ {p, n - 4, e - 4} : m1[a] = m[a]
  /\ \A a \in Outside(p, e) : m1[a] = m[a]

\* merge_two_blocks() on the sizes: the header and the footer of the larger block.
LEMMA GrowStep ==
  ASSUME NEW m, NEW top, NEW B, Shape(m, top, B), NEW F, F \subseteq B \ {top},
         NEW r, Linked(m, F, r),
         NEW p \in B, NEW e \in B, NEW n \in B, Following(m, p) = n, p < n, n < e
  PROVE  Grown(m, Grow(m, p, e - n), F, r, p, n, e)
<1> DEFINE m1 == Grow(m, p, e - n)
<1>1. /\ p \in Nat /\ e \in Nat /\ n \in Nat /\ 24 <= p /\ p # top /\ m[p] \in Nat
      /\ e % 4 = 0 /\ n % 4 = 0 /\ p % 4 = 0 /\ n = p + Size(m, p) /\ p + 16 <= n /\ n + 16 <= e
      /\ FooterOf(m, p) = n - 4 /\ Size(m, p) \in Nat
  BY Geometry
<1>2. FooterOf(m, p) \in Addresses /\ p \in Addresses /\ e - 4 \in Addresses
  <2>1. PICK y \in B \ {top} : Following(m, y) = e
    <3>1. e # First
      BY <1>1 DEF First, HeapLo
    <3> QED
      BY <3>1, Preceded
  <2>2. FooterOf(m, y) = e - 4 /\ FooterOf(m, y) \in Addresses
    BY <2>1, Geometry
  <2> QED
    BY <1>1, <2>2, Geometry
<1>3. FooterOf(m, p) + (e - n) = e - 4 /\ Size(m, p) + (e - n) = e - p
  BY <1>1
<1>4. m1 = [m EXCEPT ![n - 4] = 0, ![p] = m[p] + (e - n), ![e - 4] = e - p]
  <2> HIDE DEF Size, FooterOf
  <2> QED
    BY <1>1, <1>3 DEF Grow
<1>5. /\ m1 \in [Addresses -> Nat] /\ m1[p] = m[p] + (e - n) /\ m1[e - 4] = e - p
      /\ \A a \in Addresses \ {p, n - 4, e - 4} : m1[a] = m[a]
  <2>1. m \in [Addresses -> Nat] /\ e - p \in Nat /\ m[p] + (e - n) \in Nat
    BY <1>1 DEF Shape
  <2>2. p # n - 4 /\ p # e - 4 /\ n - 4 # e - 4 /\ n - 4 \in Addresses
    BY <1>1, <1>2
  <2> HIDE DEF m1
  <2> QED
    BY <1>2, <1>4, <2>1, <2>2
<1>6. \A a \in Outside(p, e) : a \in Addresses \ {p, n - 4, e - 4}
  BY <1>1, AddressIs DEF Outside
<1>7. \A x \in Ring(F) : /\ x + PREV \in Addresses \ {p, n - 4, e - 4}
                         /\ x + NEXT \in Addresses \ {p, n - 4, e - 4}
  <2>1. \A x \in Ring(F) : x + PREV \in Addresses /\ x + NEXT \in Addresses
    <3>1. Roomy(F)
      BY RoomyBlocks
    <3> QED
      BY <3>1 DEF Roomy
  <2>2. \A x \in Ring(F) : p # x + PREV /\ p # x + NEXT
    <3>1. p <= p /\ p < Following(m, p) /\ p \in B \ {top}
      BY <1>1
    <3> QED
      BY <1>2, <3>1, NotLink
  <2>3. \A x \in Ring(F) : n - 4 # x + PREV /\ n - 4 # x + NEXT
    <3>1. p <= n - 4 /\ n - 4 < Following(m, p) /\ p + 12 <= n - 4
      BY <1>1
    <3> QED
      BY <1>1, <1>2, <3>1, NotLink
  <2>4. \A x \in Ring(F) : e - 4 # x + PREV /\ e - 4 # x + NEXT
    <3>1. PICK y \in B \ {top} : Following(m, y) = e
      <4>1. e # First
        BY <1>1 DEF First, HeapLo
      <4> QED
        BY <4>1, Preceded
    <3>2. y <= e - 4 /\ e - 4 < Following(m, y) /\ y + 12 <= e - 4
      <4>1. y + 16 <= e /\ y \in Nat
        BY <3>1, Geometry
      <4> QED
        BY <1>1, <3>1, <4>1
    <3> QED
      BY <1>2, <3>2, NotLink
  <2> QED
    BY <2>1, <2>2, <2>3, <2>4
<1>8. Linked(m1, F, r)
  <2> HIDE DEF m1
  <2>1. \A x \in Ring(F) : m1[x + PREV] = m[x + PREV] /\ m1[x + NEXT] = m[x + NEXT]
    BY <1>5, <1>7
  <2> QED
    BY <2>1, LinkedFrame
<1> QED
  BY <1>5, <1>6, <1>8 DEF Grown

\* clear_block() of a block whose size word is still that of m.
LEMMA ClearStep ==
  ASSUME NEW m, NEW top, NEW B, Shape(m, top, B), NEW b \in B \ {top},
         NEW m2 \in [Addresses -> Nat], m2[b] = m[b]
  PROVE  /\ ClearBlock(m2, b) \in [Addresses -> Nat]
         /\ ClearBlock(m2, b)[Following(m, b) - 4] = 0
         /\ \A a \in Addresses \ {b, b + 4, b + 8, Following(m, b) - 4} :
              ClearBlock(m2, b)[a] = m2[a]
         /\ \A a \in {b, b + 4, b + 8} : ClearBlock(m2, b)[a] = 0
<1>1. FooterOf(m2, b) = Following(m, b) - 4 /\ FooterOf(m2, b) \in Addresses
  BY SameSize, Geometry
<1>2. {b, b + 4, b + 8} \subseteq Addresses
  BY Geometry
<1> HIDE DEF FooterOf, Following
<1>3. ClearBlock(m2, b) = [m2 EXCEPT ![Following(m, b) - 4] = 0, ![b] = 0, ![b + 4] = 0, ![b + 8] = 0]
  BY <1>1 DEF ClearBlock, PREV, NEXT, NULL
<1> QED
  BY <1>1, <1>2, <1>3

\* prev_free() and next_free() find neighbours that are blocks, and free.
LEMMA PrevIsFree ==
  ASSUME NEW m, NEW top, NEW B, Shape(m, top, B), NEW b \in B, PrevFree(m, b)
  PROVE  /\ Before(m, b) \in FreeIn(m, top, B) /\ Before(m, b) < b
         /\ Following(m, Before(m, b)) = b
<1>1. /\ m[b - 4] > 0 /\ Before(m, b) = b - m[b - 4] /\ ~Allocated(m, Before(m, b))
  BY DEF PrevFree, Before, WORD
<1>2. b # First
  <2>1. SUFFICES ASSUME b = First PROVE FALSE
    OBVIOUS
  <2>2. b = 24 /\ m[20] = 8 /\ m[16] = 9
    BY <2>1 DEF Shape, First, HeapLo, WORD
  <2>3. Before(m, b) = 16
    BY <1>1, <2>2
  <2> QED
    BY <1>1, <2>2, <2>3 DEF Allocated
<1>3. PICK q \in B \ {top} : q < b /\ Following(m, q) = b
  BY <1>2, Preceded
<1>4. /\ q \in Nat /\ b \in Nat /\ Size(m, q) \in Nat /\ b = q + Size(m, q)
      /\ FooterOf(m, q) = b - 4
  BY <1>3, Geometry
<1>5. m[b - 4] \in {0, Size(m, q)}
  BY <1>3, <1>4 DEF Shape
<1>6. Before(m, b) = q
  BY <1>1, <1>4, <1>5
<1> QED
  BY <1>1, <1>3, <1>6 DEF FreeIn

\* next_is_free() finds a free block behind this one.
LEMMA NextIsFree ==
  ASSUME NEW m, NEW top, NEW B, Shape(m, top, B), NEW b \in B \ {top}, NextFree(m, b)
  PROVE  Following(m, b) \in FreeIn(m, top, B) /\ b < Following(m, b)
<1>1. Following(m, b) \in B /\ b < Following(m, b) /\ ~Allocated(m, Following(m, b))
  <2>1. b \in Nat /\ b + 16 <= Following(m, b) /\ Following(m, b) \in Nat /\ Following(m, b) \in B
    BY Geometry
  <2> QED
    BY <2>1 DEF NextFree
<1>2. Following(m, b) # top
  BY <1>1 DEF Shape, Allocated
<1> QED
  BY <1>1, <1>2 DEF FreeIn

\* The blocks of a heap and its list, which holds all free blocks but those in out.
Pool(m, top, B, r, out) ==
  Shape(m, top, B) /\ Linked(m, FreeIn(m, top, B) \ out, r)

\* A block takes in the free block behind it.
Engulfed(m, m2, top, B, b, n, out) ==
  \E r2 : /\ Pool(m2, top, B \ {n}, r2, out)
          /\ FreeIn(m2, top, B \ {n}) = FreeIn(m, top, B) \ {n}
          /\ UsedIn(m2, top, B \ {n}) = UsedIn(m, top, B)
          /\ Kept(m, m2, UsedIn(m, top, B) \ {b})
          /\ m2[b] = m[b] + Size(m, n)
          /\ \A a \in Addresses : b + 12 <= a /\ a < n - 4 => m2[a] = m[a]

\* coalesce() with the next block free: it leaves the list and becomes a part of this one.
LEMMA MergeNext ==
  ASSUME NEW m, NEW top, NEW B, NEW r, NEW out, Pool(m, top, B, r, out),
         NEW b \in B \ {top}, NEW n \in B, Following(m, b) = n, n \in FreeIn(m, top, B) \ out,
         n # top, out \subseteq {b}
  PROVE  Engulfed(m, ClearBlock(RemoveFromList(Grow(m, b, Size(m, n)), n), n), top, B, b, n, out)
<1> DEFINE F == FreeIn(m, top, B) \ out
           e == Following(m, n)
           m1 == Grow(m, b, Size(m, n))
           mR == RemoveFromList(m1, n)
           m2 == ClearBlock(mR, n)
           r2 == [x \in Ring(F \ {n}) |-> r[x]]
           B2 == B \ {n}
<1>1. Shape(m, top, B) /\ Linked(m, F, r) /\ F \subseteq B \ {top} /\ n \in F /\ n \in B \ {top}
  BY DEF Pool, FreeIn
<1>2. /\ e \in B /\ b \in Nat /\ n \in Nat /\ e \in Nat /\ b + 16 <= n /\ n + 16 <= e
      /\ n + Size(m, n) = e /\ Size(m, n) \in Nat /\ 24 <= b /\ b + Size(m, b) = n
  BY <1>1, Geometry
<1>3. Size(m, n) = e - n /\ b < e /\ n < e /\ b \in B
  <2> HIDE DEF e
  <2> QED
    BY <1>2
<1> HIDE DEF e
<1>4. /\ m1 \in [Addresses -> Nat] /\ Linked(m1, F, r)
      /\ m1[b] = m[b] + (e - n) /\ m1[e - 4] = e - b
      /\ \A a \in Addresses \ {b, n - 4, e - 4} : m1[a] = m[a]
      /\ \A a \in Outside(b, e) : m1[a] = m[a]
  <2> HIDE DEF F
  <2>1. b < n /\ n < e /\ b \in B /\ n \in B /\ e \in B
    BY <1>2, <1>3
  <2>2. Grown(m, Grow(m, b, e - n), F, r, b, n, e)
    BY <1>1, <2>1, GrowStep
  <2> QED
    BY <1>3, <2>2 DEF Grown
<1>5. Roomy(F)
  BY <1>1, RoomyBlocks
<1>6. n # ListHead
  BY <1>2 DEF ListHead
<1> HIDE DEF F, m1, mR, m2
<1>7. /\ OnlyLinks(m1, mR, F) /\ OnlyLinks(m1, mR, F \ {n}) /\ Linked(mR, F \ {n}, r2)
  BY <1>1, <1>4, <1>5, <1>6, RemoveLinks DEF mR
<1>8. \A a \in Addresses : (\A x \in Ring(F \ {n}) : a # x + PREV /\ a # x + NEXT) => mR[a] = m1[a]
  BY <1>7 DEF OnlyLinks
<1>9. n \in Addresses /\ e - 4 \in Addresses /\ b \in Addresses /\ mR \in [Addresses -> Nat]
  <2>1. FooterOf(m, n) = e - 4 /\ FooterOf(m, n) \in Addresses
    BY <1>1, Geometry DEF e
  <2> QED
    BY <1>1, <1>7, <2>1, Geometry DEF OnlyLinks
<1>a. mR[n] = m[n] /\ mR[b] = m1[b]
  <2>1. \A x \in Ring(F \ {n}) : n # x + PREV /\ n # x + NEXT
    <3>1. n <= n /\ n < Following(m, n) /\ n \in B \ {top} /\ F \ {n} \subseteq B \ {top}
      BY <1>1, <1>2 DEF e
    <3> QED
      BY <1>1, <1>9, <3>1, NotLink
  <2>2. \A x \in Ring(F \ {n}) : b # x + PREV /\ b # x + NEXT
    <3>1. b <= b /\ b < Following(m, b) /\ b \in B \ {top} /\ F \ {n} \subseteq B \ {top}
      BY <1>1, <1>2
    <3> QED
      BY <1>1, <1>9, <3>1, NotLink
  <2>3. m1[n] = m[n]
    BY <1>2, <1>4, <1>9
  <2> QED
    BY <1>8, <1>9, <2>1, <2>2, <2>3
<1>b. /\ m2 \in [Addresses -> Nat] /\ m2[e - 4] = 0
      /\ \A a \in Addresses \ {n, n + 4, n + 8, e - 4} : m2[a] = mR[a]
  BY <1>1, <1>9, <1>a, ClearStep DEF m2, e
<1>c. /\ \A a \in Outside(b, e) \cup {b + 4, b + 8} : m2[a] = mR[a]
      /\ m2[b] = m[b] + (e - n)
  <2>1. ASSUME NEW a \in Outside(b, e) \cup {b + 4, b + 8}
        PROVE  a \in Addresses \ {n, n + 4, n + 8, e - 4}
    <3>1. b + 4 \in Addresses /\ b + 8 \in Addresses
      BY <1>1, Geometry
    <3>2. a \in Addresses /\ a \in Nat /\ (a < b \/ e <= a \/ a = b + 4 \/ a = b + 8)
      BY <3>1, AddressIs DEF Outside
    <3> QED
      BY <1>2, <3>2
  <2>2. b \in Addresses \ {n, n + 4, n + 8, e - 4}
    BY <1>2, <1>9
  <2> QED
    BY <1>4, <1>a, <1>b, <2>1, <2>2
<1>d. /\ \A c : c \in B2 <=> c \in B /\ (c <= b \/ e <= c)
  <2>1. \A c \in B : c # n => c <= b \/ e <= c
    <3>1. \A c \in B : c \in Nat /\ (b < c => n <= c) /\ (n < c => e <= c)
      BY <1>1, Geometry DEF e
    <3> QED
      BY <1>2, <3>1
  <2>2. ~(n <= b) /\ ~(e <= n)
    BY <1>2
  <2> QED
    BY <2>1, <2>2
<1> HIDE DEF B2, r2
<1>e. /\ Shape(m2, top, B2) /\ Linked(m2, F \ {n}, r2)
      /\ FreeIn(m2, top, B2) = FreeIn(m, top, B) \cap B2
      /\ UsedIn(m2, top, B2) = UsedIn(m, top, B) \cap B2
      /\ \A X : (\A x \in X : x \in (B \ {top}) \ F /\ (x < b \/ e <= x)) => Kept(m, m2, X)
  <2>1. F \ {n} \subseteq F /\ \A x \in F \ {n} : x <= b \/ e <= x
    BY <1>1, <1>d DEF B2
  <2>2. m2[b] = m[b] + (e - Following(m, b)) /\ m2[e - 4] \in {0, e - b}
    BY <1>b, <1>c
  <2>3. \A a \in Outside(b, e) : m1[a] = m[a]
    BY <1>4
  <2>4. \A a \in Outside(b, e) \cup {b + 4, b + 8} : m2[a] = mR[a]
    BY <1>c
  <2>5. Merged(m, m2, top, B, B2, F, F \ {n}, r2, b, e)
    <3>1. MergeData(m, top, B, b, e, m1, mR, F, F \ {n}, r2, m2, B2)
      BY <1>1, <1>2, <1>3, <1>7, <1>b, <1>d, <2>1, <2>2, <2>3, <2>4 DEF MergeData
    <3> QED
      BY <3>1, MergeFrom
  <2> QED
    BY <2>5 DEF Merged
<1>f. /\ FreeIn(m2, top, B2) = FreeIn(m, top, B) \ {n} /\ UsedIn(m2, top, B2) = UsedIn(m, top, B)
      /\ F \ {n} = FreeIn(m2, top, B2) \ out
  BY <1>1, <1>e DEF FreeIn, UsedIn, B2, F
<1>g. Kept(m, m2, UsedIn(m, top, B) \ {b})
  <2>1. \A x \in UsedIn(m, top, B) \ {b} : x \in (B \ {top}) \ F /\ (x < b \/ e <= x)
    <3>1. \A x \in UsedIn(m, top, B) \ {b} : x \in B /\ x # n /\ x # top /\ x \notin F /\ x \in Nat
      BY <1>1, Geometry DEF UsedIn, FreeIn, F
    <3> QED
      BY <1>2, <1>d, <3>1 DEF B2
  <2> QED
    BY <1>e, <2>1
<1>h. ASSUME NEW a \in Addresses, b + 12 <= a, a < n - 4 PROVE m2[a] = m[a]
  <2>1. \A x \in Ring(F \ {n}) : a # x + PREV /\ a # x + NEXT
    <3>1. b <= a /\ a < Following(m, b) /\ b \in B \ {top} /\ F \ {n} \subseteq B \ {top}
      BY <1>1, <1>2, <1>h, AddressIs
    <3> QED
      BY <1>1, <1>h, <3>1, NotLink
  <2>2. a \notin {b, n - 4, n, n + 4, n + 8, e - 4}
    BY <1>2, <1>h, AddressIs
  <2> QED
    BY <1>4, <1>8, <1>b, <2>1, <2>2
<1>i. Engulfed(m, m2, top, B, b, n, out)
  BY <1>3, <1>c, <1>e, <1>f, <1>g, <1>h DEF Pool, B2, Engulfed
<1> QED
  BY <1>i DEF m2, mR, m1

\* Two changes of links are a change of links.
LEMMA OnlyLinksTrans ==
  ASSUME NEW m, NEW m2, NEW m3, NEW F, NEW G, NEW H, G \subseteq F, H \subseteq F,
         OnlyLinks(m, m2, G), OnlyLinks(m2, m3, H)
  PROVE  OnlyLinks(m, m3, F)
BY DEF OnlyLinks, Ring

\* A block leaves the list, or was not in it because it has just been freed.
LEMMA UnlistLinks ==
  ASSUME NEW m \in [Addresses -> Nat], NEW F, NEW r, Linked(m, F, r), Roomy(F),
         NEW b, b # ListHead, NEW from \in BOOLEAN, b \in F <=> ~from
  PROVE  /\ OnlyLinks(m, Unlist(m, b, from), F)
         /\ \E r2 : Linked(Unlist(m, b, from), F \ {b}, r2)
<1>1. CASE from
  <2>1. Unlist(m, b, from) = m
    BY <1>1 DEF Unlist
  <2>2. b \notin F
    BY <1>1
  <2>3. F \ {b} = F
    BY <2>2
  <2> QED
    BY <2>1, <2>3 DEF OnlyLinks
<1>2. CASE ~from
  <2>1. Unlist(m, b, from) = RemoveFromList(m, b) /\ b \in F
    BY <1>2 DEF Unlist
  <2>2. /\ OnlyLinks(m, RemoveFromList(m, b), F)
        /\ Linked(RemoveFromList(m, b), F \ {b}, [x \in Ring(F \ {b}) |-> r[x]])
    BY <2>1, RemoveLinks
  <2> QED
    BY <2>1, <2>2
<1> QED
  BY <1>1, <1>2

\* A change of links leaves the size word of a block.
LEMMA SizeWordKept ==
  ASSUME NEW m, NEW top, NEW B, Shape(m, top, B), NEW F, F \subseteq B \ {top},
         NEW m1, NEW m2, OnlyLinks(m1, m2, F), NEW y \in B \ {top}
  PROVE  m2[y] = m1[y]
<1>1. y <= y /\ y < Following(m, y) /\ y \in Addresses
  BY Geometry
<1>2. \A x \in Ring(F) : y # x + PREV /\ y # x + NEXT
  BY <1>1, NotLink
<1> QED
  BY <1>1, <1>2 DEF OnlyLinks

\* What coalesce() promises: the same blocks are in use, and what it returns is a free block, in
\* the list unless it is the one given, from_allocated.
Coalesced(m, top, B, out, b, c) ==
  \E B2, r2 : /\ Pool(c.mem, top, B2, r2, IF c.block = b THEN out ELSE {})
              /\ c.block \in FreeIn(c.mem, top, B2)
              /\ UsedIn(c.mem, top, B2) = UsedIn(m, top, B)
              /\ Kept(m, c.mem, UsedIn(m, top, B))

\* What the three cases that merge into the predecessor have in common.
LEMMA MergedIntoPrevious ==
  ASSUME NEW m, NEW top, NEW B, NEW r, NEW b \in FreeIn(m, top, B), NEW out \in {{}, {b}},
         Pool(m, top, B, r, out), NEW p \in FreeIn(m, top, B), p < b,
         NEW e \in B, b < e, \A c \in B : p < c /\ c < e => c \in FreeIn(m, top, B),
         NEW m3, NEW F2, NEW r2, NEW B2, \A c : c \in B2 <=> c \in B /\ (c <= p \/ e <= c),
         \A x : x \in F2 <=> x \in FreeIn(m, top, B) \ out /\ (x <= p \/ e <= x),
         Merged(m, m3, top, B, B2, FreeIn(m, top, B) \ out, F2, r2, p, e)
  PROVE  Coalesced(m, top, B, out, b, [mem |-> m3, block |-> p])
<1> DEFINE c == [mem |-> m3, block |-> p]
<1>1. /\ Shape(m3, top, B2) /\ Linked(m3, F2, r2)
      /\ FreeIn(m3, top, B2) = FreeIn(m, top, B) \cap B2
      /\ UsedIn(m3, top, B2) = UsedIn(m, top, B) \cap B2
      /\ \A X : (\A x \in X : x \in (B \ {top}) \ (FreeIn(m, top, B) \ out) /\ (x < p \/ e <= x))
           => Kept(m, m3, X)
  BY DEF Merged
<1>2. Shape(m, top, B) /\ p \in Nat /\ b \in Nat /\ e \in Nat /\ p \in B /\ b \in B
  BY Geometry DEF Pool, FreeIn
<1>3. FreeIn(m3, top, B2) = F2
  <2>1. \A x : x \in FreeIn(m, top, B) \cap B2 <=> x \in FreeIn(m, top, B) /\ (x <= p \/ e <= x)
    BY DEF FreeIn
  <2>2. ~(b <= p) /\ ~(e <= b)
    BY <1>2
  <2>3. \A x \in out : ~(x <= p) /\ ~(e <= x)
    BY <2>2
  <2>4. \A x : x \in FreeIn(m, top, B) \cap B2 <=> x \in F2
    BY <2>1, <2>3
  <2> QED
    BY <1>1, <2>4
<1>4. p \in F2
  <2>1. p <= p /\ p # b
    BY <1>2
  <2> QED
    BY <2>1
<1>5. \A x \in UsedIn(m, top, B) : x \in B /\ x \in B \ {top} /\ x \notin FreeIn(m, top, B) /\ (x < p \/ e <= x)
  <2>1. ASSUME NEW x \in UsedIn(m, top, B) PROVE x \in B /\ x \in B \ {top} /\ x \notin FreeIn(m, top, B) /\ x # p
    BY DEF UsedIn, FreeIn
  <2>2. ASSUME NEW x \in UsedIn(m, top, B) PROVE x < p \/ e <= x
    <3>1. x \in Nat
      BY <1>2, <2>1, Geometry
    <3> QED
      BY <1>2, <2>1, <3>1
  <2> QED
    BY <2>1, <2>2
<1>6. UsedIn(m3, top, B2) = UsedIn(m, top, B)
  <2>1. \A x \in UsedIn(m, top, B) : x \in B2
    <3>1. \A x \in B : x < p => x <= p
      BY <1>2, Geometry
    <3> QED
      BY <1>5, <3>1
  <2> QED
    BY <1>1, <2>1
<1>7. Kept(m, m3, UsedIn(m, top, B))
  BY <1>1, <1>5
<1>8. c.mem = m3 /\ c.block = p /\ p # b
  BY <1>2
<1>9. Pool(m3, top, B2, r2, {})
  BY <1>1, <1>3 DEF Pool
<1> HIDE DEF c
<1> QED
  BY <1>3, <1>4, <1>6, <1>7, <1>8, <1>9 DEF Coalesced, c
\* coalesce(): a free block takes in the free blocks next to it.
LEMMA CoalesceStep ==
  ASSUME NEW m, NEW top, NEW B, NEW r, NEW b \in FreeIn(m, top, B), NEW from \in BOOLEAN,
         Pool(m, top, B, r, IF from THEN {b} ELSE {})
  PROVE  Coalesced(m, top, B, IF from THEN {b} ELSE {}, b, Coalesce(m, b, from))
<1> DEFINE out == IF from THEN {b} ELSE {}
           F == FreeIn(m, top, B) \ out
           n == Following(m, b)
           p == Before(m, b)
           c == Coalesce(m, b, from)
<1>1. /\ Shape(m, top, B) /\ Linked(m, F, r) /\ F \subseteq B \ {top} /\ b \in B \ {top} /\ b \in B
      /\ out \in {{}, {b}} /\ (b \in F <=> ~from)
  BY DEF Pool, FreeIn
<1>2. m \in [Addresses -> Nat] /\ b \in Nat /\ n \in Nat /\ n \in B /\ b < n /\ b # ListHead /\ b \in Addresses
  <2>1. b \in Nat /\ n \in B /\ b + 16 <= n /\ 24 <= b
    BY <1>1, Geometry
  <2>2. n \in Nat
    BY <1>1, <2>1, Geometry
  <2> HIDE DEF n
  <2> QED
    BY <1>1, <2>1, <2>2, Geometry DEF Shape, ListHead
<1> HIDE DEF out, F, c
<1>3. CASE ~PrevFree(m, b) /\ ~NextFree(m, b)
  <2>1. c = [mem |-> m, block |-> b]
    BY <1>3 DEF c, Coalesce
  <2>2. Kept(m, m, UsedIn(m, top, B))
    BY DEF Kept
  <2>3. c.mem = m /\ c.block = b
    BY <2>1
  <2> QED
    BY <2>2, <2>3 DEF Coalesced, out, c
<1>4. CASE ~PrevFree(m, b) /\ NextFree(m, b)
  <2> DEFINE m2 == ClearBlock(RemoveFromList(Grow(m, b, Size(m, n)), n), n)
  <2>1. c = [mem |-> m2, block |-> b]
    BY <1>4 DEF c, Coalesce
  <2>2. n \in FreeIn(m, top, B) /\ n \notin out /\ n # top /\ out \subseteq {b}
    <3>1. n \in FreeIn(m, top, B)
      BY <1>1, <1>4, NextIsFree
    <3> QED
      BY <1>2, <3>1 DEF out, FreeIn
  <2>3. PICK r2 : /\ Pool(m2, top, B \ {n}, r2, out)
                  /\ FreeIn(m2, top, B \ {n}) = FreeIn(m, top, B) \ {n}
                  /\ UsedIn(m2, top, B \ {n}) = UsedIn(m, top, B)
                  /\ Kept(m, m2, UsedIn(m, top, B) \ {b})
    <3> HIDE DEF n
    <3>1. Following(m, b) = n
      BY DEF n
    <3>2. Pool(m, top, B, r, out)
      BY DEF out
    <3>3. Engulfed(m, m2, top, B, b, n, out)
      BY <1>1, <1>2, <2>2, <3>1, <3>2, MergeNext
    <3> HIDE DEF m2
    <3> QED
      BY <3>3 DEF Engulfed
  <2>4. UsedIn(m, top, B) \ {b} = UsedIn(m, top, B)
    BY DEF UsedIn, FreeIn
  <2>5. b # n
    BY <1>2
  <2>6. c.mem = m2 /\ c.block = b
    BY <2>1
  <2> HIDE DEF m2, n
  <2> QED
    BY <2>3, <2>4, <2>5, <2>6 DEF Coalesced, out, c
<1>5. ASSUME PrevFree(m, b)
      PROVE  /\ p \in FreeIn(m, top, B) /\ p < b /\ Following(m, p) = b
             /\ p \in B \ {top} /\ p \in Nat /\ p + 16 <= b
             /\ p \in Addresses /\ p \notin out
  <2>1. p \in FreeIn(m, top, B) /\ p < b /\ Following(m, p) = b
    BY <1>1, <1>5, PrevIsFree
  <2> HIDE DEF p
  <2>2. p \in B \ {top} /\ p \in Nat /\ p + 16 <= b /\ p \in Addresses
    BY <1>1, <2>1, Geometry DEF FreeIn
  <2> QED
    BY <1>2, <2>1, <2>2 DEF out
<1>6. Roomy(F)
  BY <1>1, RoomyBlocks
<1>7. CASE PrevFree(m, b) /\ ~NextFree(m, b)
  <2> DEFINE m1 == Grow(m, p, Size(m, b))
             mU == Unlist(m1, b, from)
             m3 == ClearBlock(mU, b)
             B2 == B \ {b}
             F2 == F \ {b}
  <2>1. c = [mem |-> m3, block |-> p]
    BY <1>7 DEF c, Coalesce
  <2>2. /\ p \in FreeIn(m, top, B) /\ p < b /\ Following(m, p) = b
        /\ p \in B \ {top} /\ p \in Nat /\ p + 16 <= b /\ p \in Addresses /\ p \in B
    BY <1>5, <1>7
  <2>3. Size(m, b) = n - b
    <3>1. Following(m, b) = b + Size(m, b) /\ Size(m, b) \in Nat
      BY <1>1, Geometry
    <3> QED
      BY <1>2, <3>1
  <2> HIDE DEF n, p
  <2>4. /\ m1 \in [Addresses -> Nat] /\ Linked(m1, F, r)
        /\ m1[p] = m[p] + (n - b) /\ m1[n - 4] = n - p
        /\ \A a \in Addresses \ {p, b - 4, n - 4} : m1[a] = m[a]
        /\ \A a \in Outside(p, n) : m1[a] = m[a]
    <3>1. Grown(m, Grow(m, p, n - b), F, r, p, b, n)
      BY <1>1, <1>2, <2>2, GrowStep
    <3> QED
      BY <2>3, <3>1 DEF Grown
  <2> HIDE DEF m1
  <2>5. OnlyLinks(m1, mU, F) /\ \E r2 : Linked(mU, F2, r2)
    BY <1>1, <1>2, <1>6, <2>4, UnlistLinks
  <2>6. PICK r2 : Linked(mU, F2, r2)
    BY <2>5
  <2> HIDE DEF mU
  <2>7. mU[b] = m[b] /\ mU[p] = m1[p] /\ mU \in [Addresses -> Nat]
    <3>a. OnlyLinks(m1, mU, F)
      BY <2>5
    <3>b. \A y \in B \ {top} : mU[y] = m1[y]
      BY <1>1, <3>a, SizeWordKept
    <3>1. mU[b] = m1[b] /\ mU[p] = m1[p]
      BY <1>1, <2>2, <3>b
    <3>2. b # p /\ b # b - 4 /\ b # n - 4
      <4>1. b + 16 <= n
        BY <1>1, Geometry DEF n
      <4> QED
        BY <1>2, <2>2, <4>1
    <3> QED
      BY <1>2, <2>4, <2>5, <3>1, <3>2 DEF OnlyLinks
  <2>8. /\ m3 \in [Addresses -> Nat] /\ m3[n - 4] = 0
        /\ \A a \in Addresses \ {b, b + 4, b + 8, n - 4} : m3[a] = mU[a]
    BY <1>1, <2>7, ClearStep DEF n
  <2> HIDE DEF m3
  <2>9. \A a \in Outside(p, n) \cup {p, p + 4, p + 8} : m3[a] = mU[a]
    <3>1. ASSUME NEW a \in Outside(p, n) \cup {p, p + 4, p + 8}
          PROVE  a \in Addresses \ {b, b + 4, b + 8, n - 4}
      <4>1. p + 4 \in Addresses /\ p + 8 \in Addresses /\ b + 16 <= n
        BY <1>1, <2>2, Geometry DEF n
      <4>2. a \in Addresses /\ a \in Nat /\ (a < p \/ n <= a \/ a = p \/ a = p + 4 \/ a = p + 8)
        BY <2>2, <4>1, AddressIs DEF Outside
      <4> QED
        BY <1>2, <2>2, <4>1, <4>2
    <3> QED
      BY <2>8, <3>1
  <2>a. \A x : x \in B2 <=> x \in B /\ (x <= p \/ n <= x)
    <3>1. ASSUME NEW x \in B, x # b PROVE x <= p \/ n <= x
      <4>1. x \in Nat /\ (p < x => b <= x) /\ (b < x => n <= x)
        BY <1>1, <2>2, Geometry DEF n
      <4> QED
        BY <1>2, <2>2, <3>1, <4>1
    <3>2. ~(b <= p) /\ ~(n <= b)
      BY <1>2, <2>2
    <3> QED
      BY <3>1, <3>2
  <2>b. \A x : x \in F2 <=> x \in FreeIn(m, top, B) \ out /\ (x <= p \/ n <= x)
    <3>1. \A x : x \in F2 <=> x \in F /\ x \in B2
      BY <1>1
    <3> HIDE DEF F2, B2
    <3> QED
      BY <1>1, <2>a, <3>1 DEF F
  <2> HIDE DEF F2, B2
  <2>c. Merged(m, m3, top, B, B2, F, F2, r2, p, n)
    <3>1. m3[p] = m[p] + (n - Following(m, p)) /\ m3[n - 4] \in {0, n - p}
      <4>1. m3[p] = mU[p] /\ mU[p] = m1[p]
        BY <2>7, <2>9
      <4> QED
        BY <2>2, <2>4, <2>8, <4>1
    <3>2. /\ \A a \in Outside(p, n) : m1[a] = m[a]
          /\ \A a \in Outside(p, n) \cup {p + 4, p + 8} : m3[a] = mU[a]
      BY <2>4, <2>9
    <3>3. F2 \subseteq F /\ \A x \in F2 : x <= p \/ n <= x
      BY <2>b DEF F
    <3>4. p < n /\ p \in B /\ n \in B
      BY <1>2, <2>2
    <3>5. MergeData(m, top, B, p, n, m1, mU, F, F2, r2, m3, B2)
      BY <1>1, <2>5, <2>6, <2>8, <2>a, <3>1, <3>2, <3>3, <3>4 DEF MergeData
    <3> QED
      BY <3>5, MergeFrom
  <2>d. \A x \in B : p < x /\ x < n => x \in FreeIn(m, top, B)
    <3>1. \A x \in B : p < x /\ x < n => x = b
      <4>1. ASSUME NEW x \in B, p < x, x < n PROVE x = b
        <5>1. x \in Nat /\ (p < x => b <= x) /\ (b < x => n <= x)
          BY <1>1, <2>2, Geometry DEF n
        <5> QED
          BY <1>2, <4>1, <5>1
      <4> QED
        BY <4>1
    <3> QED
      BY <3>1
  <2>e. Coalesced(m, top, B, out, b, [mem |-> m3, block |-> p])
    BY <1>1, <1>2, <2>2, <2>a, <2>b, <2>c, <2>d, MergedIntoPrevious DEF F, out
  <2> QED
    BY <2>1, <2>e DEF out, c
<1>8. CASE PrevFree(m, b) /\ NextFree(m, b)
  <2> DEFINE e == Following(m, n)
             m1 == Grow(m, p, Size(m, b) + Size(m, n))
             mN == RemoveFromList(m1, n)
             mU == Unlist(mN, b, from)
             mC == ClearBlock(mU, n)
             m3 == ClearBlock(mC, b)
             B2 == {x \in B : x <= p \/ e <= x}
             F2 == (F \ {n}) \ {b}
  <2>1. c = [mem |-> m3, block |-> p]
    BY <1>8 DEF c, Coalesce
  <2>2. /\ p \in FreeIn(m, top, B) /\ p < b /\ Following(m, p) = b
        /\ p \in B \ {top} /\ p \in Nat /\ p + 16 <= b /\ p \in Addresses /\ p \in B
    BY <1>5, <1>8
  <2>3. /\ n \in FreeIn(m, top, B) /\ n \in B \ {top} /\ n \in F /\ n # b /\ n \in Addresses
        /\ n # ListHead
    <3>1. n \in FreeIn(m, top, B)
      BY <1>1, <1>8, NextIsFree
    <3>2. n \in B \ {top} /\ n # b /\ b \in Nat /\ n \in Nat /\ n > 4
      <4>1. b + 16 <= n
        BY <1>1, Geometry
      <4> QED
        BY <1>2, <3>1, <4>1 DEF FreeIn
    <3> QED
      BY <1>1, <3>1, <3>2, Geometry DEF F, out, ListHead
  <2>4. e \in B /\ e \in Nat /\ n + 16 <= e /\ b + 16 <= n /\ Size(m, b) + Size(m, n) = e - b
    <3> HIDE DEF n
    <3>1. Following(m, n) = n + Size(m, n) /\ Size(m, n) \in Nat /\ n + 16 <= e /\ e \in B
      BY <1>1, <2>3, Geometry
    <3>2. b + Size(m, b) = n /\ Size(m, b) \in Nat /\ b + 16 <= n
      <4>1. Following(m, b) = b + Size(m, b) /\ Size(m, b) \in Nat /\ b + 16 <= Following(m, b)
        BY <1>1, Geometry
      <4> QED
        BY <4>1 DEF n
    <3> QED
      BY <1>2, <3>1, <3>2
  <2> HIDE DEF n, p
  <2>f. FooterOf(m, n) = e - 4 /\ Following(m, b) = n
    BY <1>1, <2>3, Geometry DEF n
  <2>5. /\ m1 \in [Addresses -> Nat] /\ Linked(m1, F, r)
        /\ m1[p] = m[p] + (e - b) /\ m1[e - 4] = e - p
        /\ \A a \in Addresses \ {p, b - 4, e - 4} : m1[a] = m[a]
        /\ \A a \in Outside(p, e) : m1[a] = m[a]
    <3> HIDE DEF e
    <3>1. b < e
      BY <1>2, <2>4
    <3>2. Grown(m, Grow(m, p, e - b), F, r, p, b, e)
      BY <1>1, <2>2, <2>4, <3>1, GrowStep
    <3> QED
      BY <2>4, <3>2 DEF Grown
  <2> HIDE DEF m1
  <2>6. /\ OnlyLinks(m1, mN, F) /\ \E r2 : Linked(mN, F \ {n}, r2)
    BY <1>1, <1>6, <2>3, <2>5, RemoveLinks
  <2>7. PICK rN : Linked(mN, F \ {n}, rN)
    BY <2>6
  <2> HIDE DEF mN
  <2>8. mN \in [Addresses -> Nat] /\ Roomy(F \ {n}) /\ (b \in F \ {n} <=> ~from)
    <3>1. F \ {n} \subseteq B \ {top}
      BY <1>1
    <3>2. Roomy(F \ {n})
      BY <1>1, <3>1, RoomyBlocks
    <3> QED
      BY <1>1, <2>3, <2>6, <3>2 DEF OnlyLinks
  <2>9. OnlyLinks(mN, mU, F \ {n}) /\ \E r2 : Linked(mU, F2, r2)
    BY <1>2, <2>7, <2>8, UnlistLinks
  <2>a. PICK r2 : Linked(mU, F2, r2)
    BY <2>9
  <2> HIDE DEF mU
  <2>b. OnlyLinks(m1, mU, F)
    <3>1. F \ {n} \subseteq F /\ F \subseteq F
      OBVIOUS
    <3> QED
      BY <2>6, <2>9, <3>1, OnlyLinksTrans
  <2>c. mU[b] = m[b] /\ mU[n] = m[n] /\ mU[p] = m1[p] /\ mU \in [Addresses -> Nat]
    <3>1. \A y \in B \ {top} : mU[y] = m1[y]
      BY <1>1, <2>b, SizeWordKept
    <3>2. b \in Addresses \ {p, b - 4, e - 4} /\ n \in Addresses \ {p, b - 4, e - 4}
      <4> HIDE DEF e
      <4> QED
        BY <1>2, <2>2, <2>3, <2>4
    <3> QED
      BY <1>1, <2>2, <2>3, <2>5, <2>b, <3>1, <3>2 DEF OnlyLinks
  <2>d. /\ mC \in [Addresses -> Nat] /\ mC[e - 4] = 0
        /\ \A a \in Addresses \ {n, n + 4, n + 8, e - 4} : mC[a] = mU[a]
    BY <1>1, <2>3, <2>c, ClearStep
  <2> HIDE DEF mC
  <2>g. mC[b] = m[b]
    <3>1. b \in Addresses \ {n, n + 4, n + 8, e - 4}
      <4> HIDE DEF e
      <4> QED
        BY <1>2, <2>2, <2>4
    <3> QED
      BY <2>c, <2>d, <3>1
  <2>h. /\ m3 \in [Addresses -> Nat]
        /\ \A a \in Addresses \ {b, b + 4, b + 8, n - 4} : m3[a] = mC[a]
    <3>1. /\ ClearBlock(mC, b) \in [Addresses -> Nat]
          /\ \A a \in Addresses \ {b, b + 4, b + 8, Following(m, b) - 4} : ClearBlock(mC, b)[a] = mC[a]
      BY <1>1, <2>d, <2>g, ClearStep
    <3> QED
      BY <2>f, <3>1
  <2> HIDE DEF m3
  <2>i. e - 4 \in Addresses
    BY <1>1, <2>3, <2>f, Geometry
  <2>j. e - 4 \notin {b, b + 4, b + 8, n - 4, n, n + 4, n + 8}
    <3> HIDE DEF e
    <3> QED
      BY <1>2, <2>4
  <2>k. m3[e - 4] = 0
    BY <2>d, <2>h, <2>i, <2>j
  <2> HIDE DEF e
  <2>l. \A a \in Outside(p, e) \cup {p, p + 4, p + 8} : m3[a] = mU[a]
    <3>1. ASSUME NEW a \in Outside(p, e) \cup {p, p + 4, p + 8}
          PROVE  a \in Addresses /\ a \notin {b, b + 4, b + 8, n - 4, n, n + 4, n + 8, e - 4}
      <4>1. p + 4 \in Addresses /\ p + 8 \in Addresses
        BY <1>1, <2>2, Geometry
      <4>2. a \in Addresses /\ a \in Nat /\ (a < p \/ e <= a \/ a = p \/ a = p + 4 \/ a = p + 8)
        BY <2>2, <4>1, AddressIs DEF Outside
      <4> QED
        BY <1>2, <2>2, <2>4, <4>2
    <3> QED
      BY <2>d, <2>h, <3>1
  <2>m. \A x \in B : p < x /\ x < e => x = b \/ x = n
    <3>1. ASSUME NEW x \in B, p < x, x < e PROVE x = b \/ x = n
      <4>1. x \in Nat
        BY <1>1, Geometry
      <4>2. p < x => b <= x
        BY <1>1, <2>2, Geometry
      <4>3. b < x => n <= x
        BY <1>1, <2>f, Geometry
      <4>4. n < x => e <= x
        BY <1>1, <2>3, Geometry DEF e
      <4> QED
        BY <1>2, <2>2, <2>4, <3>1, <4>1, <4>2, <4>3, <4>4
    <3> QED
      BY <3>1
  <2>n. \A x \in B : x <= p \/ e <= x <=> ~(p < x /\ x < e)
    <3>1. \A x \in B : x \in Nat
      BY <1>1, Geometry
    <3> QED
      BY <2>2, <2>4, <3>1
  <2>o. ~(b <= p) /\ ~(e <= b) /\ ~(n <= p) /\ ~(e <= n) /\ p < e /\ b < e
    BY <1>2, <2>2, <2>4
  <2>p. \A x : x \in F2 <=> x \in FreeIn(m, top, B) \ out /\ (x <= p \/ e <= x)
    <3>1. \A x \in F : x \in B
      BY <1>1
    <3>2. \A x : x \in F2 <=> x \in F /\ (x <= p \/ e <= x)
      BY <2>m, <2>n, <2>o, <3>1
    <3> QED
      BY <3>2 DEF F
  <2>q. \A x : x \in B2 <=> x \in B /\ (x <= p \/ e <= x)
    OBVIOUS
  <2> HIDE DEF F2, B2
  <2>r. Merged(m, m3, top, B, B2, F, F2, r2, p, e)
    <3>1. m3[p] = m[p] + (e - Following(m, p)) /\ m3[e - 4] \in {0, e - p}
      <4>1. m3[p] = mU[p] /\ mU[p] = m1[p]
        BY <2>c, <2>l
      <4> QED
        BY <2>2, <2>5, <2>k, <4>1
    <3>2. /\ \A a \in Outside(p, e) : m1[a] = m[a]
          /\ \A a \in Outside(p, e) \cup {p + 4, p + 8} : m3[a] = mU[a]
      BY <2>5, <2>l
    <3>3. F2 \subseteq F /\ \A x \in F2 : x <= p \/ e <= x
      BY <2>p DEF F
    <3>4. p < e /\ p \in B /\ e \in B
      BY <2>2, <2>4, <2>o
    <3>5. MergeData(m, top, B, p, e, m1, mU, F, F2, r2, m3, B2)
      BY <1>1, <2>a, <2>b, <2>h, <2>q, <3>1, <3>2, <3>3, <3>4 DEF MergeData
    <3> QED
      BY <3>5, MergeFrom
  <2>s. \A x \in B : p < x /\ x < e => x \in FreeIn(m, top, B)
    BY <2>3, <2>m
  <2>t. Coalesced(m, top, B, out, b, [mem |-> m3, block |-> p])
    BY <1>1, <2>2, <2>4, <2>o, <2>p, <2>q, <2>r, <2>s, MergedIntoPrevious DEF F, out
  <2> QED
    BY <2>1, <2>t DEF out, c
<1> QED
  BY <1>3, <1>4, <1>7, <1>8 DEF c, out

-----------------------------------------------------------------------------
(* Changes inside one block.                                                 *)

\* Nothing but the size word, the payload and the footer of block y differs.
Within(m, m2, y) ==
  /\ m2 \in [Addresses -> Nat]
  /\ \A a \in Addresses : m2[a] # m[a] => /\ y <= a /\ a < Following(m, y)
                                          /\ a = y \/ y + 12 <= a

\* What a change inside block y leaves alone: the list, the other blocks, the ends.
Framed(m, m2, top, B, y) ==
  /\ \A F, r : F \subseteq B \ {top} /\ Linked(m, F, r) => Linked(m2, F, r)
  /\ \A c \in B \ {y} : m2[c] = m[c]
  /\ \A c \in (B \ {top}) \ {y} : m2[FooterOf(m, c)] = m[FooterOf(m, c)]
  /\ m2[HeapLo] = 9 /\ m2[HeapLo + WORD] = 8 /\ m2[top] = 1
  /\ Kept(m, m2, (B \ {top}) \ {y})

\* A change inside one block leaves the rest of the heap alone.
LEMMA WithinFrame ==
  ASSUME NEW m, NEW top, NEW B, Shape(m, top, B), NEW y \in B \ {top},
         NEW m2, Within(m, m2, y)
  PROVE  Framed(m, m2, top, B, y)
<1>1. y \in B /\ y # top /\ y \in Nat /\ 24 <= y /\ Following(m, y) \in Nat /\ Following(m, y) <= top
      /\ top \in Nat /\ y + 16 <= Following(m, y)
  <2>1. Following(m, y) \in B
    BY Geometry
  <2> QED
    BY <2>1, Geometry
<1>2. ASSUME NEW a \in Addresses, a < y \/ Following(m, y) <= a PROVE m2[a] = m[a]
  <2>1. a \in Nat
    BY AddressIs
  <2> QED
    BY <1>1, <1>2, <2>1 DEF Within
<1>3. ASSUME NEW c \in B \ {y} PROVE c \in Nat /\ (c < y \/ Following(m, y) <= c)
  <2>1. c \in Nat
    BY Geometry
  <2>2. y < c => Following(m, y) <= c
    BY <1>1, Geometry
  <2> QED
    BY <1>1, <1>3, <2>1, <2>2
<1>4. ASSUME NEW c \in B \ {y} PROVE m2[c] = m[c]
  BY <1>2, <1>3, Geometry
<1>5. ASSUME NEW c \in (B \ {top}) \ {y}, NEW a \in Addresses, c <= a, a < Following(m, c)
      PROVE  m2[a] = m[a]
  <2>1. c \in Nat /\ Following(m, c) \in Nat /\ a \in Nat /\ (c < y => Following(m, c) <= y)
    BY <1>1, Geometry, AddressIs
  <2>2. c < y \/ Following(m, y) <= c
    BY <1>3
  <2>3. a < y \/ Following(m, y) <= a
    BY <1>1, <1>5, <2>1, <2>2
  <2> QED
    BY <1>2, <2>3
<1>6. ASSUME NEW c \in (B \ {top}) \ {y} PROVE m2[FooterOf(m, c)] = m[FooterOf(m, c)]
  <2>1. /\ FooterOf(m, c) \in Addresses /\ c \in Nat /\ Following(m, c) \in Nat
        /\ FooterOf(m, c) = Following(m, c) - 4 /\ c + 16 <= Following(m, c)
    BY Geometry
  <2>2. c <= FooterOf(m, c) /\ FooterOf(m, c) < Following(m, c)
    BY <2>1
  <2> QED
    BY <1>5, <2>1, <2>2
<1>7. m2[HeapLo] = 9 /\ m2[HeapLo + WORD] = 8 /\ m2[top] = 1
  <2>1. HeapLo \in Addresses /\ HeapLo + WORD \in Addresses /\ HeapLo < y /\ HeapLo + WORD < y
    BY <1>1, Ends
  <2>2. top \in B \ {y}
    BY <1>1 DEF Shape
  <2> QED
    BY <1>2, <1>4, <2>1, <2>2 DEF Shape
<1>8. ASSUME NEW F, NEW r, F \subseteq B \ {top}, Linked(m, F, r) PROVE Linked(m2, F, r)
  <2>1. ASSUME NEW x \in Ring(F), NEW a \in {x + PREV, x + NEXT} PROVE m2[a] = m[a]
    <3>1. a \in Addresses
      <4>1. Roomy(F)
        BY <1>8, RoomyBlocks
      <4> QED
        BY <4>1 DEF Roomy
    <3>2. ASSUME m2[a] # m[a] PROVE FALSE
      <4>1. y <= a /\ a < Following(m, y) /\ (a = y \/ y + 12 <= a)
        BY <3>1, <3>2 DEF Within
      <4>2. a # x + PREV /\ a # x + NEXT
        BY <1>8, <3>1, <4>1, NotLink
      <4> QED
        BY <4>2
    <3> QED
      BY <3>2
  <2> QED
    BY <1>8, <2>1, LinkedFrame
<1>9. Kept(m, m2, (B \ {top}) \ {y})
  <2>1. ASSUME NEW x \in (B \ {top}) \ {y}, NEW a \in Addresses, x + 12 <= a, a < FooterOf(m, x)
        PROVE  m2[a] = m[a]
    <3>1. /\ x \in Nat /\ a \in Nat
          /\ FooterOf(m, x) = Following(m, x) - 4 /\ Following(m, x) \in Nat
      BY Geometry, AddressIs
    <3>2. x <= a /\ a < Following(m, x)
      BY <2>1, <3>1
    <3> QED
      BY <1>5, <3>2
  <2> QED
    BY <1>4, <2>1 DEF Kept
<1> QED
  BY <1>4, <1>6, <1>7, <1>8, <1>9 DEF Framed

\* A block that keeps its size: its flag or its payload changes.
LEMMA WithinShape ==
  ASSUME NEW m, NEW top, NEW B, Shape(m, top, B), NEW y \in B \ {top},
         NEW m2, Within(m, m2, y), Size(m2, y) = Size(m, y),
         m2[FooterOf(m, y)] \in {0, Size(m, y)}
  PROVE  Shape(m2, top, B)
<1>1. /\ \A c \in B \ {y} : m2[c] = m[c]
      /\ \A c \in (B \ {top}) \ {y} : m2[FooterOf(m, c)] = m[FooterOf(m, c)]
      /\ m2[HeapLo] = 9 /\ m2[HeapLo + WORD] = 8 /\ m2[top] = 1
  <2>1. Framed(m, m2, top, B, y)
    BY WithinFrame
  <2> QED
    BY <2>1 DEF Framed
<1>2. ASSUME NEW c \in B \ {top}
      PROVE  /\ Size(m2, c) = Size(m, c) /\ FooterOf(m2, c) = FooterOf(m, c)
             /\ Following(m2, c) = Following(m, c) /\ m2[FooterOf(m, c)] \in {0, Size(m, c)}
  <2>1. CASE c = y
    BY <2>1 DEF FooterOf, Following
  <2>2. CASE c # y
    <3>1. m2[c] = m[c] /\ m2[FooterOf(m, c)] = m[FooterOf(m, c)]
      BY <1>1, <2>2
    <3> QED
      BY <3>1, SameSize DEF Shape
  <2> QED
    BY <2>1, <2>2
<1> QED
  BY <1>1, <1>2 DEF Shape, Within

\* set_allocated() changes which blocks are free, and no size.
LEMMA SetAllocatedShape ==
  ASSUME NEW m, NEW top, NEW B, Shape(m, top, B), NEW b \in B \ {top}
  PROVE  /\ Shape(SetAllocated(m, b), top, B) /\ Within(m, SetAllocated(m, b), b)
         /\ FreeIn(SetAllocated(m, b), top, B) = FreeIn(m, top, B) \ {b}
         /\ UsedIn(SetAllocated(m, b), top, B) = UsedIn(m, top, B) \cup {b}
         /\ Size(SetAllocated(m, b), b) = Size(m, b)
<1> DEFINE m2 == SetAllocated(m, b)
<1>1. /\ b \in Addresses /\ b \in Nat /\ Size(m, b) \in Nat /\ Size(m, b) % 4 = 0
      /\ Following(m, b) \in Nat /\ b + 16 <= Following(m, b) /\ FooterOf(m, b) = Following(m, b) - 4
      /\ FooterOf(m, b) \in Addresses /\ m \in [Addresses -> Nat] /\ b \in B
  <2>1. Following(m, b) \in B
    BY Geometry
  <2> QED
    BY <2>1, Geometry DEF Shape
<1>2. m2 = [m EXCEPT ![b] = Size(m, b) + 1]
  BY DEF SetAllocated
<1>3. m2 \in [Addresses -> Nat] /\ m2[b] = Size(m, b) + 1 /\ \A a \in Addresses : a # b => m2[a] = m[a]
  BY <1>1, <1>2
<1> HIDE DEF m2
<1>4. Within(m, m2, b)
  BY <1>1, <1>3 DEF Within
<1>5. Size(m2, b) = Size(m, b) /\ Allocated(m2, b)
  <2>1. \A v \in Nat : v % 4 = 0 => (v + 1) % 2 = 1 /\ (v + 1) - ((v + 1) % 2) = v
    BY SizeWords
  <2>2. (Size(m, b) + 1) % 2 = 1 /\ (Size(m, b) + 1) - ((Size(m, b) + 1) % 2) = Size(m, b)
    BY <1>1, <2>1
  <2>3. Size(m2, b) = (Size(m, b) + 1) - ((Size(m, b) + 1) % 2)
    BY <1>3 DEF Size
  <2>4. Allocated(m2, b) <=> (Size(m, b) + 1) % 2 = 1
    BY <1>3 DEF Allocated
  <2> QED
    BY <2>2, <2>3, <2>4
<1>6. m2[FooterOf(m, b)] \in {0, Size(m, b)}
  <2>1. FooterOf(m, b) # b
    BY <1>1
  <2>2. m[FooterOf(m, b)] \in {0, Size(m, b)}
    BY DEF Shape
  <2> QED
    BY <1>1, <1>3, <2>1, <2>2
<1>7. Shape(m2, top, B)
  BY <1>4, <1>5, <1>6, WithinShape
<1>8. \A c \in B \ {b} : m2[c] = m[c]
  BY <1>1, <1>3, Geometry
<1>9. \A c \in B \ {b} : Allocated(m2, c) <=> Allocated(m, c)
  BY <1>8 DEF Allocated
<1> QED
  BY <1>4, <1>5, <1>7, <1>9 DEF FreeIn, UsedIn, m2

\* set_free() changes which blocks are free, and no size.
LEMMA SetFreeShape ==
  ASSUME NEW m, NEW top, NEW B, Shape(m, top, B), NEW b \in B \ {top}
  PROVE  /\ Shape(SetFree(m, b), top, B) /\ Within(m, SetFree(m, b), b)
         /\ FreeIn(SetFree(m, b), top, B) = FreeIn(m, top, B) \cup {b}
         /\ UsedIn(SetFree(m, b), top, B) = UsedIn(m, top, B) \ {b}
<1> DEFINE m2 == SetFree(m, b)
<1>1. /\ b \in Addresses /\ b \in Nat /\ Size(m, b) \in Nat /\ Size(m, b) % 4 = 0
      /\ Following(m, b) \in Nat /\ b + 16 <= Following(m, b) /\ FooterOf(m, b) = Following(m, b) - 4
      /\ FooterOf(m, b) \in Addresses /\ m \in [Addresses -> Nat] /\ b \in B
  <2>1. Following(m, b) \in B
    BY Geometry
  <2> QED
    BY <2>1, Geometry DEF Shape
<1>2. m2 = [m EXCEPT ![b] = Size(m, b)]
  BY DEF SetFree
<1>3. m2 \in [Addresses -> Nat] /\ m2[b] = Size(m, b) /\ \A a \in Addresses : a # b => m2[a] = m[a]
  BY <1>1, <1>2
<1> HIDE DEF m2
<1>4. Within(m, m2, b)
  BY <1>1, <1>3 DEF Within
<1>5. Size(m2, b) = Size(m, b) /\ ~Allocated(m2, b)
  <2>1. \A v \in Nat : v % 4 = 0 => v % 2 = 0 /\ v - (v % 2) = v
    BY SizeWords
  <2>2. Size(m, b) % 2 = 0 /\ Size(m, b) - (Size(m, b) % 2) = Size(m, b)
    BY <1>1, <2>1
  <2>3. Size(m2, b) = Size(m, b) - (Size(m, b) % 2)
    BY <1>3 DEF Size
  <2>4. Allocated(m2, b) <=> Size(m, b) % 2 = 1
    BY <1>3 DEF Allocated
  <2> QED
    BY <2>2, <2>3, <2>4
<1>6. m2[FooterOf(m, b)] \in {0, Size(m, b)}
  <2>1. FooterOf(m, b) # b
    BY <1>1
  <2>2. m[FooterOf(m, b)] \in {0, Size(m, b)}
    BY DEF Shape
  <2> QED
    BY <1>1, <1>3, <2>1, <2>2
<1>7. Shape(m2, top, B)
  BY <1>4, <1>5, <1>6, WithinShape
<1>8. \A c \in B \ {b} : m2[c] = m[c]
  BY <1>1, <1>3, Geometry
<1>9. \A c \in B \ {b} : Allocated(m2, c) <=> Allocated(m, c)
  BY <1>8 DEF Allocated
<1> QED
  BY <1>4, <1>5, <1>7, <1>9 DEF FreeIn, UsedIn, m2

-----------------------------------------------------------------------------
(* Splitting a block.                                                        *)

Write4(m, a, b, c, d, v, w) == [m EXCEPT ![a] = v, ![b] = v, ![c] = w, ![d] = w]

\* The words that split_block() writes before it inserts the rest.
Cut(m, b, size) ==
  LET rest == Size(m, b) - size
  IN  [m EXCEPT ![b + size] = rest, ![b + Size(m, b) - WORD] = rest,
                ![b] = size, ![b + size - WORD] = size]

\* Block b has been cut at q: two free blocks stand where one was.
CutAt(m, mC, top, B, b, q) ==
  /\ Shape(mC, top, B \cup {q}) /\ q \notin B /\ b + 16 <= q /\ q + 16 < Following(m, b)
  /\ Within(m, mC, b) /\ Following(mC, b) = q
  /\ FreeIn(mC, top, B \cup {q}) = FreeIn(m, top, B) \cup {b, q}
  /\ UsedIn(mC, top, B \cup {q}) = UsedIn(m, top, B) \ {b}
  /\ \A a \in Addresses : b + 12 <= a /\ a < q - 4 => mC[a] = m[a]

\* The sizes and footers that split_block() writes make two blocks of one.
LEMMA CutShape ==
  ASSUME NEW m, NEW top, NEW B, Shape(m, top, B), NEW b \in B \ {top},
         NEW size \in Nat, size % 4 = 0, size >= 16, Size(m, b) > size + 16
  PROVE  CutAt(m, Cut(m, b, size), top, B, b, b + size)
<1> DEFINE q == b + size
           e == Following(m, b)
           mC == Cut(m, b, size)
           B2 == B \cup {q}
<1>1. /\ b \in Nat /\ b \in B /\ b % 4 = 0 /\ e \in Nat /\ e \in B /\ e % 4 = 0 /\ Size(m, b) \in Nat
      /\ b + Size(m, b) = e /\ Size(m, b) % 4 = 0 /\ b \in Addresses /\ 24 <= b /\ FooterOf(m, b) = e - 4
      /\ m \in [Addresses -> Nat] /\ e <= top /\ top \in Nat /\ e - 4 \in Addresses /\ top \in B
      /\ First \in B /\ B \subseteq Addresses
  <2>1. e \in B
    BY Geometry
  <2> QED
    BY <2>1, Geometry DEF Shape
<1>2. q \in Nat /\ q % 4 = 0 /\ b + 16 <= q /\ q + 16 < e /\ Size(m, b) - size = e - q
  <2> HIDE DEF e
  <2>1. q \in Nat /\ b + 16 <= q /\ q + 16 < e /\ Size(m, b) - size = e - q
    BY <1>1
  <2>2. q % 4 = 0
    BY <1>1, Sums
  <2> QED
    BY <2>1, <2>2
<1>3. q \in Addresses /\ q - 4 \in Addresses
  <2> HIDE DEF q, e
  <2>1. (q - 4) % 4 = 0 /\ q - 4 \in Nat
    BY <1>1, <1>2, Sums
  <2>2. top <= MaxAddr /\ MaxAddr \in Nat
    BY Geometry, AddressIs
  <2>3. 4 <= q /\ q <= MaxAddr /\ 4 <= q - 4 /\ q - 4 <= MaxAddr
    BY <1>1, <1>2, <2>2
  <2> QED
    BY <1>2, <2>1, <2>3, AddressIs
<1> HIDE DEF e
<1>4. mC = [m EXCEPT ![q] = e - q, ![e - 4] = e - q, ![b] = size, ![q - 4] = size]
  <2>1. b + Size(m, b) - 4 = e - 4 /\ Size(m, b) - size = e - q /\ b + size = q
    BY <1>1, <1>2
  <2>2. mC = Write4(m, b + size, b + Size(m, b) - 4, b, b + size - 4, Size(m, b) - size, size)
    BY DEF Cut, WORD, Write4
  <2> HIDE DEF mC, q
  <2>3. Write4(m, b + size, b + Size(m, b) - 4, b, b + size - 4, Size(m, b) - size, size)
        = Write4(m, q, e - 4, b, q - 4, e - q, size)
    BY <1>1, <1>2, <2>1
  <2> QED
    BY <2>2, <2>3 DEF Write4
<1>5. /\ mC \in [Addresses -> Nat] /\ mC[q] = e - q /\ mC[e - 4] = e - q /\ mC[b] = q - b
      /\ mC[q - 4] = q - b
      /\ \A a \in Addresses \ {q, e - 4, b, q - 4} : mC[a] = m[a]
  <2>1. e - q \in Nat /\ size = q - b
    BY <1>1, <1>2
  <2>2. q # e - 4 /\ q # b /\ q # q - 4 /\ e - 4 # b /\ e - 4 # q - 4 /\ b # q - 4
    BY <1>1, <1>2
  <2> HIDE DEF mC, q
  <2> QED
    BY <1>1, <1>3, <1>4, <2>1, <2>2
<1> HIDE DEF mC, q
<1>6. Within(m, mC, b)
  <2>1. ASSUME NEW a \in {q, e - 4, b, q - 4} PROVE b <= a /\ a < e /\ (a = b \/ b + 12 <= a)
    BY <1>1, <1>2
  <2> QED
    BY <1>5, <2>1 DEF Within, e
<1>7. Framed(m, mC, top, B, b)
  BY <1>6, WithinFrame
<1>8. /\ \A c \in B \ {b} : mC[c] = m[c]
      /\ \A c \in (B \ {top}) \ {b} : mC[FooterOf(m, c)] = m[FooterOf(m, c)]
      /\ mC[HeapLo] = 9 /\ mC[HeapLo + WORD] = 8 /\ mC[top] = 1
  BY <1>7 DEF Framed
<1>9. /\ Size(mC, b) = q - b /\ ~Allocated(mC, b) /\ Size(mC, q) = e - q /\ ~Allocated(mC, q)
  <2>1. \A v \in Nat : v % 4 = 0 => v % 2 = 0 /\ v - (v % 2) = v
    BY SizeWords
  <2>2. q - b \in Nat /\ (q - b) % 4 = 0 /\ e - q \in Nat /\ (e - q) % 4 = 0
    BY <1>1, <1>2, Sums
  <2>3. (q - b) % 2 = 0 /\ (q - b) - ((q - b) % 2) = q - b
    BY <2>1, <2>2
  <2>4. (e - q) % 2 = 0 /\ (e - q) - ((e - q) % 2) = e - q
    BY <2>1, <2>2
  <2> QED
    BY <1>5, <2>3, <2>4 DEF Size, Allocated
<1>a. \A c \in B : c \in Nat /\ (b < c => e <= c) /\ First <= c /\ c <= top /\ c \in Addresses
  BY <1>1, Geometry DEF e, Shape
<1>b. q \notin B /\ q # top /\ b # top
  BY <1>1, <1>2, <1>a
<1>c. First \in Nat /\ First <= q /\ q <= top
  BY <1>1, <1>2, <1>a DEF First, HeapLo
<1>d. ASSUME NEW c \in B2 \ {top}
      PROVE  /\ Size(mC, c) >= OVERHEAD /\ Following(mC, c) \in B2
             /\ mC[FooterOf(mC, c)] \in {0, Size(mC, c)}
             /\ \A d \in B2 : c < d => Following(mC, c) <= d
  <2>1. CASE c = b
    <3>1. Following(mC, b) = q /\ FooterOf(mC, b) = q - 4
      BY <1>1, <1>2, <1>9 DEF Following, FooterOf, WORD
    <3>2. \A d \in B2 : b < d => q <= d
      BY <1>1, <1>2, <1>a
    <3>3. q - b >= 16
      BY <1>1, <1>2
    <3> QED
      BY <1>5, <1>9, <2>1, <3>1, <3>2, <3>3 DEF OVERHEAD
  <2>2. CASE c = q
    <3>1. Following(mC, q) = e /\ FooterOf(mC, q) = e - 4
      BY <1>1, <1>2, <1>9 DEF Following, FooterOf, WORD
    <3>2. \A d \in B2 : q < d => e <= d
      BY <1>1, <1>2, <1>a
    <3>3. e - q >= 16
      BY <1>1, <1>2
    <3> QED
      BY <1>1, <1>5, <1>9, <2>2, <3>1, <3>2, <3>3 DEF OVERHEAD
  <2>3. CASE c # b /\ c # q
    <3>1. c \in B \ {top} /\ c \in (B \ {top}) \ {b} /\ c \in B \ {b}
      BY <2>3
    <3>2. mC[c] = m[c] /\ mC[FooterOf(m, c)] = m[FooterOf(m, c)]
      BY <1>8, <3>1
    <3>3. Size(mC, c) = Size(m, c) /\ FooterOf(mC, c) = FooterOf(m, c) /\ Following(mC, c) = Following(m, c)
      BY <3>2, SameSize
    <3>4. /\ Size(m, c) >= OVERHEAD /\ Following(m, c) \in B
          /\ m[FooterOf(m, c)] \in {0, Size(m, c)}
          /\ \A d \in B : c < d => Following(m, c) <= d
      BY <3>1 DEF Shape
    <3>5. c < q => Following(m, c) <= q
      <4>1. c \in Nat /\ Following(m, c) \in Nat
        BY <1>a, <3>1, <3>4
      <4>2. c < q => c < b
        BY <1>1, <1>2, <1>a, <2>3, <3>1
      <4>3. c < b => Following(m, c) <= b
        BY <1>1, <3>4
      <4> QED
        BY <1>1, <1>2, <4>1, <4>2, <4>3
    <3> QED
      BY <3>2, <3>3, <3>4, <3>5
  <2> QED
    BY <2>1, <2>2, <2>3
<1>e. Shape(mC, top, B2)
  <2>1. B2 \subseteq Addresses /\ First \in B2 /\ top \in B2
    BY <1>1, <1>3
  <2>2. \A c \in B2 : First <= c /\ c <= top
    BY <1>a, <1>c
  <2> QED
    BY <1>5, <1>8, <1>d, <2>1, <2>2 DEF Shape
<1>f. \A c \in B \ {b} : Allocated(mC, c) <=> Allocated(m, c)
  BY <1>8 DEF Allocated
<1>g. FreeIn(mC, top, B2) = FreeIn(m, top, B) \cup {b, q}
  BY <1>1, <1>9, <1>b, <1>f DEF FreeIn
<1>h. UsedIn(mC, top, B2) = UsedIn(m, top, B) \ {b}
  BY <1>1, <1>9, <1>b, <1>f DEF UsedIn
<1>i. ASSUME NEW a \in Addresses, b + 12 <= a, a < q - 4 PROVE mC[a] = m[a]
  <2>1. a \in Nat
    BY AddressIs
  <2> QED
    BY <1>1, <1>2, <1>5, <1>i, <2>1
<1>j. Following(mC, b) = q
  BY <1>1, <1>2, <1>9 DEF Following
<1> QED
  BY <1>2, <1>6, <1>b, <1>e, <1>g, <1>h, <1>i, <1>j DEF CutAt, mC, q, e

\* Block b has been split at q, and the rest of it is in the list.
SplitInto(m, m2, top, B, b, q, out) ==
  /\ \E r2 : Pool(m2, top, B \cup {q}, r2, out)
  /\ FreeIn(m2, top, B \cup {q}) = FreeIn(m, top, B) \cup {b, q}
  /\ UsedIn(m2, top, B \cup {q}) = UsedIn(m, top, B) \ {b}
  /\ Kept(m, m2, UsedIn(m, top, B) \ {b})
  /\ Following(m2, b) = q
  /\ b \in out => \A a \in Addresses : b + 12 <= a /\ a < q - 4 => m2[a] = m[a]

\* split_block(): the rest is inserted behind the block, or in front of the list if the block is
\* in use and so not listed.
LEMMA SplitStep ==
  ASSUME NEW m, NEW top, NEW B, NEW r, Pool(m, top, B, r, {}), NEW b \in B \ {top},
         NEW size \in Nat, size % 4 = 0, size >= 16, Size(m, b) > size + 16,
         NEW from \in BOOLEAN, b \in FreeIn(m, top, B) <=> ~from
  PROVE  SplitInto(m, SplitBlock(m, b, size, from), top, B, b, b + size, IF from THEN {b} ELSE {})
<1> DEFINE q == b + size
           F == FreeIn(m, top, B)
           mC == Cut(m, b, size)
           B2 == B \cup {q}
           at == IF from THEN ListHead ELSE b
           m2 == SplitBlock(m, b, size, from)
           F2 == F \cup {q}
<1>1. Shape(m, top, B) /\ Linked(m, F, r) /\ F \subseteq B \ {top} /\ b \in B /\ b \in Nat
  BY Geometry DEF Pool, FreeIn
<1>2. m2 = InsertToList(mC, q, at)
  BY DEF SplitBlock, Cut
<1>3. CutAt(m, mC, top, B, b, q)
  BY <1>1, CutShape
<1> HIDE DEF mC, q
<1>4. /\ Shape(mC, top, B2) /\ q \notin B /\ b + 16 <= q /\ q + 16 < Following(m, b)
      /\ Within(m, mC, b) /\ Following(mC, b) = q
      /\ FreeIn(mC, top, B2) = F \cup {b, q}
      /\ UsedIn(mC, top, B2) = UsedIn(m, top, B) \ {b}
      /\ \A a \in Addresses : b + 12 <= a /\ a < q - 4 => mC[a] = m[a]
  BY <1>3 DEF CutAt
<1>5. Linked(mC, F, r) /\ Kept(m, mC, UsedIn(m, top, B) \ {b})
  <2>1. Framed(m, mC, top, B, b)
    BY <1>1, <1>4, WithinFrame
  <2>2. Linked(mC, F, r) /\ Kept(m, mC, (B \ {top}) \ {b})
    BY <1>1, <2>1 DEF Framed
  <2>3. UsedIn(m, top, B) \ {b} \subseteq (B \ {top}) \ {b}
    BY DEF UsedIn
  <2> QED
    BY <2>2, <2>3 DEF Kept
<1>6. /\ F2 \subseteq B2 \ {top} /\ q # top /\ q \in B2 \ {top} /\ q \in Nat /\ 24 <= q /\ q # ListHead
  <2>1. q # top
    BY <1>1, <1>4 DEF Shape
  <2>2. q \in Nat /\ 24 <= q
    BY <1>4, Geometry
  <2> QED
    BY <1>1, <2>1, <2>2 DEF ListHead
<1>7. q \notin Ring(F) /\ Roomy(F2) /\ at \in Ring(F)
  <2>1. Roomy(F2)
    BY <1>4, <1>6, RoomyBlocks
  <2>2. q \notin Ring(F)
    BY <1>1, <1>4, <1>6 DEF Ring
  <2> QED
    BY <2>1, <2>2 DEF Ring
<1> HIDE DEF m2, at
<1>8. OnlyLinks(mC, m2, F2) /\ \E r2 : Linked(m2, F2, r2)
  <2>1. mC \in [Addresses -> Nat]
    BY <1>4 DEF Shape
  <2>2. Inserted(mC, InsertToList(mC, q, at), F \cup {q}, q, at)
    BY <1>5, <1>7, <2>1, InsertLinks
  <2>3. Inserted(mC, m2, F2, q, at)
    BY <1>2, <2>2
  <2> QED
    BY <2>3 DEF Inserted
<1>9. PICK r2 : Linked(m2, F2, r2)
  BY <1>8
<1> HIDE DEF F2, B2, F
<1>a. /\ Shape(m2, top, B2) /\ \A c \in B2 : m2[c] = mC[c]
      /\ FreeIn(m2, top, B2) = FreeIn(mC, top, B2) /\ UsedIn(m2, top, B2) = UsedIn(mC, top, B2)
      /\ \A X : X \subseteq (B2 \ {top}) \ F2 => Kept(mC, m2, X)
  BY <1>4, <1>6, <1>8, LinksFrame
<1>b. UsedIn(m, top, B) \ {b} \subseteq (B2 \ {top}) \ F2
  BY <1>4 DEF UsedIn, F2, F, FreeIn, B2
<1>c. Kept(m, m2, UsedIn(m, top, B) \ {b})
  BY <1>5, <1>a, <1>b, KeptTrans
<1>d. F2 = FreeIn(m2, top, B2) \ (IF from THEN {b} ELSE {})
  BY <1>1, <1>4, <1>6, <1>a DEF F2, F
<1>e. Following(m2, b) = q
  <2>1. m2[b] = mC[b]
    BY <1>1, <1>a DEF B2
  <2> QED
    BY <1>4, <2>1, SameSize
<1>f. ASSUME from, NEW a \in Addresses, b + 12 <= a, a < q - 4 PROVE m2[a] = m[a]
  <2>1. b \notin F2 /\ b \in B2 \ {top}
    BY <1>1, <1>4, <1>f DEF F2, F, B2
  <2>2. b <= a /\ a < Following(mC, b)
    BY <1>1, <1>4, <1>6, <1>f, AddressIs
  <2>3. \A x \in Ring(F2) : a # x + PREV /\ a # x + NEXT
    BY <1>4, <1>6, <2>1, <2>2, NotLink
  <2>4. m2[a] = mC[a]
    BY <1>8, <2>3 DEF OnlyLinks
  <2> QED
    BY <1>4, <1>f, <2>4
<1>g. Pool(m2, top, B2, r2, IF from THEN {b} ELSE {})
  BY <1>9, <1>a, <1>d DEF Pool
<1>h. FreeIn(m2, top, B2) = F \cup {b, q} /\ UsedIn(m2, top, B2) = UsedIn(m, top, B) \ {b}
  BY <1>4, <1>a
<1>i. SplitInto(m, m2, top, B, b, q, IF from THEN {b} ELSE {})
  BY <1>c, <1>e, <1>f, <1>g, <1>h DEF SplitInto, B2, F
<1> QED
  BY <1>i DEF m2, q

-----------------------------------------------------------------------------
(* Iteration.                                                                *)

\* What holds of 0, and of n + 1 if of n, holds up to a bound.
LEMMA UpTo ==
  ASSUME NEW K \in Nat, NEW S, 0 \in S, \A n \in 0 .. K : n \in S /\ n < K => n + 1 \in S
  PROVE  \A n \in 0 .. K : n \in S
<1> DEFINE T == {n \in 0 .. K : n \notin S}
<1>1. SUFFICES ASSUME T # {} PROVE FALSE
  OBVIOUS
<1>2. PICK n \in T : \A k \in T : n <= k
  <2>1. T \in SUBSET (0 .. K)
    OBVIOUS
  <2> HIDE DEF T
  <2> QED
    BY <1>1, <2>1, LeastBelow
<1>3. n \in Nat /\ n # 0 /\ n - 1 \in 0 .. K /\ n - 1 < K /\ ~(n <= n - 1) /\ (n - 1) + 1 = n
  BY <1>2
<1>4. n - 1 \in S
  BY <1>2, <1>3
<1>5. (n - 1) + 1 \in S
  BY <1>3, <1>4
<1> QED
  BY <1>2, <1>3, <1>5

\* f[n] is g applied n times to c.
Iterate(f, K, c, g) == f[0] = c /\ \A n \in 1 .. K : f[n] = g[f[n - 1]]

\* A function can be iterated K times: what the loops of the model are.
LEMMA IterateExists ==
  ASSUME NEW K \in Nat, NEW S, NEW c \in S, NEW g \in [S -> S]
  PROVE  \E f \in [0 .. K -> S] : Iterate(f, K, c, g)
<1> DEFINE T == {k \in 0 .. K : \E f \in [0 .. k -> S] : Iterate(f, k, c, g)}
<1>1. 0 \in T
  <2>1. [i \in 0 .. 0 |-> c] \in [0 .. 0 -> S] /\ Iterate([i \in 0 .. 0 |-> c], 0, c, g)
    BY DEF Iterate
  <2>2. 0 \in 0 .. K
    OBVIOUS
  <2> QED
    BY <2>1, <2>2
<1>2. ASSUME NEW k \in 0 .. K, k \in T, k < K PROVE k + 1 \in T
  <2>1. PICK f \in [0 .. k -> S] : f[0] = c /\ \A n \in 1 .. k : f[n] = g[f[n - 1]]
    BY <1>2 DEF Iterate
  <2> DEFINE h == [n \in 0 .. k + 1 |-> IF n = k + 1 THEN g[f[k]] ELSE f[n]]
  <2>2. h \in [0 .. k + 1 -> S]
    <3>1. f[k] \in S /\ g[f[k]] \in S
      OBVIOUS
    <3>2. \A n \in 0 .. k + 1 : n # k + 1 => n \in 0 .. k
      OBVIOUS
    <3> QED
      BY <3>1, <3>2
  <2>3. h[0] = c /\ h[k + 1] = g[f[k]] /\ \A n \in 0 .. k : h[n] = f[n]
    BY <2>1
  <2> HIDE DEF h
  <2>4. ASSUME NEW n \in 1 .. k + 1 PROVE h[n] = g[h[n - 1]]
    <3>1. CASE n = k + 1
      <4>1. n - 1 = k
        BY <3>1
      <4> QED
        BY <2>3, <3>1, <4>1
    <3>2. CASE n # k + 1
      <4>1. n \in 1 .. k /\ n \in 0 .. k /\ n - 1 \in 0 .. k
        BY <3>2
      <4> QED
        BY <2>1, <2>3, <4>1
    <3> QED
      BY <3>1, <3>2
  <2>5. Iterate(h, k + 1, c, g) /\ k + 1 \in 0 .. K
    BY <1>2, <2>3, <2>4 DEF Iterate
  <2> QED
    BY <2>2, <2>5
<1>3. K \in T
  <2> HIDE DEF T
  <2>1. \A n \in 0 .. K : n \in T
    BY <1>1, <1>2, UpTo
  <2> QED
    BY <2>1
<1> QED
  BY <1>3

-----------------------------------------------------------------------------
(* The walk over the list.                                                   *)

\* The bounds of the loops; the heap is too small for more than MaxBlocks blocks.
LEMMA Bounds == MaxHeap \in Nat /\ MaxBlocks \in Nat /\ MaxVisits \in Nat /\ MaxHeap < 16 * MaxBlocks
<1>1. MaxHeap \in Nat
  BY HeapAssumption DEF HeapAssumption
<1>2. MaxHeap \div 16 \in Nat /\ MaxHeap < 16 * (MaxHeap \div 16) + 16
  BY <1>1
<1>3. MaxBlocks \in Nat /\ MaxHeap < 16 * MaxBlocks
  BY <1>2 DEF MaxBlocks
<1>4. \A x \in Nat : x * x \in Nat
  OBVIOUS
<1> QED
  BY <1>1, <1>3, <1>4 DEF MaxVisits

\* The walk of the list follows its links and stays in it.
LEMMA WalkIs ==
  ASSUME NEW m, NEW F, NEW r, Linked(m, F, r)
  PROVE  /\ Walk(m)[0] = ListHead
         /\ \A n \in 1 .. MaxBlocks + 1 : Walk(m)[n] = m[Walk(m)[n - 1] + NEXT]
         /\ \A n \in 0 .. MaxBlocks + 1 : Walk(m)[n] \in Ring(F)
<1> DEFINE K == MaxBlocks + 1
           g == [x \in Ring(F) |-> m[x + NEXT]]
           rec(f) == [n \in 0 .. K |-> IF n = 0 THEN ListHead ELSE m[f[n - 1] + NEXT]]
<1>1. K \in Nat
  BY Bounds
<1> HIDE DEF K
<1>2. g \in [Ring(F) -> Ring(F)] /\ ListHead \in Ring(F)
  BY DEF Linked, Ring
<1>3. PICK f \in [0 .. K -> Ring(F)] : Iterate(f, K, ListHead, g)
  <2> HIDE DEF g
  <2> QED
    BY <1>1, <1>2, IterateExists
<1>4. f = rec(f)
  <2>1. ASSUME NEW n \in 0 .. K PROVE f[n] = IF n = 0 THEN ListHead ELSE m[f[n - 1] + NEXT]
    <3>1. CASE n = 0
      BY <1>3, <3>1 DEF Iterate
    <3>2. CASE n # 0
      <4>1. n \in 1 .. K /\ n - 1 \in 0 .. K
        BY <1>1, <3>2
      <4> QED
        BY <1>3, <3>2, <4>1 DEF Iterate
    <3> QED
      BY <3>1, <3>2
  <2> QED
    BY <2>1
<1> DEFINE w == CHOOSE at : at = rec(at)
<1>5. Walk(m) = w
  BY DEF Walk, K
<1>6. w = rec(w)
  BY <1>4
<1> HIDE DEF w
<1>7. w[0] = ListHead /\ \A n \in 1 .. K : w[n] = m[w[n - 1] + NEXT]
  <2>1. \A n \in 0 .. K : w[n] = IF n = 0 THEN ListHead ELSE m[w[n - 1] + NEXT]
    BY <1>6
  <2>2. 0 \in 0 .. K /\ \A n \in 1 .. K : n \in 0 .. K /\ n # 0
    BY <1>1
  <2> QED
    BY <2>1, <2>2
<1>8. \A n \in 0 .. K : w[n] \in Ring(F)
  <2> DEFINE S == {n \in 0 .. K : w[n] \in Ring(F)}
  <2>1. 0 \in S
    BY <1>1, <1>2, <1>7
  <2>2. \A n \in 0 .. K : n \in S /\ n < K => n + 1 \in S
    <3>1. ASSUME NEW n \in 0 .. K, n \in S, n < K PROVE n + 1 \in S
      <4>1. n + 1 \in 1 .. K /\ n + 1 \in 0 .. K /\ (n + 1) - 1 = n
        BY <1>1, <3>1
      <4>2. w[n + 1] = m[w[n] + NEXT]
        BY <1>7, <4>1
      <4> QED
        BY <3>1, <4>1, <4>2 DEF Linked
    <3> QED
      BY <3>1
  <2> HIDE DEF S
  <2>3. \A n \in 0 .. K : n \in S
    BY <1>1, <2>1, <2>2, UpTo
  <2> QED
    BY <2>3 DEF S
<1> QED
  BY <1>5, <1>7, <1>8 DEF K

\* Ranks grow along the walk until it is back at the head.
LEMMA WalkRises ==
  ASSUME NEW m, NEW F, NEW r, Linked(m, F, r), NEW len \in 0 .. MaxBlocks + 1,
         \A k \in 1 .. len : Walk(m)[k] # ListHead
  PROVE  \A j, k \in 1 .. len : j < k => r[Walk(m)[j]] < r[Walk(m)[k]]
<1> DEFINE w == Walk(m)
           S == {n \in 0 .. len : \A j, k \in 1 .. n : j < k => r[w[j]] < r[w[k]]}
<1>1. /\ MaxBlocks \in Nat /\ len \in Nat
      /\ \A n \in 1 .. MaxBlocks + 1 : w[n] = m[w[n - 1] + NEXT]
      /\ \A n \in 0 .. MaxBlocks + 1 : w[n] \in Ring(F) /\ r[w[n]] \in Nat
  BY Bounds, WalkIs DEF Linked
<1> HIDE DEF w
<1>2. 0 \in S
  BY <1>1
<1>3. ASSUME NEW n \in 0 .. len, n \in S, n < len PROVE n + 1 \in S
  <2>1. ASSUME NEW j \in 1 .. n + 1, NEW k \in 1 .. n + 1, j < k PROVE r[w[j]] < r[w[k]]
    <3>1. CASE k # n + 1
      <4>1. j \in 1 .. n /\ k \in 1 .. n
        BY <1>1, <2>1, <3>1
      <4> QED
        BY <1>3, <2>1, <4>1
    <3>2. CASE k = n + 1
      <4>1. n \in 1 .. MaxBlocks + 1 /\ n \in 1 .. n /\ j \in 1 .. n /\ n + 1 \in 1 .. len
            /\ n + 1 \in 1 .. MaxBlocks + 1 /\ (n + 1) - 1 = n
        BY <1>1, <1>3, <2>1, <3>2
      <4>2. w[n + 1] = m[w[n] + NEXT] /\ w[n] \in Ring(F)
        BY <1>1, <4>1
      <4>3. w[n + 1] # ListHead
        BY <4>1 DEF w
      <4>4. r[w[n]] < r[w[n + 1]]
        BY <4>2, <4>3 DEF Linked
      <4>5. j = n \/ r[w[j]] < r[w[n]]
        <5>1. j = n \/ j < n
          BY <1>1, <4>1
        <5> QED
          BY <1>3, <4>1, <5>1
      <4>6. r[w[j]] \in Nat /\ r[w[n]] \in Nat /\ r[w[n + 1]] \in Nat
        <5>1. j \in 0 .. MaxBlocks + 1 /\ n \in 0 .. MaxBlocks + 1 /\ n + 1 \in 0 .. MaxBlocks + 1
          BY <1>1, <4>1
        <5> QED
          BY <1>1, <5>1
      <4> QED
        BY <3>2, <4>4, <4>5, <4>6
    <3> QED
      BY <3>1, <3>2
  <2>2. n + 1 \in 0 .. len
    BY <1>1, <1>3
  <2> QED
    BY <2>1, <2>2
<1>4. len \in S
  <2> HIDE DEF S
  <2>1. \A n \in 0 .. len : n \in S
    BY <1>1, <1>2, <1>3, UpTo
  <2> QED
    BY <1>1, <2>1
<1> QED
  BY <1>4 DEF w

\* The walk is back at the head after as many steps as there can be blocks.
LEMMA WalkReturns ==
  ASSUME NEW m, NEW top, NEW B, NEW r, Pool(m, top, B, r, {})
  PROVE  \E n \in 0 .. MaxBlocks : /\ Walk(m)[n + 1] = ListHead
                                   /\ \A k \in 1 .. n : Walk(m)[k] # ListHead
<1> DEFINE w == Walk(m)
           F == FreeIn(m, top, B)
           T == {n \in 0 .. MaxBlocks : w[n + 1] = ListHead}
<1>1. Shape(m, top, B) /\ Linked(m, F, r) /\ F \subseteq B \ {top}
  BY DEF Pool, FreeIn
<1>2. /\ MaxBlocks \in Nat /\ MaxHeap \in Nat /\ MaxHeap < 16 * MaxBlocks
      /\ \A n \in 0 .. MaxBlocks + 1 : w[n] \in Ring(F)
  BY <1>1, Bounds, WalkIs
<1> HIDE DEF w
<1>3. T # {}
  <2>1. SUFFICES ASSUME T = {} PROVE FALSE
    OBVIOUS
  <2>2. ASSUME NEW k \in 1 .. MaxBlocks + 1 PROVE w[k] # ListHead /\ w[k] \in F
    <3>1. k - 1 \in 0 .. MaxBlocks /\ (k - 1) + 1 = k /\ k \in 0 .. MaxBlocks + 1
      BY <1>2
    <3>2. w[(k - 1) + 1] # ListHead
      BY <2>1, <3>1
    <3>3. w[k] # ListHead
      BY <3>1, <3>2
    <3> QED
      BY <1>2, <3>1, <3>3 DEF Ring
  <2> DEFINE P == 1 .. MaxBlocks + 1
             H == 0 .. MaxBlocks - 1
             f == [k \in P |-> (w[k] - 24) \div 16]
  <2>3. ASSUME NEW b \in F
        PROVE  /\ b - 24 \in Nat /\ (b - 24) \div 16 \in H
               /\ 16 * ((b - 24) \div 16) <= b - 24 /\ b - 24 < 16 * ((b - 24) \div 16) + 16
    <3>1. b \in Nat /\ 24 <= b /\ b + 16 <= Following(m, b) /\ Following(m, b) <= top /\ top <= MaxAddr
          /\ Following(m, b) \in Nat /\ top \in Nat /\ MaxAddr = 16 + MaxHeap
      <4>1. b \in B \ {top} /\ b \in B
        BY <1>1
      <4>2. Following(m, b) \in B
        BY <1>1, <4>1, Geometry
      <4> QED
        BY <1>1, <4>1, <4>2, Geometry DEF MaxAddr, HeapLo
    <3>2. b - 24 \in Nat /\ b - 24 < 16 * MaxBlocks
      BY <1>2, <3>1
    <3>3. \A x \in Nat : x \div 16 \in Nat /\ 16 * (x \div 16) <= x /\ x < 16 * (x \div 16) + 16
      OBVIOUS
    <3>4. (b - 24) \div 16 < MaxBlocks
      BY <1>2, <3>2, <3>3
    <3> QED
      BY <1>2, <3>2, <3>3, <3>4
  <2>4. f \in [P -> H]
    BY <2>2, <2>3
  <2>5. IsFiniteSet(P) /\ IsFiniteSet(H) /\ Cardinality(H) < Cardinality(P)
    <3>1. Cardinality(P) = MaxBlocks + 1 /\ Cardinality(H) <= MaxBlocks /\ IsFiniteSet(P) /\ IsFiniteSet(H)
      <4>1. IsFiniteSet(P) /\ Cardinality(P) = IF 1 > MaxBlocks + 1 THEN 0 ELSE (MaxBlocks + 1) - 1 + 1
        BY <1>2, FS_Interval
      <4>2. IsFiniteSet(H) /\ Cardinality(H) = IF 0 > MaxBlocks - 1 THEN 0 ELSE (MaxBlocks - 1) - 0 + 1
        BY <1>2, FS_Interval
      <4> HIDE DEF P, H
      <4> QED
        BY <1>2, <4>1, <4>2
    <3>2. Cardinality(H) \in Nat
      BY <3>1, FS_CardinalityType
    <3> HIDE DEF P, H
    <3> QED
      BY <1>2, <3>1, <3>2
  <2>6. PICK j \in P, k \in P : j # k /\ f[j] = f[k]
    <3> HIDE DEF P, H, f
    <3> QED
      BY <2>4, <2>5, FS_PigeonHole
  <2>7. w[j] \in F /\ w[k] \in F /\ (w[j] - 24) \div 16 = (w[k] - 24) \div 16
    BY <2>2, <2>6
  <2>8. \A b, c \in F : (b - 24) \div 16 = (c - 24) \div 16 => b = c
    <3>1. ASSUME NEW b \in F, NEW c \in F, (b - 24) \div 16 = (c - 24) \div 16, b < c PROVE FALSE
      <4>1. b + 16 <= c
        BY <1>1, <3>1, Geometry
      <4>2. b \in Nat /\ c \in Nat
        BY <1>1, Geometry
      <4>3. /\ (b - 24) \div 16 \in Nat
            /\ 16 * ((b - 24) \div 16) <= b - 24 /\ c - 24 < 16 * ((b - 24) \div 16) + 16
        <5>1. c - 24 < 16 * ((c - 24) \div 16) + 16
          BY <2>3
        <5> QED
          BY <2>3, <3>1, <5>1
      <4> QED
        BY <4>1, <4>2, <4>3
    <3>2. \A b \in F : b \in Nat
      BY <1>1, Geometry
    <3> HIDE DEF F
    <3>3. \A b, c \in F : b < c \/ c < b \/ b = c
      BY <3>2
    <3> QED
      BY <3>1, <3>3
  <2>9. w[j] = w[k]
    BY <2>7, <2>8
  <2>a. \A x, y \in 1 .. MaxBlocks + 1 : x < y => r[w[x]] < r[w[y]]
    <3>1. MaxBlocks + 1 \in 0 .. MaxBlocks + 1
      BY <1>2
    <3> HIDE DEF F
    <3> QED
      BY <1>1, <2>2, <3>1, WalkRises DEF w
  <2>b. j < k \/ k < j
    BY <1>2, <2>6
  <2>c. r[w[j]] \in Nat /\ r[w[k]] \in Nat
    BY <1>1, <2>7 DEF Linked, Ring
  <2> QED
    BY <2>6, <2>9, <2>a, <2>b, <2>c
<1>4. PICK n \in T : \A k \in T : n <= k
  <2>1. T \in SUBSET (0 .. MaxBlocks)
    OBVIOUS
  <2> HIDE DEF T
  <2> QED
    BY <1>2, <1>3, <2>1, LeastBelow
<1>5. ASSUME NEW k \in 1 .. n, w[k] = ListHead PROVE FALSE
  <2>1. k - 1 \in 0 .. MaxBlocks /\ (k - 1) + 1 = k /\ ~(n <= k - 1)
    BY <1>2, <1>4
  <2>2. w[(k - 1) + 1] = ListHead
    BY <1>5, <2>1
  <2>3. k - 1 \in T
    BY <2>1, <2>2
  <2> QED
    BY <1>4, <2>1, <2>3
<1> QED
  BY <1>4, <1>5 DEF w

\* The list of the free blocks: each once, and the back links mirror it.
IsListOf(m, F, list) ==
  /\ list \in Seq(F)
  /\ \A x \in F : \E k \in 1 .. Len(list) : list[k] = x
  /\ \A j, k \in 1 .. Len(list) : list[j] = list[k] => j = k
  /\ \A k \in 1 .. Len(list) : m[list[k] + PREV] = IF k = 1 THEN ListHead ELSE list[k - 1]

\* The walk from the head finds each free block once and comes back to the head.
LEMMA FreeListIs ==
  ASSUME NEW m, NEW top, NEW B, NEW r, Pool(m, top, B, r, {})
  PROVE  IsListOf(m, FreeIn(m, top, B), FreeList(m))
<1> DEFINE w == Walk(m)
           F == FreeIn(m, top, B)
           len == CHOOSE n \in 0 .. MaxBlocks : /\ w[n + 1] = ListHead
                                                /\ \A k \in 1 .. n : w[k] # ListHead
           list == [k \in 1 .. len |-> w[k]]
<1>1. Shape(m, top, B) /\ Linked(m, F, r) /\ F \subseteq B \ {top}
  BY DEF Pool, FreeIn
<1>2. FreeList(m) = list
  BY DEF FreeList
<1>3. /\ MaxBlocks \in Nat /\ w[0] = ListHead
      /\ \A n \in 1 .. MaxBlocks + 1 : w[n] = m[w[n - 1] + NEXT]
      /\ \A n \in 0 .. MaxBlocks + 1 : w[n] \in Ring(F)
  BY <1>1, Bounds, WalkIs
<1>4. len \in 0 .. MaxBlocks /\ w[len + 1] = ListHead /\ \A k \in 1 .. len : w[k] # ListHead
  BY WalkReturns
<1> HIDE DEF w, len, F
<1>5. len \in Nat /\ \A k \in 1 .. len : w[k] \in F /\ k \in 1 .. MaxBlocks + 1 /\ k \in 0 .. MaxBlocks + 1
  <2>1. \A k \in 1 .. len : k \in 1 .. MaxBlocks + 1 /\ k \in 0 .. MaxBlocks + 1
    BY <1>3, <1>4
  <2> QED
    BY <1>3, <1>4, <2>1 DEF Ring
<1>6. list \in Seq(F) /\ Len(list) = len /\ \A k \in 1 .. len : list[k] = w[k]
  <2>1. list \in [1 .. len -> F]
    BY <1>5
  <2> HIDE DEF list
  <2>2. list \in Seq(F) /\ Len(list) = len
    BY <1>5, <2>1
  <2> QED
    BY <2>2 DEF list
<1> HIDE DEF list
<1>7. \A j, k \in 1 .. len : j < k => r[w[j]] < r[w[k]]
  <2>1. len \in 0 .. MaxBlocks + 1
    BY <1>3, <1>4
  <2> QED
    BY <1>1, <1>4, <2>1, WalkRises DEF w
<1>8. \A x \in Ring(F) : r[x] \in Nat
  BY <1>1 DEF Linked
<1>9. ASSUME NEW j \in 1 .. len, NEW k \in 1 .. len, w[j] = w[k] PROVE j = k
  <2>1. r[w[j]] \in Nat
    BY <1>5, <1>8 DEF Ring
  <2>2. ~(j < k) /\ ~(k < j)
    BY <1>7, <1>9, <2>1
  <2> QED
    BY <1>5, <2>2
<1>a. ASSUME NEW k \in 1 .. len PROVE m[w[k] + PREV] = IF k = 1 THEN ListHead ELSE w[k - 1]
  <2>1. k \in 1 .. MaxBlocks + 1 /\ k - 1 \in 0 .. MaxBlocks + 1
    BY <1>3, <1>5
  <2>2. w[k] = m[w[k - 1] + NEXT] /\ w[k - 1] \in Ring(F)
    BY <1>3, <2>1
  <2>3. m[w[k] + PREV] = w[k - 1]
    BY <1>1, <2>2 DEF Linked
  <2>4. k = 1 => k - 1 = 0
    OBVIOUS
  <2> QED
    BY <1>3, <2>3, <2>4
<1>b. ASSUME NEW x \in F PROVE \E k \in 1 .. len : w[k] = x
  <2> DEFINE missed == {y \in F : \A k \in 1 .. len : w[k] # y}
             ranks == {r[y] : y \in missed}
  <2>1. SUFFICES ASSUME missed # {} PROVE FALSE
    BY <1>b
  <2>2. \A y \in missed : y \in F /\ y \in Ring(F) /\ r[y] \in Nat
    BY <1>8 DEF Ring
  <2>3. PICK y \in missed : \A z \in missed : r[y] <= r[z]
    <3>1. ranks \in SUBSET Nat /\ ranks # {}
      BY <2>1, <2>2
    <3>2. PICK t \in ranks : TRUE
      BY <3>1
    <3>3. PICK s \in ranks : \A u \in ranks : s <= u
      <4> HIDE DEF ranks
      <4> DEFINE low == {u \in ranks : u <= t}
      <4>1. low \in SUBSET (0 .. t) /\ t \in Nat /\ t \in low
        <5>1. \A u \in ranks : u \in Nat
          BY <3>1
        <5>2. t \in Nat
          BY <5>1, <3>2
        <5>3. \A u \in low : u \in 0 .. t
          BY <5>1, <5>2
        <5>4. t \in low
          BY <3>2, <5>2
        <5> QED
          BY <5>2, <5>3, <5>4
      <4>2. PICK s \in low : \A u \in low : s <= u
        <5> HIDE DEF low
        <5> QED
          BY <4>1, LeastBelow
      <4>3. \A u \in ranks : u \notin low => s <= u
        BY <3>1, <4>1, <4>2
      <4> QED
        BY <4>2, <4>3
    <3> QED
      BY <3>3
  <2> DEFINE p == m[y + PREV]
  <2>4. y \in F /\ y \in Ring(F) /\ p \in Ring(F) /\ m[p + NEXT] = y /\ y # ListHead
    <3>1. y \in F /\ y \in Ring(F)
      BY <2>2
    <3>2. y # ListHead
      <4>1. 24 <= y
        BY <1>1, <3>1, Geometry
      <4> QED
        BY <4>1 DEF ListHead
    <3> QED
      BY <1>1, <3>1, <3>2 DEF Linked
  <2> HIDE DEF p
  <2>5. r[p] < r[y] /\ r[p] \in Nat /\ r[y] \in Nat
    BY <1>1, <2>4 DEF Linked
  <2>6. CASE p = ListHead
    <3>1. 1 \in 1 .. MaxBlocks + 1 /\ 1 - 1 = 0
      BY <1>3
    <3>2. w[1] = y
      BY <1>3, <2>4, <2>6, <3>1
    <3>3. len # 0
      <4>1. len = 0 => len + 1 = 1
        OBVIOUS
      <4> QED
        BY <1>4, <2>4, <3>2, <4>1
    <3>4. 1 \in 1 .. len
      BY <1>5, <3>3
    <3> QED
      BY <3>2, <3>4
  <2>7. CASE p # ListHead
    <3>1. p \in F
      BY <2>4, <2>7 DEF Ring
    <3>2. p \notin missed
      BY <2>3, <2>5
    <3>3. PICK k \in 1 .. len : w[k] = p
      BY <3>1, <3>2
    <3>4. k + 1 \in 1 .. MaxBlocks + 1 /\ (k + 1) - 1 = k
      BY <1>3, <1>4
    <3>5. w[k + 1] = y
      BY <1>3, <2>4, <3>3, <3>4
    <3>6. k # len
      BY <1>4, <2>4, <3>5
    <3>7. k + 1 \in 1 .. len
      BY <1>5, <3>6
    <3> QED
      BY <3>5, <3>7
  <2> QED
    BY <2>6, <2>7
<1>c. \A k \in 1 .. len : m[list[k] + PREV] = IF k = 1 THEN ListHead ELSE list[k - 1]
  <2>1. \A k \in 1 .. len : k # 1 => k - 1 \in 1 .. len
    BY <1>5
  <2> QED
    BY <1>6, <1>a, <2>1
<1>d. \A j, k \in 1 .. len : list[j] = list[k] => j = k
  BY <1>6, <1>9
<1>e. \A x \in F : \E k \in 1 .. len : list[k] = x
  BY <1>6, <1>b
<1>f. IsListOf(m, F, list)
  BY <1>6, <1>c, <1>d, <1>e DEF IsListOf
<1> QED
  BY <1>2, <1>f DEF F

-----------------------------------------------------------------------------
(* A block leaves the list or enters it.                                     *)

\* The blocks are the same; only links have changed.
Relinked(m, m2, top, B) ==
  /\ Shape(m2, top, B)
  /\ FreeIn(m2, top, B) = FreeIn(m, top, B) /\ UsedIn(m2, top, B) = UsedIn(m, top, B)
  /\ Kept(m, m2, UsedIn(m, top, B))
  /\ \A c \in B : m2[c] = m[c]

\* A change of links of free blocks leaves the blocks as they are.
LEMMA LinksRelink ==
  ASSUME NEW m, NEW top, NEW B, Shape(m, top, B), NEW m2, NEW G, G \subseteq FreeIn(m, top, B),
         OnlyLinks(m, m2, G)
  PROVE  Relinked(m, m2, top, B)
<1>1. G \subseteq B \ {top} /\ UsedIn(m, top, B) \subseteq (B \ {top}) \ G
  BY DEF FreeIn, UsedIn
<1>2. /\ Shape(m2, top, B) /\ \A b \in B : m2[b] = m[b]
      /\ FreeIn(m2, top, B) = FreeIn(m, top, B) /\ UsedIn(m2, top, B) = UsedIn(m, top, B)
      /\ \A X : X \subseteq (B \ {top}) \ G => Kept(m, m2, X)
  BY <1>1, LinksFrame
<1> QED
  BY <1>1, <1>2 DEF Relinked

\* remove_from_list() of a free block.
LEMMA RemoveStep ==
  ASSUME NEW m, NEW top, NEW B, NEW r, Pool(m, top, B, r, {}), NEW b \in FreeIn(m, top, B)
  PROVE  /\ Relinked(m, RemoveFromList(m, b), top, B)
         /\ \E r2 : Pool(RemoveFromList(m, b), top, B, r2, {b})
<1> DEFINE F == FreeIn(m, top, B)
           m2 == RemoveFromList(m, b)
<1>1. /\ Shape(m, top, B) /\ Linked(m, F, r) /\ F \subseteq B \ {top} /\ m \in [Addresses -> Nat]
      /\ Roomy(F) /\ b \in F
  <2>1. Shape(m, top, B) /\ Linked(m, F, r) /\ F \subseteq B \ {top} /\ m \in [Addresses -> Nat]
    BY DEF Pool, Shape, FreeIn
  <2> QED
    BY <2>1, RoomyBlocks
<1>2. b # ListHead
  <2>1. 24 <= b
    BY <1>1, Geometry
  <2> QED
    BY <2>1 DEF ListHead
<1> HIDE DEF F, m2
<1>3. /\ OnlyLinks(m, m2, F)
      /\ Linked(m2, F \ {b}, [x \in Ring(F \ {b}) |-> r[x]])
  BY <1>1, <1>2, RemoveLinks DEF m2
<1>4. Relinked(m, m2, top, B)
  BY <1>1, <1>3, LinksRelink DEF F
<1>5. Pool(m2, top, B, [x \in Ring(F \ {b}) |-> r[x]], {b})
  BY <1>3, <1>4 DEF Pool, Relinked, F
<1> QED
  BY <1>4, <1>5 DEF m2

\* insert_to_list() of the one free block that was not listed, at the front.
LEMMA InsertStep ==
  ASSUME NEW m, NEW top, NEW B, NEW r, NEW b \in FreeIn(m, top, B), Pool(m, top, B, r, {b})
  PROVE  /\ Relinked(m, InsertToList(m, b, ListHead), top, B)
         /\ \E r2 : Pool(InsertToList(m, b, ListHead), top, B, r2, {})
         /\ InsertToList(m, b, ListHead)[ListHead + NEXT] = b
<1> DEFINE F == FreeIn(m, top, B)
           G == F \ {b}
           m2 == InsertToList(m, b, ListHead)
<1>1. /\ Shape(m, top, B) /\ Linked(m, G, r) /\ F \subseteq B \ {top} /\ m \in [Addresses -> Nat]
      /\ Roomy(F) /\ b \in F /\ G \cup {b} = F
  <2>1. Shape(m, top, B) /\ Linked(m, G, r) /\ F \subseteq B \ {top} /\ m \in [Addresses -> Nat]
    BY DEF Pool, Shape, FreeIn
  <2> QED
    BY <2>1, RoomyBlocks
<1>2. b # ListHead /\ b \notin Ring(G) /\ ListHead \in Ring(G)
  <2>1. 24 <= b
    BY <1>1, Geometry
  <2> QED
    BY <2>1 DEF ListHead, Ring
<1> HIDE DEF F, G, m2
<1>3. /\ OnlyLinks(m, m2, F) /\ \E r2 : Linked(m2, F, r2)
      /\ m2[ListHead + NEXT] = b
  <2>1. Inserted(m, InsertToList(m, b, ListHead), G \cup {b}, b, ListHead)
    <3>1. Roomy(G \cup {b})
      BY <1>1
    <3> QED
      BY <1>1, <1>2, <3>1, InsertLinks
  <2>2. Inserted(m, m2, F, b, ListHead)
    BY <1>1, <2>1 DEF m2
  <2> QED
    BY <2>2 DEF Inserted
<1>4. Relinked(m, m2, top, B)
  BY <1>1, <1>3, LinksRelink DEF F
<1>5. PICK r2 : Linked(m2, F, r2)
  BY <1>3
<1>6. Pool(m2, top, B, r2, {})
  <2>1. FreeIn(m2, top, B) \ {} = F
    BY <1>4 DEF Relinked, F
  <2> QED
    BY <1>4, <1>5, <2>1 DEF Pool, Relinked
<1> QED
  BY <1>3, <1>4, <1>6 DEF m2

-----------------------------------------------------------------------------
(* find_fit().                                                               *)

\* Block b is taken out of the list: it is free, large enough, and no longer listed.
Taken(m, top, B, m2, b, need) ==
  \E B2, r2 : /\ Pool(m2, top, B2, r2, {b}) /\ b \in FreeIn(m2, top, B2)
              /\ UsedIn(m2, top, B2) = UsedIn(m, top, B)
              /\ Kept(m, m2, UsedIn(m, top, B))
              /\ Size(m2, b) >= need

\* find_fit() on the block it has found, whether it splits it or not.
LEMMA TakeStep ==
  ASSUME NEW m, NEW top, NEW B, NEW r, Pool(m, top, B, r, {}), NEW b \in FreeIn(m, top, B),
         NEW need \in Nat, need % 4 = 0, need >= 16, Size(m, b) >= need
  PROVE  Taken(m, top, B, Take(m, b, need), b, need)
<1>1. Shape(m, top, B) /\ b \in B \ {top} /\ b \in B /\ b \in Nat
  BY Geometry DEF Pool, FreeIn
<1>2. CASE ~(Size(m, b) > need + OVERHEAD)
  <2>1. Take(m, b, need) = RemoveFromList(m, b)
    BY <1>2 DEF Take
  <2> DEFINE m2 == RemoveFromList(m, b)
  <2>2. Relinked(m, m2, top, B) /\ \E r2 : Pool(m2, top, B, r2, {b})
    BY RemoveStep
  <2>3. PICK r2 : Pool(m2, top, B, r2, {b})
    BY <2>2
  <2> HIDE DEF m2
  <2>4. m2[b] = m[b]
    BY <1>1, <2>2 DEF Relinked
  <2>5. Size(m2, b) >= need
    BY <2>4, SameSize
  <2> QED
    BY <2>1, <2>2, <2>3, <2>5 DEF Taken, Relinked, m2
<1>3. CASE Size(m, b) > need + OVERHEAD
  <2> DEFINE m1 == SplitBlock(m, b, need, FALSE)
             m2 == RemoveFromList(m1, b)
             B2 == B \cup {b + need}
  <2>1. Take(m, b, need) = m2
    BY <1>3 DEF Take
  <2>2. PICK r1 : /\ Pool(m1, top, B2, r1, {})
                  /\ FreeIn(m1, top, B2) = FreeIn(m, top, B) \cup {b, b + need}
                  /\ UsedIn(m1, top, B2) = UsedIn(m, top, B) \ {b}
                  /\ Kept(m, m1, UsedIn(m, top, B) \ {b})
                  /\ Following(m1, b) = b + need
    <3>1. Size(m, b) > need + 16
      BY <1>3 DEF OVERHEAD
    <3>2. FALSE \in BOOLEAN /\ (b \in FreeIn(m, top, B) <=> ~FALSE)
      OBVIOUS
    <3>3. SplitInto(m, m1, top, B, b, b + need, IF FALSE THEN {b} ELSE {})
      BY <1>1, <3>1, <3>2, SplitStep
    <3> QED
      BY <3>3 DEF SplitInto
  <2>3. UsedIn(m, top, B) \ {b} = UsedIn(m, top, B)
    BY DEF UsedIn, FreeIn
  <2> HIDE DEF m1, B2
  <2>4. b \in FreeIn(m1, top, B2)
    BY <2>2
  <2>5. Relinked(m1, m2, top, B2) /\ \E r2 : Pool(m2, top, B2, r2, {b})
    BY <2>2, <2>4, RemoveStep
  <2>6. PICK r2 : Pool(m2, top, B2, r2, {b})
    BY <2>5
  <2> HIDE DEF m2
  <2>7. UsedIn(m2, top, B2) = UsedIn(m, top, B) /\ b \in FreeIn(m2, top, B2)
    BY <2>2, <2>3, <2>4, <2>5 DEF Relinked
  <2>8. Kept(m, m2, UsedIn(m, top, B))
    BY <2>2, <2>3, <2>5, KeptTrans DEF Relinked
  <2>9. Size(m2, b) >= need
    <3>1. m2[b] = m1[b] /\ Shape(m1, top, B2) /\ b \in B2 \ {top}
      BY <2>2, <2>4, <2>5 DEF Relinked, Pool, FreeIn
    <3>2. Size(m2, b) = Size(m1, b) /\ Size(m1, b) \in Nat /\ b + Size(m1, b) = b + need
      BY <2>2, <3>1, SameSize, Geometry
    <3> QED
      BY <1>1, <3>2
  <2> QED
    BY <2>1, <2>6, <2>7, <2>8, <2>9 DEF Taken
<1> QED
  BY <1>2, <1>3

\* The search looks at all blocks of the list.
LEMMA FirstFitIs ==
  ASSUME NEW m, NEW list, Len(list) \in Nat, NEW size
  PROVE  LET k == FirstFit(m, list, size)
         IN  \/ k \in 1 .. Len(list) /\ Size(m, list[k]) >= size
             \/ k = 0 /\ \A j \in 1 .. Len(list) : ~(Size(m, list[j]) >= size)
<1> DEFINE I == {i \in 1 .. Len(list) : Size(m, list[i]) >= size}
           k == FirstFit(m, list, size)
<1>1. k = IF I # {} THEN Min(I) ELSE 0
  BY DEF FirstFit, SelectInSeq
<1>2. CASE I = {}
  BY <1>1, <1>2
<1>3. CASE I # {}
  <2>1. \E i \in I : \A j \in I : i <= j
    <3>1. I \in SUBSET (0 .. Len(list))
      OBVIOUS
    <3> HIDE DEF I
    <3> QED
      BY <1>3, <3>1, LeastBelow
  <2>2. Min(I) \in I
    <3> HIDE DEF I
    <3> QED
      BY <2>1 DEF Min
  <2>3. k = Min(I)
    BY <1>1, <1>3
  <2> QED
    BY <2>2, <2>3
<1> QED
  BY <1>2, <1>3

\* find_fit() takes a block that is large enough, or there is none.
LEMMA FindFitIs ==
  ASSUME NEW m, NEW top, NEW B, NEW r, Pool(m, top, B, r, {}),
         NEW need \in Nat, need % 4 = 0, need >= 16
  PROVE  LET f == FindFit(m, need)
         IN  \/ f.block \in Nat /\ f.block # NULL /\ Taken(m, top, B, f.mem, f.block, need)
             \/ f.block = NULL /\ \A b \in FreeIn(m, top, B) : ~(Size(m, b) >= need)
<1> DEFINE list == FreeList(m)
           F == FreeIn(m, top, B)
           k == FirstFit(m, list, need)
           f == FindFit(m, need)
<1>1. IsListOf(m, F, list)
  BY FreeListIs
<1>2. f = TakeFit(m, list, k, need)
  BY DEF FindFit
<1> HIDE DEF list, F
<1>3. Len(list) \in Nat /\ list \in Seq(F)
  BY <1>1 DEF IsListOf
<1>4. \/ k \in 1 .. Len(list) /\ Size(m, list[k]) >= need
      \/ k = 0 /\ \A j \in 1 .. Len(list) : ~(Size(m, list[j]) >= need)
  BY <1>3, FirstFitIs
<1> HIDE DEF k, f
<1>5. CASE k \in 1 .. Len(list) /\ Size(m, list[k]) >= need
  <2> DEFINE b == list[k]
  <2>1. k # 0 /\ b \in F
    BY <1>3, <1>5
  <2>2. f.mem = Take(m, b, need) /\ f.block = b
    BY <1>2, <2>1 DEF TakeFit
  <2> HIDE DEF b
  <2>3. Taken(m, top, B, Take(m, b, need), b, need)
    <3>1. Size(m, b) >= need
      BY <1>5 DEF b
    <3> QED
      BY <2>1, <3>1, TakeStep DEF F
  <2>4. b \in Nat /\ b # NULL
    <3>1. b \in Nat /\ 24 <= b
      BY <2>1, Geometry DEF F, FreeIn, Pool
    <3> QED
      BY <3>1 DEF NULL
  <2> QED
    BY <2>2, <2>3, <2>4 DEF f
<1>6. CASE k = 0 /\ \A j \in 1 .. Len(list) : ~(Size(m, list[j]) >= need)
  <2>1. f.block = NULL
    BY <1>2, <1>6 DEF TakeFit
  <2>2. \A b \in F : ~(Size(m, b) >= need)
    BY <1>1, <1>6 DEF IsListOf
  <2> QED
    BY <2>1, <2>2 DEF F, f
<1> QED
  BY <1>4, <1>5, <1>6

-----------------------------------------------------------------------------
(* The heap grows.                                                           *)

\* The epilogue at top has become a free block of s bytes, the first of the list.
Appended(m, m2, top, B, s) ==
  /\ \E r2 : Pool(m2, top + s, B \cup {top + s}, r2, {})
  /\ FreeIn(m2, top + s, B \cup {top + s}) = FreeIn(m, top, B) \cup {top}
  /\ UsedIn(m2, top + s, B \cup {top + s}) = UsedIn(m, top, B)
  /\ Kept(m, m2, UsedIn(m, top, B))
  /\ Size(m2, top) = s

\* The heap has grown by a free block of s bytes, which is not yet in the list.
Unlisted(m, m0, top, B, r, s) ==
  /\ Pool(m0, top + s, B \cup {top + s}, r, {top})
  /\ FreeIn(m0, top + s, B \cup {top + s}) = FreeIn(m, top, B) \cup {top}
  /\ UsedIn(m0, top + s, B \cup {top + s}) = UsedIn(m, top, B)
  /\ Kept(m, m0, UsedIn(m, top, B))
  /\ Size(m0, top) = s

\* The old epilogue becomes the header of the new block, the new one ends the heap.
LEMMA AppendShape ==
  ASSUME NEW m, NEW top, NEW B, NEW r, Pool(m, top, B, r, {}),
         NEW s \in Nat, s % 4 = 0, s >= 16, top + s <= MaxAddr,
         NEW m0 \in [Addresses -> Nat], \A a \in Addresses : a < top => m0[a] = m[a],
         m0[top] = s, m0[top + s - 4] = s, m0[top + s] = 1
  PROVE  Unlisted(m, m0, top, B, r, s)
<1> DEFINE t == top + s
           B2 == B \cup {t}
           F == FreeIn(m, top, B)
<1>1. /\ Shape(m, top, B) /\ Linked(m, F, r) /\ F \subseteq B \ {top} /\ m \in [Addresses -> Nat]
      /\ top \in Nat /\ top % 4 = 0 /\ 24 <= top /\ First <= top /\ top \in B /\ First \in B
      /\ B \subseteq Addresses /\ First = 24
      /\ \A c \in B : c \in Nat /\ First <= c /\ c <= top
  <2>1. Shape(m, top, B) /\ Linked(m, F, r) /\ F \subseteq B \ {top}
    BY DEF Pool, FreeIn
  <2> QED
    BY <2>1, Geometry DEF Shape, First, HeapLo
<1>2. t \in Nat /\ t % 4 = 0 /\ top + 16 <= t /\ t \in Addresses /\ t \notin B
  <2>1. t \in Nat /\ top + 16 <= t
    BY <1>1
  <2>2. t % 4 = 0
    BY <1>1, Sums
  <2>3. t \in Addresses
    BY <1>1, <2>1, <2>2, AddressIs
  <2>4. t \notin B
    BY <1>1, <2>1
  <2> QED
    BY <2>1, <2>2, <2>3, <2>4
<1>3. /\ Size(m0, top) = s /\ ~Allocated(m0, top) /\ Following(m0, top) = t /\ FooterOf(m0, top) = t - 4
  <2>1. s % 2 = 0 /\ s - (s % 2) = s
    BY SizeWords
  <2>2. Size(m0, top) = s /\ ~Allocated(m0, top)
    BY <2>1 DEF Size, Allocated
  <2> QED
    BY <1>1, <2>2 DEF Following, FooterOf, WORD
<1> HIDE DEF t
<1>4. ASSUME NEW c \in B \ {top}, NEW a \in Addresses, a < Following(m, c) PROVE m0[a] = m[a]
  <2>1. a \in Nat /\ Following(m, c) \in Nat /\ Following(m, c) <= top
    <3>1. Following(m, c) \in B
      BY <1>1, Geometry
    <3> QED
      BY <1>1, <3>1, AddressIs
  <2>2. a < top
    BY <1>1, <1>4, <2>1
  <2> QED
    BY <2>2
<1>5. ASSUME NEW c \in B \ {top}
      PROVE  /\ m0[c] = m[c] /\ m0[FooterOf(m, c)] = m[FooterOf(m, c)]
             /\ c \in Addresses /\ c \in Nat /\ c + 16 <= Following(m, c) /\ Following(m, c) \in Nat
             /\ FooterOf(m, c) = Following(m, c) - 4
  <2>1. /\ FooterOf(m, c) \in Addresses /\ c \in Nat /\ Following(m, c) \in Nat /\ c \in Addresses
        /\ FooterOf(m, c) = Following(m, c) - 4 /\ c + 16 <= Following(m, c)
    <3>1. Following(m, c) \in B
      BY <1>1, Geometry
    <3> QED
      BY <1>1, <3>1, Geometry
  <2>2. c < Following(m, c) /\ FooterOf(m, c) < Following(m, c)
    BY <2>1
  <2> QED
    BY <1>4, <2>1, <2>2
<1>6. m0[HeapLo] = 9 /\ m0[HeapLo + WORD] = 8
  <2>1. {HeapLo, HeapLo + WORD} \subseteq Addresses /\ HeapLo < top /\ HeapLo + WORD < top
    BY <1>1, Ends
  <2> QED
    BY <1>1, <2>1 DEF Shape
<1>7. ASSUME NEW c \in B2 \ {t}
      PROVE  /\ Size(m0, c) >= OVERHEAD /\ Following(m0, c) \in B2
             /\ m0[FooterOf(m0, c)] \in {0, Size(m0, c)}
             /\ \A d \in B2 : c < d => Following(m0, c) <= d
  <2>1. CASE c = top
    <3>1. \A d \in B2 : top < d => t <= d
      BY <1>1, <1>2
    <3>2. m0[t - 4] = s
      BY <1>1 DEF t
    <3> QED
      BY <1>3, <2>1, <3>1, <3>2 DEF OVERHEAD
  <2>2. CASE c # top
    <3>1. c \in B \ {top}
      BY <2>2
    <3>2. m0[c] = m[c] /\ m0[FooterOf(m, c)] = m[FooterOf(m, c)]
      BY <1>5, <3>1
    <3>3. Size(m0, c) = Size(m, c) /\ FooterOf(m0, c) = FooterOf(m, c) /\ Following(m0, c) = Following(m, c)
      BY <3>2, SameSize
    <3>4. /\ Size(m, c) >= OVERHEAD /\ Following(m, c) \in B
          /\ m[FooterOf(m, c)] \in {0, Size(m, c)}
          /\ \A d \in B : c < d => Following(m, c) <= d
      BY <1>1, <3>1 DEF Shape
    <3>5. Following(m, c) <= t
      <4>1. Following(m, c) \in Nat /\ Following(m, c) <= top
        BY <1>1, <3>4
      <4> QED
        BY <1>1, <1>2, <4>1
    <3> QED
      BY <3>2, <3>3, <3>4, <3>5
  <2> QED
    BY <2>1, <2>2
<1>8. Shape(m0, t, B2)
  <2>1. B2 \subseteq Addresses /\ First \in B2 /\ t \in B2 /\ \A c \in B2 : First <= c /\ c <= t
    BY <1>1, <1>2
  <2>2. m0[t] = 1
    BY DEF t
  <2> QED
    BY <1>6, <1>7, <2>1, <2>2 DEF Shape
<1>9. \A c \in B \ {top} : Allocated(m0, c) <=> Allocated(m, c)
  BY <1>5 DEF Allocated
<1>a. FreeIn(m0, t, B2) = F \cup {top} /\ UsedIn(m0, t, B2) = UsedIn(m, top, B)
  <2>1. B2 \ {t} = (B \ {top}) \cup {top}
    BY <1>1, <1>2
  <2> QED
    BY <1>3, <1>9, <2>1 DEF FreeIn, UsedIn, F
<1>b. Linked(m0, F, r)
  <2>1. ASSUME NEW x \in Ring(F) PROVE m0[x + PREV] = m[x + PREV] /\ m0[x + NEXT] = m[x + NEXT]
    <3>1. x + PREV \in Addresses /\ x + NEXT \in Addresses
      <4>1. Roomy(F)
        BY <1>1, RoomyBlocks
      <4> QED
        BY <4>1 DEF Roomy
    <3>2. x + PREV < top /\ x + NEXT < top
      <4>1. CASE x = ListHead
        BY <1>1, <4>1 DEF ListHead, PREV, NEXT
      <4>2. CASE x \in F
        <5>1. x \in B \ {top} /\ x \in Nat /\ x + 16 <= top
          <6>1. x \in B \ {top} /\ x \in B
            BY <1>1, <4>2
          <6>2. x < top /\ x + 16 <= top
            BY <1>1, <6>1, Geometry
          <6> QED
            BY <1>1, <6>1, <6>2
        <5> QED
          BY <1>1, <5>1 DEF PREV, NEXT
      <4> QED
        BY <4>1, <4>2 DEF Ring
    <3> QED
      BY <3>1, <3>2
  <2> QED
    BY <1>1, <2>1, LinkedFrame
<1>c. Kept(m, m0, UsedIn(m, top, B))
  <2>1. ASSUME NEW x \in UsedIn(m, top, B), NEW a \in Addresses, a < FooterOf(m, x)
        PROVE  m0[a] = m[a]
    <3>1. x \in B \ {top}
      BY DEF UsedIn
    <3>2. a < Following(m, x)
      <4>1. a \in Nat
        BY AddressIs
      <4> QED
        BY <1>5, <2>1, <3>1, <4>1
    <3> QED
      BY <1>4, <3>1, <3>2
  <2>2. \A x \in UsedIn(m, top, B) : m0[x] = m[x]
    BY <1>5 DEF UsedIn
  <2> QED
    BY <2>1, <2>2 DEF Kept
<1>d. Pool(m0, t, B2, r, {top})
  <2>1. top \notin F
    BY DEF F, FreeIn
  <2>2. FreeIn(m0, t, B2) \ {top} = F
    BY <1>a, <2>1
  <2> QED
    BY <1>8, <1>b, <2>2 DEF Pool
<1> QED
  BY <1>3, <1>a, <1>c, <1>d DEF Unlisted, t, F

\* expand_heap() after mem_sbrk(): the new block is written and listed.
LEMMA AppendStep ==
  ASSUME NEW m, NEW top, NEW B, NEW r, Pool(m, top, B, r, {}),
         NEW s \in Nat, s % 4 = 0, s >= 16, top + s <= MaxAddr,
         NEW m0 \in [Addresses -> Nat], \A a \in Addresses : a < top => m0[a] = m[a],
         m0[top] = s, m0[top + s - 4] = s, m0[top + s] = 1
  PROVE  Appended(m, InsertToList(m0, top, ListHead), top, B, s)
<1> DEFINE t == top + s
           B2 == B \cup {t}
           m2 == InsertToList(m0, top, ListHead)
<1>1. /\ Pool(m0, t, B2, r, {top})
      /\ FreeIn(m0, t, B2) = FreeIn(m, top, B) \cup {top}
      /\ UsedIn(m0, t, B2) = UsedIn(m, top, B)
      /\ Kept(m, m0, UsedIn(m, top, B))
      /\ Size(m0, top) = s
  <2>1. Unlisted(m, m0, top, B, r, s)
    BY AppendShape
  <2> QED
    BY <2>1 DEF Unlisted
<1>2. top \in FreeIn(m0, t, B2)
  BY <1>1
<1> HIDE DEF t, B2, m2
<1>3. Relinked(m0, m2, t, B2) /\ \E r2 : Pool(m2, t, B2, r2, {})
  BY <1>1, <1>2, InsertStep DEF m2
<1>4. Size(m2, top) = s
  <2>1. m2[top] = m0[top]
    BY <1>2, <1>3 DEF Relinked, FreeIn
  <2> QED
    BY <1>1, <2>1, SameSize
<1>5. Kept(m, m2, UsedIn(m, top, B))
  BY <1>1, <1>3, KeptTrans DEF Relinked
<1>6. FreeIn(m2, t, B2) = FreeIn(m, top, B) \cup {top} /\ UsedIn(m2, t, B2) = UsedIn(m, top, B)
  BY <1>1, <1>3 DEF Relinked
<1> QED
  BY <1>3, <1>4, <1>5, <1>6 DEF Appended, t, B2, m2

\* The same blocks are in use, with what they hold.
Kindred(m, m2, top, U) ==
  \E B2, r2 : Pool(m2, top, B2, r2, {}) /\ UsedIn(m2, top, B2) = U /\ Kept(m, m2, U)

\* The states of the loop of expand_heap(): a heap of the same kind, and a place in its list.
Visit(m, top, U) ==
  {s \in [mem : [Addresses -> Nat], at : Nat] :
     \E B2, r2 : /\ Pool(s.mem, top, B2, r2, {}) /\ UsedIn(s.mem, top, B2) = U
                 /\ Kept(m, s.mem, U) /\ s.at \in Ring(FreeIn(s.mem, top, B2))}

\* From a listed block, or from the head, the next one.
LEMMA VisitAt ==
  ASSUME NEW m, NEW top, NEW U, NEW m2, NEW B2, NEW r2, Pool(m2, top, B2, r2, {}),
         UsedIn(m2, top, B2) = U, Kept(m, m2, U), NEW x \in Ring(FreeIn(m2, top, B2))
  PROVE  [mem |-> m2, at |-> m2[x + NEXT]] \in Visit(m, top, U)
<1> DEFINE F == FreeIn(m2, top, B2)
           s == [mem |-> m2, at |-> m2[x + NEXT]]
<1>1. Shape(m2, top, B2) /\ Linked(m2, F, r2) /\ F \subseteq B2 \ {top} /\ m2 \in [Addresses -> Nat]
  BY DEF Pool, Shape, FreeIn
<1>2. m2[x + NEXT] \in Ring(F)
  BY <1>1 DEF Linked
<1>3. \A y \in Ring(F) : y \in Nat
  BY <1>1, RoomyBlocks DEF Roomy
<1>4. s \in [mem : [Addresses -> Nat], at : Nat] /\ s.mem = m2 /\ s.at = m2[x + NEXT]
  BY <1>1, <1>2, <1>3
<1> HIDE DEF s
<1>5. s.at \in Ring(FreeIn(s.mem, top, B2)) /\ Pool(s.mem, top, B2, r2, {})
      /\ UsedIn(s.mem, top, B2) = U /\ Kept(m, s.mem, U)
  BY <1>2, <1>4
<1>6. s \in Visit(m, top, U)
  BY <1>4, <1>5 DEF Visit
<1> QED
  BY <1>6 DEF s

\* One turn of the loop: the block is merged, and the loop goes on from the next one.
LEMMA VisitNext ==
  ASSUME NEW m, NEW top, NEW U, NEW s \in Visit(m, top, U)
  PROVE  CoalesceNext(s) \in Visit(m, top, U)
<1>1. PICK B1, r1 : /\ Pool(s.mem, top, B1, r1, {}) /\ UsedIn(s.mem, top, B1) = U
                    /\ Kept(m, s.mem, U) /\ s.at \in Ring(FreeIn(s.mem, top, B1))
  BY DEF Visit
<1>2. CASE s.at = ListHead
  BY <1>2 DEF CoalesceNext
<1>3. CASE s.at # ListHead
  <2> DEFINE c == Coalesce(s.mem, s.at, FALSE)
  <2>1. s.at \in FreeIn(s.mem, top, B1)
    BY <1>1, <1>3 DEF Ring
  <2>2. Coalesced(s.mem, top, B1, IF FALSE THEN {s.at} ELSE {}, s.at, c)
    <3>1. Pool(s.mem, top, B1, r1, IF FALSE THEN {s.at} ELSE {})
      BY <1>1
    <3>2. FALSE \in BOOLEAN
      OBVIOUS
    <3> QED
      BY <2>1, <3>1, <3>2, CoalesceStep
  <2> HIDE DEF c
  <2>3. PICK B2, r2 : /\ Pool(c.mem, top, B2, r2, IF c.block = s.at THEN {} ELSE {})
                      /\ c.block \in FreeIn(c.mem, top, B2)
                      /\ UsedIn(c.mem, top, B2) = UsedIn(s.mem, top, B1)
                      /\ Kept(s.mem, c.mem, UsedIn(s.mem, top, B1))
    BY <2>2 DEF Coalesced
  <2>4. Pool(c.mem, top, B2, r2, {}) /\ UsedIn(c.mem, top, B2) = U /\ Kept(m, c.mem, U)
        /\ c.block \in Ring(FreeIn(c.mem, top, B2))
    BY <1>1, <2>3, KeptTrans DEF Ring
  <2>5. [mem |-> c.mem, at |-> c.mem[c.block + NEXT]] \in Visit(m, top, U)
    BY <2>4, VisitAt
  <2>6. CoalesceNext(s) = [mem |-> c.mem, at |-> c.mem[c.block + NEXT]]
    BY <1>3 DEF CoalesceNext, Successor, c
  <2> QED
    BY <2>5, <2>6
<1> QED
  BY <1>2, <1>3

\* The merging of all free blocks before the heap grows keeps every block in use.
LEMMA CoalesceAllIs ==
  ASSUME NEW m, NEW top, NEW B, NEW r, Pool(m, top, B, r, {})
  PROVE  Kindred(m, CoalesceAll(m), top, UsedIn(m, top, B))
<1> DEFINE K == MaxVisits
           S == Visit(m, top, UsedIn(m, top, B))
           s0 == [mem |-> m, at |-> m[ListHead + NEXT]]
           g == [s \in S |-> CoalesceNext(s)]
           rec(f) == [n \in 0 .. K |-> IF n = 0 THEN s0 ELSE CoalesceNext(f[n - 1])]
<1>1. K \in Nat
  BY Bounds
<1> HIDE DEF K
<1>2. s0 \in S
  <2>1. Kept(m, m, UsedIn(m, top, B)) /\ ListHead \in Ring(FreeIn(m, top, B))
    BY DEF Kept, Ring
  <2> QED
    BY <2>1, VisitAt
<1>3. g \in [S -> S]
  BY VisitNext
<1>4. PICK f \in [0 .. K -> S] : Iterate(f, K, s0, g)
  <2> HIDE DEF g, S, s0
  <2> QED
    BY <1>1, <1>2, <1>3, IterateExists
<1> HIDE DEF S, s0
<1>5. f = rec(f)
  <2>1. ASSUME NEW n \in 0 .. K PROVE f[n] = IF n = 0 THEN s0 ELSE CoalesceNext(f[n - 1])
    <3>1. CASE n = 0
      BY <1>4, <3>1 DEF Iterate
    <3>2. CASE n # 0
      <4>1. n \in 1 .. K /\ n - 1 \in 0 .. K
        BY <1>1, <3>2
      <4> QED
        BY <1>4, <3>2, <4>1 DEF Iterate
    <3> QED
      BY <3>1, <3>2
  <2> QED
    BY <2>1
<1> DEFINE w == CHOOSE f1 : f1 = rec(f1)
<1>6. CoalesceLoop(m) = w
  BY DEF CoalesceLoop, K, s0
<1>7. w = rec(w)
  BY <1>5
<1> HIDE DEF w
<1>8. \A n \in 0 .. K : w[n] = IF n = 0 THEN s0 ELSE CoalesceNext(w[n - 1])
  BY <1>7
<1>9. \A n \in 0 .. K : w[n] \in S
  <2> DEFINE T == {n \in 0 .. K : w[n] \in S}
  <2>1. 0 \in T
    BY <1>1, <1>2, <1>8
  <2>2. ASSUME NEW n \in 0 .. K, n \in T, n < K PROVE n + 1 \in T
    <3>1. n + 1 \in 0 .. K /\ (n + 1) - 1 = n /\ n + 1 # 0
      BY <1>1, <2>2
    <3>2. w[n + 1] = CoalesceNext(w[n])
      BY <1>8, <3>1
    <3>3. CoalesceNext(w[n]) \in S
      BY <2>2, VisitNext DEF S
    <3> QED
      BY <3>1, <3>2, <3>3
  <2> HIDE DEF T
  <2>3. \A n \in 0 .. K : n \in T
    BY <1>1, <2>1, <2>2, UpTo
  <2> QED
    BY <2>3 DEF T
<1> DEFINE last == CHOOSE k \in 0 .. K : w[k].at = ListHead \/ k = K
<1>a. last \in 0 .. K
  <2>1. K \in 0 .. K
    BY <1>1
  <2> QED
    BY <2>1
<1>b. CoalesceAll(m) = w[last].mem
  BY <1>6 DEF CoalesceAll, K
<1> HIDE DEF last
<1>c. w[last] \in S
  BY <1>9, <1>a
<1> QED
  BY <1>b, <1>c DEF S, Visit, Kindred

-----------------------------------------------------------------------------
(* The operations of the allocator on a heap with a set U of blocks in use.  *)

\* What a heap is made of.
Heaps == [mem : [Addresses -> Nat], brk : Nat, exited : BOOLEAN]

\* A heap whose blocks in use are U, with a list of exactly the free ones.
HeapOf(h, U) ==
  /\ h \in Heaps /\ h.brk <= MaxAddr
  /\ \E B, r : Pool(h.mem, h.brk - WORD, B, r, {}) /\ UsedIn(h.mem, h.brk - WORD, B) = U

\* get_block_size() rounds up to a multiple of 4 with room for header, links and footer.
LEMMA BlockSizes ==
  ASSUME NEW size \in Nat
  PROVE  /\ GetBlockSize(size) \in Nat /\ GetBlockSize(size) % 4 = 0
         /\ GetBlockSize(size) >= 16 /\ GetBlockSize(size) >= size + 16
         /\ GetBlockSize(size) <= size + 19
<1> DEFINE v == size + OVERHEAD + 3
<1>1. v \in Nat /\ v = size + 19
  BY DEF OVERHEAD
<1>2. \A x \in Nat : /\ x - (x % 4) \in Nat /\ (x - (x % 4)) % 4 = 0
                     /\ x - (x % 4) <= x /\ x <= x - (x % 4) + 3
  OBVIOUS
<1>3. GetBlockSize(size) = v - (v % 4)
  BY DEF GetBlockSize
<1> HIDE DEF v
<1>4. /\ v - (v % 4) \in Nat /\ (v - (v % 4)) % 4 = 0
      /\ v - (v % 4) <= v /\ v <= v - (v % 4) + 3
  BY <1>1, <1>2
<1> DEFINE s == GetBlockSize(size)
<1>5. s \in Nat /\ s % 4 = 0 /\ s <= v /\ v <= s + 3
  BY <1>3, <1>4
<1> HIDE DEF s
<1>6. s >= 16 /\ s >= size + 16 /\ s <= size + 19
  BY <1>1, <1>5
<1> QED
  BY <1>5, <1>6 DEF s

\* The new block of expand_heap(), as a change of the heap.
LEMMA AddBlockStep ==
  ASSUME NEW h \in Heaps, NEW B, NEW r, Pool(h.mem, h.brk - WORD, B, r, {}),
         NEW size \in Nat, size % 4 = 0, size >= 16, h.brk + size <= MaxAddr
  PROVE  /\ AddBlock(h, size) \in Heaps
         /\ AddBlock(h, size).brk = h.brk /\ AddBlock(h, size).exited = h.exited
         /\ Appended(h.mem, AddBlock(h, size).mem, h.brk - WORD, B, size)
<1> DEFINE top == h.brk - WORD
           zeroed == [a \in Addresses |-> IF a >= h.brk /\ a < h.brk + size THEN 0 ELSE h.mem[a]]
           m0 == [zeroed EXCEPT ![top] = size, ![top + size - 4] = size, ![top + size] = 1]
           m2 == InsertToList(m0, top, ListHead)
<1>1. /\ Shape(h.mem, top, B) /\ top \in Nat /\ 24 <= top /\ top % 4 = 0 /\ h.brk = top + 4
      /\ h.mem \in [Addresses -> Nat] /\ h.brk \in Nat /\ h.mem[top] = 1 /\ WORD = 4
      /\ h.exited \in BOOLEAN
  <2>1. Shape(h.mem, top, B)
    BY DEF Pool
  <2>2. top \in Nat /\ First <= top /\ top % 4 = 0
    BY <2>1, Geometry
  <2>3. h.brk \in Nat /\ h.mem \in [Addresses -> Nat] /\ h.exited \in BOOLEAN
    BY DEF Heaps
  <2> QED
    BY <2>1, <2>2, <2>3 DEF Shape, WORD, First, HeapLo
<1> HIDE DEF top
<1>2. AddBlock(h, size) = [h EXCEPT !.mem = m2]
  <2>1. h.brk - WORD = top /\ h.brk + size - top = size + 4 /\ (size + 4) - WORD = size
        /\ top + (size + 4) - 2 * WORD = top + size - 4 /\ top + (size + 4) - WORD = top + size
    BY <1>1
  <2> DEFINE b == IF h.mem[h.brk - WORD] = 1 THEN h.brk - WORD ELSE h.brk
             whole == h.brk + size - b
  <2>2. b = top
    BY <1>1, <2>1
  <2>3. whole = size + 4
    BY <2>1, <2>2
  <2>4. AddBlock(h, size) =
          [h EXCEPT !.mem =
             InsertToList([zeroed EXCEPT ![b] = whole - WORD, ![b + whole - 2 * WORD] = whole - WORD,
                                         ![b + whole - WORD] = 1], b, ListHead)]
    BY DEF AddBlock
  <2> HIDE DEF b, whole, zeroed
  <2> DEFINE W(x, y, z, v) == [zeroed EXCEPT ![x] = v, ![y] = v, ![z] = 1]
  <2>5. b + whole - 2 * WORD = top + size - 4 /\ b + whole - WORD = top + size /\ whole - WORD = size
    BY <1>1, <2>2, <2>3
  <2>6. AddBlock(h, size) =
          [h EXCEPT !.mem = InsertToList(W(b, b + whole - 2 * WORD, b + whole - WORD, whole - WORD), b, ListHead)]
    BY <2>4
  <2> HIDE DEF W
  <2>7. AddBlock(h, size) = [h EXCEPT !.mem = InsertToList(W(top, top + size - 4, top + size, size), top, ListHead)]
    BY <2>2, <2>5, <2>6
  <2> QED
    BY <2>7 DEF W
<1>3. /\ m0 \in [Addresses -> Nat] /\ m0[top] = size /\ m0[top + size - 4] = size /\ m0[top + size] = 1
      /\ \A a \in Addresses : a < top => m0[a] = h.mem[a]
  <2>1. zeroed \in [Addresses -> Nat] /\ \A a \in Addresses : a < top => zeroed[a] = h.mem[a]
    <3>1. \A a \in Addresses : a \in Nat
      BY AddressIs
    <3>2. zeroed \in [Addresses -> Nat]
      BY <1>1
    <3>3. ASSUME NEW a \in Addresses, a < top PROVE ~(a >= h.brk)
      BY <1>1, <3>1, <3>3
    <3> QED
      BY <3>2, <3>3
  <2>2. top \in Addresses /\ top + size - 4 \in Addresses /\ top + size \in Addresses
    <3>1. (top + size) % 4 = 0 /\ (top + size - 4) % 4 = 0
      BY <1>1, Sums
    <3>2. MaxAddr \in Nat /\ top + size <= MaxAddr /\ top + size \in Nat /\ top + size - 4 \in Nat
      BY <1>1, AddressIs
    <3> QED
      BY <1>1, <3>1, <3>2, AddressIs
  <2>3. top # top + size - 4 /\ top # top + size /\ top + size - 4 # top + size
    BY <1>1
  <2> HIDE DEF zeroed
  <2> QED
    BY <1>1, <2>1, <2>2, <2>3
<1> HIDE DEF m0
<1>4. Appended(h.mem, m2, top, B, size)
  <2>1. top + size <= MaxAddr /\ Pool(h.mem, top, B, r, {})
    <3>1. MaxAddr \in Nat
      BY AddressIs
    <3> QED
      BY <1>1, <3>1 DEF top
  <2> QED
    BY <1>3, <2>1, AppendStep
<1> HIDE DEF m2
<1>5. m2 \in [Addresses -> Nat]
  BY <1>4 DEF Appended, Pool, Shape
<1> QED
  BY <1>1, <1>2, <1>4, <1>5 DEF Heaps, top

\* A heap has a free block of some size.
Fits(h, U, size) ==
  \E B, r : /\ Pool(h.mem, h.brk - WORD, B, r, {}) /\ UsedIn(h.mem, h.brk - WORD, B) = U
            /\ \E b \in FreeIn(h.mem, h.brk - WORD, B) : Size(h.mem, b) >= size

\* expand_heap() either makes room or ends the program, and only when the heap is full.
LEMMA ExpandHeapIs ==
  ASSUME NEW h, NEW U, HeapOf(h, U), NEW size \in Nat, size % 4 = 0, size >= 16
  PROVE  LET h2 == ExpandHeap(h, size)
         IN  /\ HeapOf(h2, U) /\ Kept(h.mem, h2.mem, U)
             /\ \/ h2.exited /\ h2.brk + size > MaxAddr
                \/ h2.exited = h.exited /\ Fits(h2, U, size)
<1> DEFINE h1 == [h EXCEPT !.mem = CoalesceAll(@)]
           h2 == ExpandHeap(h, size)
           top == h.brk - WORD
<1>1. PICK B, r : Pool(h.mem, top, B, r, {}) /\ UsedIn(h.mem, top, B) = U
  BY DEF HeapOf
<1>2. h \in Heaps /\ h.brk <= MaxAddr /\ h.brk \in Nat /\ MaxAddr \in Nat
  BY AddressIs DEF HeapOf, Heaps
<1>3. Kindred(h.mem, h1.mem, top, U)
  BY <1>1, <1>2, CoalesceAllIs DEF Heaps
<1>4. PICK B1, r1 : Pool(h1.mem, top, B1, r1, {}) /\ UsedIn(h1.mem, top, B1) = U /\ Kept(h.mem, h1.mem, U)
  BY <1>3 DEF Kindred
<1>5. h1 \in Heaps /\ h1.brk = h.brk /\ h1.exited = h.exited
  <2>1. h1.mem \in [Addresses -> Nat]
    BY <1>4 DEF Pool, Shape
  <2> QED
    BY <1>2, <2>1 DEF Heaps
<1>6. CASE SbrkFails(h, size)
  <2>1. h2 = [h1 EXCEPT !.exited = TRUE]
    BY <1>2, <1>6 DEF ExpandHeap, Heaps
  <2>2. h2 \in Heaps /\ h2.mem = h1.mem /\ h2.brk = h.brk /\ h2.exited
    BY <1>5, <2>1 DEF Heaps
  <2>3. h.brk + size > MaxAddr
    BY <1>6 DEF SbrkFails
  <2> HIDE DEF h1, h2
  <2> QED
    BY <1>2, <1>4, <2>2, <2>3 DEF HeapOf, h2
<1>7. CASE ~SbrkFails(h, size)
  <2> DEFINE h3 == AddBlock(h1, size)
  <2>1. h2 = Sbrk(h3, size)
    BY <1>7 DEF ExpandHeap
  <2>2. h.brk + size <= MaxAddr
    BY <1>2, <1>7 DEF SbrkFails
  <2> HIDE DEF h1
  <2>3. /\ h3 \in Heaps /\ h3.brk = h.brk /\ h3.exited = h.exited
        /\ Appended(h1.mem, h3.mem, top, B1, size)
    BY <1>4, <1>5, <2>2, AddBlockStep
  <2> HIDE DEF h3
  <2>4. h2 \in Heaps /\ h2.mem = h3.mem /\ h2.brk = h.brk + size /\ h2.exited = h.exited
    BY <1>2, <2>1, <2>3 DEF Sbrk, Heaps
  <2> HIDE DEF h2
  <2>5. top + size = h2.brk - WORD
    BY <1>2, <2>4 DEF WORD
  <2> DEFINE t == h2.brk - WORD
             B2 == B1 \cup {t}
  <2> HIDE DEF t
  <2>6. /\ \E r2 : Pool(h2.mem, t, B2, r2, {})
        /\ FreeIn(h2.mem, t, B2) = FreeIn(h1.mem, top, B1) \cup {top}
        /\ UsedIn(h2.mem, t, B2) = UsedIn(h1.mem, top, B1)
        /\ Kept(h1.mem, h2.mem, UsedIn(h1.mem, top, B1))
        /\ Size(h2.mem, top) = size
    BY <2>3, <2>4, <2>5 DEF Appended, t
  <2>7. Kept(h.mem, h2.mem, U)
    BY <1>4, <2>6, KeptTrans
  <2>8. Fits(h2, U, size)
    <3> DEFINE G == FreeIn(h2.mem, t, B2)
               G1 == FreeIn(h1.mem, top, B1)
               v == Size(h2.mem, top)
    <3>1. G = G1 \cup {top} /\ v = size
      BY <2>6
    <3> HIDE DEF G, G1, v
    <3>2. top \in G /\ v >= size
      BY <3>1
    <3>3. top \in FreeIn(h2.mem, t, B2) /\ Size(h2.mem, top) >= size
      BY <3>2 DEF G, v
    <3> QED
      BY <1>4, <2>6, <3>3 DEF Fits, t
  <2>9. HeapOf(h2, U)
    BY <1>4, <2>2, <2>4, <2>6 DEF HeapOf, t
  <2> QED
    BY <2>4, <2>7, <2>8, <2>9 DEF h2
<1> QED
  BY <1>6, <1>7

\* What an allocation answers with: a new block in use that is large enough, or NULL and the end
\* of the program, which comes only when the heap cannot grow; the other blocks keep their data.
Most(a, b) == IF a > b THEN a ELSE b

\* mm_malloc() answers with a new block of the needed size and keeps the others, or the heap is full.
Answer(h, U, need, a) ==
  /\ Kept(h.mem, a.heap.mem, U)
  /\ \/ \E b \in Nat : /\ b \notin U /\ b > 0 /\ a.ptr = b + PAYLOAD /\ ~a.heap.exited
                       /\ HeapOf(a.heap, U \cup {b}) /\ Size(a.heap.mem, b) >= need
     \/ /\ a.ptr = NULL /\ a.heap.exited /\ HeapOf(a.heap, U)
        /\ a.heap.brk + Most(need, Chunk) > MaxAddr

\* What keeps some payloads keeps fewer.
LEMMA KeptLess ==
  ASSUME NEW m, NEW m2, NEW X, Kept(m, m2, X), NEW Y, Y \subseteq X
  PROVE  Kept(m, m2, Y)
BY DEF Kept

\* set_allocated() of a free block that is in no list.
Allotted(m, m2, top, B, r, b) ==
  /\ Pool(m2, top, B, r, {}) /\ b \notin UsedIn(m, top, B)
  /\ UsedIn(m2, top, B) = UsedIn(m, top, B) \cup {b}
  /\ Kept(m, m2, UsedIn(m, top, B))
  /\ Size(m2, b) = Size(m, b)
  /\ Within(m, m2, b)

\* A free block that is not in the list becomes one in use.
LEMMA AllocateStep ==
  ASSUME NEW m, NEW top, NEW B, NEW r, NEW b, b \in FreeIn(m, top, B), Pool(m, top, B, r, {b})
  PROVE  Allotted(m, SetAllocated(m, b), top, B, r, b)
<1> DEFINE m3 == SetAllocated(m, b)
<1>1. Shape(m, top, B) /\ b \in B \ {top} /\ Linked(m, FreeIn(m, top, B) \ {b}, r)
      /\ b \notin UsedIn(m, top, B)
  BY DEF Pool, FreeIn, UsedIn
<1>2. /\ Shape(m3, top, B) /\ Within(m, m3, b)
      /\ FreeIn(m3, top, B) = FreeIn(m, top, B) \ {b}
      /\ UsedIn(m3, top, B) = UsedIn(m, top, B) \cup {b}
      /\ Size(m3, b) = Size(m, b)
  BY <1>1, SetAllocatedShape
<1> HIDE DEF m3
<1>3. Framed(m, m3, top, B, b)
  BY <1>1, <1>2, WithinFrame
<1>4. Linked(m3, FreeIn(m3, top, B) \ {}, r)
  <2>1. FreeIn(m, top, B) \ {b} \subseteq B \ {top}
    BY DEF FreeIn
  <2>2. Linked(m3, FreeIn(m, top, B) \ {b}, r)
    BY <1>1, <1>3, <2>1 DEF Framed
  <2>3. FreeIn(m, top, B) \ {b} = FreeIn(m3, top, B) \ {}
    BY <1>2
  <2> QED
    BY <2>2, <2>3
<1>5. Kept(m, m3, UsedIn(m, top, B))
  <2>1. UsedIn(m, top, B) \subseteq (B \ {top}) \ {b}
    BY <1>1 DEF UsedIn
  <2> QED
    BY <1>3, <2>1, KeptLess DEF Framed
<1>6. Pool(m3, top, B, r, {})
  BY <1>2, <1>4 DEF Pool
<1> QED
  BY <1>1, <1>2, <1>5, <1>6 DEF m3, Allotted

\* What find_fit() has taken is what mm_malloc() answers with.
LEMMA GrantedIs ==
  ASSUME NEW h \in Heaps, ~h.exited, h.brk <= MaxAddr, NEW U, NEW B,
         UsedIn(h.mem, h.brk - WORD, B) = U, NEW need \in Nat, NEW f, f.block \in Nat, f.block # NULL,
         Taken(h.mem, h.brk - WORD, B, f.mem, f.block, need)
  PROVE  Answer(h, U, need, Granted(h, f))
<1> DEFINE top == h.brk - WORD
           b == f.block
           m3 == SetAllocated(f.mem, b)
           h3 == [h EXCEPT !.mem = m3]
<1>1. PICK B2, r2 : /\ Pool(f.mem, top, B2, r2, {b}) /\ b \in FreeIn(f.mem, top, B2)
                    /\ UsedIn(f.mem, top, B2) = U
                    /\ Kept(h.mem, f.mem, U)
                    /\ Size(f.mem, b) >= need
  BY DEF Taken
<1>2. Granted(h, f) = [heap |-> h3, ptr |-> b + PAYLOAD]
  BY DEF Granted
<1>3. /\ Pool(m3, top, B2, r2, {}) /\ b \notin U /\ UsedIn(m3, top, B2) = U \cup {b}
      /\ Kept(f.mem, m3, U) /\ Size(m3, b) = Size(f.mem, b)
  <2>1. Allotted(f.mem, m3, top, B2, r2, b)
    BY <1>1, AllocateStep
  <2> HIDE DEF m3
  <2> QED
    BY <1>1, <2>1 DEF Allotted
<1> HIDE DEF m3
<1>8. Kept(h.mem, m3, U)
  BY <1>1, <1>3, KeptTrans
<1>a. m3 \in [Addresses -> Nat]
  BY <1>3 DEF Pool, Shape
<1>b. h3 \in Heaps /\ h3.mem = m3 /\ h3.brk = h.brk /\ h3.exited = h.exited
  BY <1>a DEF Heaps
<1> HIDE DEF h3
<1>c. HeapOf(h3, U \cup {b})
  BY <1>3, <1>b DEF HeapOf, top
<1>d. Size(h3.mem, b) >= need
  <2> DEFINE s == Size(h3.mem, b)
             s2 == Size(f.mem, b)
  <2>1. s2 = s /\ s2 >= need
    BY <1>1, <1>3, <1>b
  <2> HIDE DEF s, s2
  <2>2. s >= need
    BY <2>1
  <2> QED
    BY <2>2 DEF s
<1> DEFINE a == Granted(h, f)
<1>e. a.heap = h3 /\ a.ptr = b + PAYLOAD
  BY <1>2
<1>f. b > 0 /\ b \in Nat
  BY DEF NULL
<1> HIDE DEF a, b
<1>g. Answer(h, U, need, a)
  BY <1>3, <1>8, <1>b, <1>c, <1>d, <1>e, <1>f DEF Answer
<1> QED
  BY <1>g DEF a

\* mm_malloc(): a block that overlaps no other, or an exit because the heap cannot grow enough.
LEMMA MmMallocIs ==
  ASSUME NEW h, NEW U, HeapOf(h, U), ~h.exited, NEW size \in Nat
  PROVE  Answer(h, U, GetBlockSize(size), MmMalloc(h, size))
<1> DEFINE need == GetBlockSize(size)
           fit == FindFit(h.mem, need)
           s == IF need > Chunk THEN need ELSE Chunk
           h2 == ExpandHeap(h, s)
<1>1. need \in Nat /\ need % 4 = 0 /\ need >= 16
  BY BlockSizes
<1>2. MmMalloc(h, size) = Place(h, fit, need)
  BY DEF MmMalloc
<1>3. s \in Nat /\ s % 4 = 0 /\ s >= 16 /\ s >= need /\ s = Most(need, Chunk)
  <2>1. Chunk \in Nat /\ Chunk % 4 = 0 /\ Chunk > 16
    BY HeapAssumption
  <2> HIDE DEF need
  <2> QED
    BY <1>1, <2>1 DEF Most
<1> HIDE DEF need
<1>4. PICK B, r : Pool(h.mem, h.brk - WORD, B, r, {}) /\ UsedIn(h.mem, h.brk - WORD, B) = U
  BY DEF HeapOf
<1>5. h \in Heaps /\ h.brk <= MaxAddr
  BY DEF HeapOf
<1>6. \/ fit.block \in Nat /\ fit.block # NULL /\ Taken(h.mem, h.brk - WORD, B, fit.mem, fit.block, need)
      \/ fit.block = NULL
  BY <1>1, <1>4, FindFitIs
<1> HIDE DEF fit
<1>7. CASE fit.block # NULL
  <2>1. Place(h, fit, need) = Granted(h, fit)
    BY <1>7 DEF Place
  <2>2. Answer(h, U, need, Granted(h, fit))
    BY <1>1, <1>4, <1>5, <1>6, <1>7, GrantedIs
  <2> QED
    BY <1>2, <2>1, <2>2 DEF need
<1>8. CASE fit.block = NULL
  <2>1. Place(h, fit, need) = Retry(h2, need)
    BY <1>8 DEF Place, s
  <2> HIDE DEF s
  <2>a. /\ HeapOf(h2, U) /\ Kept(h.mem, h2.mem, U)
        /\ \/ h2.exited /\ h2.brk + s > MaxAddr
           \/ h2.exited = h.exited /\ Fits(h2, U, s)
    BY <1>3, ExpandHeapIs
  <2> HIDE DEF h2
  <2>2. HeapOf(h2, U) /\ Kept(h.mem, h2.mem, U)
    BY <2>a
  <2>3. \/ h2.exited /\ h2.brk + s > MaxAddr
        \/ h2.exited = h.exited /\ Fits(h2, U, s)
    BY <2>a
  <2>4. CASE h2.exited
    <3> DEFINE a == Retry(h2, need)
    <3>1. h2.brk + s > MaxAddr
      BY <2>3, <2>4
    <3>2. a.ptr = NULL /\ a.heap = h2
      BY <2>4 DEF Retry, Nothing
    <3> HIDE DEF a
    <3>3. h2.brk + Most(need, Chunk) > MaxAddr
      BY <1>3, <3>1
    <3>4. Answer(h, U, need, a)
      BY <2>2, <2>4, <3>2, <3>3 DEF Answer
    <3> QED
      BY <1>2, <2>1, <3>4 DEF a, need
  <2>5. CASE ~h2.exited
    <3>1. PICK B2, r2, c : /\ Pool(h2.mem, h2.brk - WORD, B2, r2, {})
                           /\ UsedIn(h2.mem, h2.brk - WORD, B2) = U
                           /\ c \in FreeIn(h2.mem, h2.brk - WORD, B2) /\ Size(h2.mem, c) >= s
      BY <2>3, <2>5 DEF Fits
    <3> DEFINE g == FindFit(h2.mem, need)
    <3>2. \/ g.block \in Nat /\ g.block # NULL /\ Taken(h2.mem, h2.brk - WORD, B2, g.mem, g.block, need)
          \/ g.block = NULL /\ \A b \in FreeIn(h2.mem, h2.brk - WORD, B2) : ~(Size(h2.mem, b) >= need)
      BY <1>1, <3>1, FindFitIs
    <3> HIDE DEF g
    <3>3. Size(h2.mem, c) >= need
      <4>1. Shape(h2.mem, h2.brk - WORD, B2) /\ c \in B2 \ {h2.brk - WORD}
        BY <3>1 DEF Pool, FreeIn
      <4>2. Size(h2.mem, c) \in Nat
        BY <4>1, Geometry
      <4> QED
        BY <1>1, <1>3, <3>1, <4>2
    <3>4. g.block \in Nat /\ g.block # NULL /\ Taken(h2.mem, h2.brk - WORD, B2, g.mem, g.block, need)
      BY <3>1, <3>2, <3>3
    <3>5. h2 \in Heaps /\ h2.brk <= MaxAddr
      BY <2>2 DEF HeapOf
    <3>6. Answer(h2, U, need, Granted(h2, g))
      BY <1>1, <2>5, <3>1, <3>4, <3>5, GrantedIs
    <3>7. Answer(h, U, need, Granted(h2, g))
      BY <2>2, <3>6, KeptTrans DEF Answer
    <3> QED
      BY <1>2, <2>1, <2>5, <3>7 DEF Retry, g, need
  <2> QED
    BY <2>4, <2>5
<1> QED
  BY <1>6, <1>7, <1>8

\* mm_free() of a block in use.
LEMMA MmFreeIs ==
  ASSUME NEW h, NEW U, HeapOf(h, U), NEW b \in U
  PROVE  LET h2 == MmFree(h, b + PAYLOAD)
         IN  /\ HeapOf(h2, U \ {b}) /\ Kept(h.mem, h2.mem, U \ {b})
             /\ h2.brk = h.brk /\ h2.exited = h.exited
<1> DEFINE top == h.brk - WORD
           m1 == SetFree(h.mem, b)
           c == Coalesce(m1, b, TRUE)
           h2 == MmFree(h, b + PAYLOAD)
<1>1. PICK B, r : Pool(h.mem, top, B, r, {}) /\ UsedIn(h.mem, top, B) = U
  BY DEF HeapOf
<1>2. h \in Heaps /\ h.brk <= MaxAddr
  BY DEF HeapOf
<1>3. Shape(h.mem, top, B) /\ b \in B \ {top} /\ Linked(h.mem, FreeIn(h.mem, top, B) \ {}, r)
      /\ b \notin FreeIn(h.mem, top, B)
  BY <1>1 DEF Pool, FreeIn, UsedIn
<1>4. b \in Nat /\ b > 0
  BY <1>3, Geometry
<1>5. h2 = Release(h, b, c)
  <2>1. b + PAYLOAD # NULL /\ (b + PAYLOAD) - PAYLOAD = b
    BY <1>4 DEF NULL, PAYLOAD
  <2> QED
    BY <2>1 DEF MmFree
<1> HIDE DEF top
<1>6. /\ Shape(m1, top, B) /\ Within(h.mem, m1, b)
      /\ FreeIn(m1, top, B) = FreeIn(h.mem, top, B) \cup {b}
      /\ UsedIn(m1, top, B) = U \ {b}
  BY <1>1, <1>3, SetFreeShape
<1>7. Framed(h.mem, m1, top, B, b)
  BY <1>3, <1>6, WithinFrame
<1> HIDE DEF m1, h2
<1>8. Pool(m1, top, B, r, {b})
  <2>1. FreeIn(m1, top, B) \ {b} = FreeIn(h.mem, top, B) \ {}
    BY <1>3, <1>6
  <2>2. FreeIn(h.mem, top, B) \ {} \subseteq B \ {top}
    BY DEF FreeIn
  <2>3. Linked(m1, FreeIn(h.mem, top, B) \ {}, r)
    BY <1>3, <1>7, <2>2 DEF Framed
  <2> QED
    BY <1>6, <2>1, <2>3 DEF Pool
<1>9. Kept(h.mem, m1, U \ {b})
  <2>1. U \ {b} \subseteq (B \ {top}) \ {b}
    BY <1>1 DEF UsedIn
  <2> QED
    BY <1>7, <2>1, KeptLess DEF Framed
<1>a. Coalesced(m1, top, B, {b}, b, c)
  <2>1. Pool(m1, top, B, r, IF TRUE THEN {b} ELSE {}) /\ b \in FreeIn(m1, top, B)
    BY <1>6, <1>8
  <2>2. Coalesced(m1, top, B, IF TRUE THEN {b} ELSE {}, b, Coalesce(m1, b, TRUE))
    BY <2>1, CoalesceStep
  <2> QED
    BY <2>2
<1> HIDE DEF c
<1>b. PICK B2, r2 : /\ Pool(c.mem, top, B2, r2, IF c.block = b THEN {b} ELSE {})
                    /\ c.block \in FreeIn(c.mem, top, B2)
                    /\ UsedIn(c.mem, top, B2) = U \ {b}
                    /\ Kept(m1, c.mem, U \ {b})
  BY <1>6, <1>a DEF Coalesced
<1>c. Kept(h.mem, c.mem, U \ {b})
  BY <1>9, <1>b, KeptTrans
<1> DEFINE m2 == IF c.block = b THEN InsertToList(c.mem, b, ListHead) ELSE c.mem
<1>d. \E r3 : Pool(m2, top, B2, r3, {}) /\ UsedIn(m2, top, B2) = U \ {b} /\ Kept(h.mem, m2, U \ {b})
  <2>1. CASE c.block = b
    <3>1. Pool(c.mem, top, B2, r2, {b}) /\ b \in FreeIn(c.mem, top, B2)
      BY <1>b, <2>1
    <3>2. /\ Relinked(c.mem, InsertToList(c.mem, b, ListHead), top, B2)
          /\ \E r3 : Pool(InsertToList(c.mem, b, ListHead), top, B2, r3, {})
      BY <3>1, InsertStep
    <3>3. m2 = InsertToList(c.mem, b, ListHead)
      BY <2>1
    <3> HIDE DEF m2
    <3>4. UsedIn(m2, top, B2) = U \ {b} /\ Kept(c.mem, m2, U \ {b})
      BY <1>b, <3>2, <3>3 DEF Relinked
    <3>5. Kept(h.mem, m2, U \ {b})
      BY <1>c, <3>4, KeptTrans
    <3> QED
      BY <3>2, <3>3, <3>4, <3>5
  <2>2. CASE c.block # b
    BY <1>b, <1>c, <2>2
  <2> QED
    BY <2>1, <2>2
<1>e. h2 = [h EXCEPT !.mem = m2]
  BY <1>5 DEF Release
<1> HIDE DEF m2
<1>f. m2 \in [Addresses -> Nat]
  BY <1>d DEF Pool, Shape
<1>g. h2 \in Heaps /\ h2.mem = m2 /\ h2.brk = h.brk /\ h2.exited = h.exited
  BY <1>2, <1>e, <1>f DEF Heaps
<1>h. HeapOf(h2, U \ {b})
  BY <1>2, <1>d, <1>g DEF HeapOf, top
<1> QED
  BY <1>d, <1>g, <1>h DEF h2

-----------------------------------------------------------------------------
(* mm_realloc().  What a block b held below a size is, in m2, in block b2.   *)

\* What block b held in the first size bytes of its payload, block b2 holds in m2.
Carried(m, b, m2, b2, size) ==
  \A a \in Addresses : b + 12 <= a /\ a < b + 12 + size /\ a < FooterOf(m, b) =>
                         m2[(a - b) + b2] = m[a]

\* The words that a run of bytes touches.
LEMMA WordsAre ==
  ASSUME NEW ptr \in Nat, NEW size \in Nat, NEW a
  PROVE  /\ a \in Words(ptr, size) => a \in Nat /\ ptr <= a /\ a < ptr + size /\ (a - ptr) % 4 = 0
         /\ a \in Nat /\ ptr <= a /\ a < ptr + size /\ (a - ptr) % 4 = 0 => a \in Words(ptr, size)
<1> DEFINE q == (size + 3) \div 4
<1>1. q \in Nat /\ 4 * q <= size + 3 /\ size < 4 * q + 1
  <2>1. \A v \in Nat : v \div 4 \in Nat /\ 4 * (v \div 4) <= v /\ v < 4 * (v \div 4) + 4
    OBVIOUS
  <2>2. size + 3 \in Nat
    OBVIOUS
  <2>3. q \in Nat /\ 4 * q <= size + 3 /\ size + 3 < 4 * q + 4
    BY <2>1, <2>2
  <2> HIDE DEF q
  <2> QED
    BY <2>3
<1> HIDE DEF q
<1>2. a \in Words(ptr, size) <=> \E k \in 0 .. q - 1 : a = ptr + 4 * k
  BY DEF Words, WORD, q
<1>3. ASSUME NEW k \in 0 .. q - 1, a = ptr + 4 * k
      PROVE  a \in Nat /\ ptr <= a /\ a < ptr + size /\ (a - ptr) % 4 = 0
  <2> DEFINE j == k
  <2>1. k \in Nat /\ ptr + 4 * k = a
    BY <1>1, <1>3
  <2>2. a \in Nat /\ ptr <= a /\ a < ptr + size /\ a - ptr = 4 * k
    BY <1>1, <1>3, <2>1
  <2>3. (4 * k) % 4 = 0
    BY <2>1
  <2> QED
    BY <2>2, <2>3
<1>4. ASSUME a \in Nat, ptr <= a, a < ptr + size, (a - ptr) % 4 = 0
      PROVE  \E k \in 0 .. q - 1 : a = ptr + 4 * k
  <2> DEFINE k == (a - ptr) \div 4
  <2>1. a - ptr \in Nat /\ a - ptr < size
    BY <1>4
  <2>2. k \in Nat /\ a - ptr = 4 * k
    <3>1. \A v \in Nat : v % 4 = 0 => v \div 4 \in Nat /\ 4 * (v \div 4) = v
      OBVIOUS
    <3> QED
      BY <1>4, <2>1, <3>1
  <2> HIDE DEF k
  <2>3. k \in 0 .. q - 1 /\ a = ptr + 4 * k
    BY <1>1, <1>4, <2>1, <2>2
  <2> QED
    BY <2>3
<1> QED
  BY <1>2, <1>3, <1>4

\* The links of a block in use belong to no list.
LEMMA UnlinkStep ==
  ASSUME NEW h, NEW U, HeapOf(h, U), NEW b \in U
  PROVE  LET h2 == Unlinked(h, b)
         IN  /\ HeapOf(h2, U) /\ Kept(h.mem, h2.mem, U)
             /\ h2.brk = h.brk /\ h2.exited = h.exited
<1> DEFINE top == h.brk - WORD
           m == h.mem
           m2 == [m EXCEPT ![b + PREV] = NULL, ![b + NEXT] = NULL]
<1>1. PICK B, r : Pool(m, top, B, r, {}) /\ UsedIn(m, top, B) = U
  BY DEF HeapOf
<1>2. h \in Heaps /\ h.brk <= MaxAddr
  BY DEF HeapOf
<1> HIDE DEF top
<1> DEFINE F == FreeIn(m, top, B)
<1>3. Shape(m, top, B) /\ b \in B \ {top} /\ Linked(m, F, r) /\ b \notin F /\ F \subseteq B \ {top}
      /\ m \in [Addresses -> Nat]
  <2>1. F \ {} = F
    OBVIOUS
  <2> QED
    BY <1>1, <2>1 DEF Pool, FreeIn, UsedIn, Shape
<1> HIDE DEF F, m
<1>4. Roomy(F \cup {b})
  BY <1>3, RoomyBlocks
<1>5. m2 \in [Addresses -> Nat] /\ \A a \in Addresses : a # b + PREV /\ a # b + NEXT => m2[a] = m[a]
  BY <1>3 DEF NULL
<1> HIDE DEF m2
<1>6. Linked(m2, F, r)
  <2>1. ASSUME NEW x \in Ring(F)
        PROVE  m2[x + PREV] = m[x + PREV] /\ m2[x + NEXT] = m[x + NEXT]
    <3>1. x \in Ring(F \cup {b}) /\ b \in Ring(F \cup {b}) /\ x # b
      <4>1. b # ListHead
        BY <1>3, Geometry DEF ListHead
      <4> QED
        BY <1>3, <4>1 DEF Ring
    <3>2. x \in Nat /\ b \in Nat /\ {x + PREV, x + NEXT} \subseteq Addresses
          /\ (x < b => x + 12 <= b) /\ (b < x => b + 12 <= x)
      BY <1>4, <3>1 DEF Roomy
    <3>3. x + PREV # b + PREV /\ x + PREV # b + NEXT /\ x + NEXT # b + PREV /\ x + NEXT # b + NEXT
      BY <3>1, <3>2 DEF PREV, NEXT
    <3> QED
      BY <1>5, <3>2, <3>3
  <2> QED
    BY <1>3, <2>1, LinkedFrame
<1>7. OnlyLinks(m, m2, {b})
  <2>1. b \in Ring({b})
    BY DEF Ring
  <2> QED
    BY <1>5, <2>1 DEF OnlyLinks
<1>8. /\ Shape(m2, top, B) /\ \A c \in B : m2[c] = m[c]
      /\ FreeIn(m2, top, B) = FreeIn(m, top, B) /\ UsedIn(m2, top, B) = UsedIn(m, top, B)
      /\ \A X : X \subseteq (B \ {top}) \ {b} => Kept(m, m2, X)
  BY <1>3, <1>7, LinksFrame
<1>9. Kept(m, m2, U)
  <2>1. ASSUME NEW x \in U
        PROVE  /\ m2[x] = m[x]
               /\ \A a \in Addresses : x + 12 <= a /\ a < FooterOf(m, x) => m2[a] = m[a]
    <3>1. x \in B \ {top}
      BY <1>1 DEF UsedIn, m
    <3>2. CASE x # b
      <4>1. {x} \subseteq (B \ {top}) \ {b}
        BY <3>1, <3>2
      <4> QED
        BY <1>8, <4>1 DEF Kept
    <3>3. CASE x = b
      <4>1. b \in Nat /\ \A a \in Addresses : a \in Nat
        BY <1>3, Geometry, AddressIs
      <4>2. \A a \in Addresses : b + 12 <= a => a # b + PREV /\ a # b + NEXT
        BY <4>1 DEF PREV, NEXT
      <4> QED
        BY <1>3, <1>5, <1>8, <3>3, <4>2
    <3> QED
      BY <3>2, <3>3
  <2> QED
    BY <2>1 DEF Kept
<1> DEFINE h2 == Unlinked(h, b)
<1>a. h2 = [h EXCEPT !.mem = m2]
  BY DEF Unlinked, m2, m
<1>b. h2 \in Heaps /\ h2.mem = m2 /\ h2.brk = h.brk /\ h2.exited = h.exited
  BY <1>2, <1>5, <1>a DEF Heaps
<1> HIDE DEF h2
<1>c. Pool(m2, top, B, r, {}) /\ UsedIn(m2, top, B) = U
  <2>1. FreeIn(m2, top, B) \ {} = F
    BY <1>8 DEF F
  <2> QED
    BY <1>1, <1>6, <1>8, <2>1 DEF Pool, m
<1>d. HeapOf(h2, U)
  BY <1>2, <1>b, <1>c DEF HeapOf, top
<1> QED
  BY <1>9, <1>b, <1>d DEF h2, m

\* Case 3 first makes the block one with a free successor.
Widened(h, w, U, b) ==
  /\ HeapOf(w, U) /\ Kept(h.mem, w.mem, U \ {b}) /\ w.brk = h.brk /\ w.exited = h.exited
  /\ \A a \in Addresses : b + 12 <= a /\ a < FooterOf(h.mem, b) =>
                            a < FooterOf(w.mem, b) /\ w.mem[a] = h.mem[a]

\* Case 3 of mm_realloc(): a free successor becomes a part of the block, if there is one.
LEMMA AbsorbStep ==
  ASSUME NEW h, NEW U, HeapOf(h, U), NEW b \in U
  PROVE  Widened(h, Absorbed(h, b), U, b)
<1> DEFINE top == h.brk - WORD
           m == h.mem
           w == Absorbed(h, b)
<1>1. PICK B, r : Pool(m, top, B, r, {}) /\ UsedIn(m, top, B) = U
  BY DEF HeapOf
<1>2. h \in Heaps /\ h.brk <= MaxAddr
  BY DEF HeapOf
<1> HIDE DEF top
<1>3. Shape(m, top, B) /\ b \in B \ {top} /\ \A x \in U : x \in B \ {top}
  BY <1>1 DEF Pool, UsedIn
<1>4. CASE ~NextFree(m, b)
  <2>1. w = h
    BY <1>4 DEF Absorbed
  <2>2. Kept(h.mem, h.mem, U \ {b})
    BY DEF Kept
  <2> HIDE DEF w
  <2> QED
    BY <2>1, <2>2 DEF Widened, w
<1>5. CASE NextFree(m, b)
  <2> DEFINE n == Following(m, b)
             m2 == ClearBlock(RemoveFromList(Grow(m, b, Size(m, n)), n), n)
  <2>1. w = [h EXCEPT !.mem = m2]
    BY <1>5 DEF Absorbed, Absorb
  <2> HIDE DEF m
  <2>2. n \in FreeIn(m, top, B) /\ b < n
    BY <1>3, <1>5, NextIsFree
  <2>3. n \in B /\ n # top /\ n \in FreeIn(m, top, B) \ {}
    BY <2>2 DEF FreeIn
  <2>4. PICK r2 : /\ Pool(m2, top, B \ {n}, r2, {})
                  /\ UsedIn(m2, top, B \ {n}) = UsedIn(m, top, B)
                  /\ Kept(m, m2, UsedIn(m, top, B) \ {b})
                  /\ m2[b] = m[b] + Size(m, n)
                  /\ \A a \in Addresses : b + 12 <= a /\ a < n - 4 => m2[a] = m[a]
    <3> DEFINE k == n
               out == {}
    <3>1. Following(m, b) = k /\ k \in B /\ k # top /\ k \in FreeIn(m, top, B) \ out
          /\ Pool(m, top, B, r, out) /\ out \subseteq {b}
      BY <1>1, <2>3 DEF m
    <3> HIDE DEF k, out
    <3> DEFINE m3 == ClearBlock(RemoveFromList(Grow(m, b, Size(m, k)), k), k)
    <3>2. Engulfed(m, m3, top, B, b, k, out)
      BY <1>3, <3>1, MergeNext
    <3> HIDE DEF m3
    <3>3. \E r2 : /\ Pool(m3, top, B \ {k}, r2, out)
                  /\ UsedIn(m3, top, B \ {k}) = UsedIn(m, top, B)
                  /\ Kept(m, m3, UsedIn(m, top, B) \ {b})
                  /\ m3[b] = m[b] + Size(m, k)
                  /\ \A a \in Addresses : b + 12 <= a /\ a < k - 4 => m3[a] = m[a]
      BY <3>2 DEF Engulfed
    <3> QED
      BY <3>3 DEF k, m3, out
  <2> HIDE DEF m2
  <2>5. n = b + Size(m, b) /\ FooterOf(m, b) = n - 4 /\ n \in Nat /\ b \in Nat
        /\ m[b] \in Nat /\ Size(m, n) \in Nat /\ Size(m, n) % 4 = 0 /\ 16 <= Size(m, n)
        /\ Size(m, b) \in Nat
    BY <1>3, <2>3, Geometry
  <2>6. FooterOf(m2, b) = FooterOf(m, b) + Size(m, n)
    <3> DEFINE v == m[b]
               d == Size(m, n)
    <3>1. m2[b] = v + d /\ v \in Nat /\ d \in Int /\ d % 4 = 0 /\ v + d \in Nat
      BY <2>4, <2>5
    <3> HIDE DEF v, d
    <3>2. (v + d) - ((v + d) % 2) = (v - (v % 2)) + d
      BY <3>1, ParityKept
    <3>3. Size(m2, b) = Size(m, b) + d
      BY <3>1, <3>2 DEF Size, v
    <3>4. d \in Nat /\ Size(m, n) = d
      BY <2>5 DEF d
    <3> QED
      BY <2>5, <3>3, <3>4 DEF FooterOf, WORD
  <2> HIDE DEF n
  <2>7. \A a \in Addresses : b + 12 <= a /\ a < FooterOf(m, b) =>
                               a < FooterOf(m2, b) /\ m2[a] = m[a]
    <3>1. \A a \in Addresses : a \in Nat
      BY AddressIs
    <3> QED
      BY <2>4, <2>5, <2>6, <3>1
  <2>8. w \in Heaps /\ w.mem = m2 /\ w.brk = h.brk /\ w.exited = h.exited
    <3>1. m2 \in [Addresses -> Nat]
      BY <2>4 DEF Pool, Shape
    <3> QED
      BY <1>2, <2>1, <3>1 DEF Heaps
  <2> HIDE DEF w
  <2>9. HeapOf(w, U)
    BY <1>1, <1>2, <2>4, <2>8 DEF HeapOf, top, m
  <2>a. Kept(h.mem, w.mem, U \ {b})
    BY <1>1, <2>4, <2>8 DEF m
  <2> QED
    BY <2>7, <2>8, <2>9, <2>a DEF Widened, w, m
<1> QED
  BY <1>4, <1>5

\* A block that is larger than it need be gives what is over to the list.
Shrunk(h, s, U, b, need) ==
  /\ HeapOf(s, U) /\ Kept(h.mem, s.mem, U \ {b}) /\ s.brk = h.brk /\ s.exited = h.exited
  /\ Size(s.mem, b) = need
  /\ \A a \in Addresses : b + 12 <= a /\ a < b + need - 4 => s.mem[a] = h.mem[a]

\* mm_realloc() to a smaller block in place.
LEMMA ShrinkStep ==
  ASSUME NEW h, NEW U, HeapOf(h, U), NEW b \in U,
         NEW need \in Nat, need % 4 = 0, need >= 16, Size(h.mem, b) > need + OVERHEAD
  PROVE  Shrunk(h, Shrink(h, b, need), U, b, need)
<1> DEFINE top == h.brk - WORD
           m == h.mem
           m2 == SplitBlock(m, b, need, TRUE)
           m3 == SetAllocated(m2, b)
           s == Shrink(h, b, need)
           out == {b}
           q == b + need
<1>1. PICK B, r : Pool(m, top, B, r, {}) /\ UsedIn(m, top, B) = U
  BY DEF HeapOf
<1>2. h \in Heaps /\ h.brk <= MaxAddr
  BY DEF HeapOf
<1>3. s = [h EXCEPT !.mem = m3]
  BY DEF Shrink
<1>4. Size(m, b) > need + 16
  BY DEF OVERHEAD
<1> HIDE DEF top, m, s
<1>5. b \in B \ {top} /\ ~(b \in FreeIn(m, top, B)) /\ \A x \in U : x \in B \ {top}
  BY <1>1 DEF FreeIn, UsedIn
<1>6. SplitInto(m, m2, top, B, b, q, out)
  <2>1. b \in FreeIn(m, top, B) <=> ~TRUE
    BY <1>5
  <2>2. SplitInto(m, SplitBlock(m, b, need, TRUE), top, B, b, b + need, IF TRUE THEN {b} ELSE {})
    BY <1>1, <1>4, <1>5, <2>1, SplitStep
  <2> QED
    BY <2>2
<1> HIDE DEF m2
<1>7. PICK r2 : Pool(m2, top, B \cup {q}, r2, out)
  BY <1>6 DEF SplitInto
<1>8. /\ FreeIn(m2, top, B \cup {q}) = FreeIn(m, top, B) \cup {b, q}
      /\ UsedIn(m2, top, B \cup {q}) = UsedIn(m, top, B) \ {b}
      /\ Kept(m, m2, UsedIn(m, top, B) \ {b})
      /\ Following(m2, b) = q
      /\ \A a \in Addresses : b + 12 <= a /\ a < q - 4 => m2[a] = m[a]
  BY <1>6 DEF SplitInto
<1>9. Allotted(m2, m3, top, B \cup {q}, r2, b)
  BY <1>7, <1>8, AllocateStep
<1>a. /\ m2 \in [Addresses -> Nat] /\ b \in Nat /\ Size(m2, b) \in Nat
      /\ \A a \in Addresses : a \in Nat
  <2> DEFINE C == B \cup {q}
  <2>1. Shape(m2, top, C) /\ b \in C \ {top}
    BY <1>5, <1>7 DEF Pool
  <2> HIDE DEF C
  <2>2. b \in Nat /\ Size(m2, b) \in Nat
    BY <2>1, Geometry
  <2>3. m2 \in [Addresses -> Nat]
    BY <2>1 DEF Shape
  <2> QED
    BY <2>2, <2>3, AddressIs
<1>b. \A a \in Addresses : b + 12 <= a => m3[a] = m2[a]
  BY <1>a DEF SetAllocated
<1> HIDE DEF m3
<1>c. Pool(m3, top, B \cup {q}, r2, {}) /\ UsedIn(m3, top, B \cup {q}) = U
      /\ Kept(m2, m3, U \ {b}) /\ Size(m3, b) = Size(m2, b)
  BY <1>1, <1>8, <1>9 DEF Allotted
<1>d. Kept(m, m3, U \ {b})
  BY <1>1, <1>8, <1>c, KeptTrans
<1>e. Size(m3, b) = need
  <2> DEFINE v == Size(m2, b)
  <2>1. b + v = b + need /\ v \in Nat
    BY <1>8, <1>a DEF Following
  <2> HIDE DEF v
  <2>2. v = need
    BY <1>a, <2>1
  <2> QED
    BY <1>c, <2>2 DEF v
<1>f. \A a \in Addresses : b + 12 <= a /\ a < b + need - 4 => m3[a] = m[a]
  <2> SUFFICES ASSUME NEW a \in Addresses, b + 12 <= a, a < b + need - 4
               PROVE  m3[a] = m[a]
    OBVIOUS
  <2>1. a < q - 4
    BY <1>a
  <2>2. m2[a] = m[a]
    BY <1>8, <2>1
  <2>3. m3[a] = m2[a]
    BY <1>b
  <2> QED
    BY <2>2, <2>3
<1>g. s \in Heaps /\ s.mem = m3 /\ s.brk = h.brk /\ s.exited = h.exited
  <2>1. m3 \in [Addresses -> Nat]
    BY <1>c DEF Pool, Shape
  <2> QED
    BY <1>2, <1>3, <2>1 DEF Heaps
<1>h. HeapOf(s, U)
  BY <1>2, <1>c, <1>g DEF HeapOf, top
<1> QED
  BY <1>d, <1>e, <1>f, <1>g, <1>h DEF Shrunk, s, m

\* memcpy() into a block that is large enough.
Copied(h, h2, V, b2, b, size) ==
  /\ HeapOf(h2, V) /\ Kept(h.mem, h2.mem, V \ {b2}) /\ h2.brk = h.brk /\ h2.exited = h.exited
  /\ Size(h2.mem, b2) = Size(h.mem, b2)
  /\ Carried(h.mem, b, h2.mem, b2, size)

\* A write to the payload of a block in use.
Stored(h, m2, b, size) ==
  /\ m2 \in [Addresses -> Nat]
  /\ \A a \in Addresses : ~(b + 12 <= a /\ a < b + 12 + size) => m2[a] = h.mem[a]

\* The heap after such a store, with the same blocks.
WellStored(h, h2, m2, V, b) ==
  /\ HeapOf(h2, V) /\ Kept(h.mem, h2.mem, V \ {b}) /\ h2.mem = m2
  /\ h2.brk = h.brk /\ h2.exited = h.exited /\ m2[b] = h.mem[b]

\* A store inside one payload leaves the heap well formed: memcpy() and memset().
LEMMA StoreStep ==
  ASSUME NEW h, NEW V, HeapOf(h, V), NEW b \in V, NEW size \in Nat,
         Size(h.mem, b) >= size + 16, NEW m2, Stored(h, m2, b, size)
  PROVE  WellStored(h, [h EXCEPT !.mem = m2], m2, V, b)
<1> DEFINE top == h.brk - WORD
           m == h.mem
           h2 == [h EXCEPT !.mem = m2]
<1>1. PICK B, r : Pool(m, top, B, r, {}) /\ UsedIn(m, top, B) = V
  BY DEF HeapOf
<1>2. h \in Heaps /\ h.brk <= MaxAddr
  BY DEF HeapOf
<1> HIDE DEF top
<1> DEFINE F == FreeIn(m, top, B)
<1>3. Shape(m, top, B) /\ b \in B \ {top} /\ Linked(m, F, r) /\ b \notin F /\ F \subseteq B \ {top}
      /\ V \ {b} \subseteq (B \ {top}) \ {b}
  <2>1. F \ {} = F
    OBVIOUS
  <2> QED
    BY <1>1, <2>1 DEF Pool, FreeIn, UsedIn
<1>4. h2 \in Heaps /\ h2.mem = m2 /\ h2.brk = h.brk /\ h2.exited = h.exited
  BY <1>2 DEF Heaps, Stored
<1>5. /\ m2 \in [Addresses -> Nat]
      /\ \A a \in Addresses : ~(b + 12 <= a /\ a < b + 12 + size) => m2[a] = m[a]
  BY DEF Stored
<1>6. /\ b \in Nat /\ b \in Addresses /\ Size(m, b) \in Nat /\ Following(m, b) = b + Size(m, b)
      /\ FooterOf(m, b) = Following(m, b) - 4 /\ FooterOf(m, b) \in Addresses
      /\ \A a \in Addresses : a \in Nat
  BY <1>3, Geometry, AddressIs
<1>7. Size(m, b) >= size + 16
  OBVIOUS
<1> HIDE DEF m, h2, F
<1>8. Within(m, m2, b)
  <2>1. ASSUME NEW a \in Addresses, m2[a] # m[a]
        PROVE  b <= a /\ a < Following(m, b) /\ b + 12 <= a
    <3>1. b + 12 <= a /\ a < b + 12 + size
      BY <1>5, <2>1
    <3> DEFINE e == Following(m, b)
               v == Size(m, b)
    <3>2. e = b + v /\ v \in Nat /\ v >= size + 16 /\ a \in Nat
      BY <1>6, <1>7
    <3> HIDE DEF e, v
    <3>3. a < e
      BY <1>6, <3>1, <3>2
    <3> QED
      BY <1>6, <3>1, <3>2, <3>3 DEF e
  <2> QED
    BY <1>5, <2>1 DEF Within
<1>9. m2[b] = m[b] /\ m2[FooterOf(m, b)] = m[FooterOf(m, b)]
  BY <1>5, <1>6, <1>7
<1>a. Shape(m2, top, B)
  <2>1. Size(m2, b) = Size(m, b)
    BY <1>9, SameSize
  <2>2. m2[FooterOf(m, b)] \in {0, Size(m, b)}
    BY <1>3, <1>9 DEF Shape
  <2> QED
    BY <1>3, <1>8, <2>1, <2>2, WithinShape
<1>b. Framed(m, m2, top, B, b)
  BY <1>3, <1>8, WithinFrame
<1>c. \A c \in B : m2[c] = m[c]
  BY <1>9, <1>b DEF Framed
<1>d. FreeIn(m2, top, B) = F /\ UsedIn(m2, top, B) = UsedIn(m, top, B)
  BY <1>c DEF FreeIn, UsedIn, Allocated, F
<1>e. Pool(m2, top, B, r, {}) /\ UsedIn(m2, top, B) = V
  <2>1. FreeIn(m2, top, B) \ {} = F
    BY <1>d
  <2> QED
    BY <1>1, <1>3, <1>a, <1>b, <1>d, <2>1 DEF Pool, Framed
<1>f. HeapOf(h2, V)
  BY <1>2, <1>4, <1>e DEF HeapOf, top
<1>g. Kept(m, m2, V \ {b})
  BY <1>3, <1>b, KeptLess DEF Framed
<1> QED
  BY <1>4, <1>9, <1>f, <1>g DEF h2, m, WellStored

\* memcpy() from one block in use into another.
LEMMA CopyStep ==
  ASSUME NEW h, NEW V, HeapOf(h, V), NEW b2 \in V, NEW b \in V, NEW size \in Nat,
         Size(h.mem, b2) >= size + 16
  PROVE  Copied(h, [h EXCEPT !.mem = Copy(@, b2 + PAYLOAD, b + PAYLOAD, size)], V, b2, b, size)
<1> DEFINE to == b2 + 12
           from == b + 12
           m2 == Copy(h.mem, to, from, size)
           h2 == [h EXCEPT !.mem = m2]
<1>1. h \in Heaps /\ h.mem \in [Addresses -> Nat]
  BY DEF HeapOf, Heaps
<1>2. b \in Nat /\ b % 4 = 0 /\ b2 \in Nat /\ b2 % 4 = 0
  BY Geometry DEF HeapOf, Pool, UsedIn
<1>3. /\ \A a \in Addresses : a \in Nat /\ a % 4 = 0
      /\ to \in Nat /\ from \in Nat
  BY <1>2, AddressIs
<1>4. Stored(h, m2, b2, size)
  <2>1. m2 \in [Addresses -> Nat]
    BY <1>1 DEF Copy
  <2>2. ASSUME NEW a \in Addresses, ~(b2 + 12 <= a /\ a < b2 + 12 + size) PROVE m2[a] = h.mem[a]
    <3>1. a \notin Words(to, size)
      BY <1>3, <2>2, WordsAre
    <3> QED
      BY <3>1 DEF Copy
  <2> HIDE DEF m2
  <2> QED
    BY <2>1, <2>2 DEF Stored
<1>5. ASSUME NEW a \in Addresses, b + 12 <= a, a < b + 12 + size, (a - b) + b2 \in Addresses
      PROVE  m2[(a - b) + b2] = h.mem[a]
  <2> DEFINE x == (a - b) + b2
  <2>1. x \in Nat /\ to <= x /\ x < to + size /\ x - to = a - from /\ (x - to) + from = a
        /\ a \in Nat /\ a % 4 = 0
    BY <1>2, <1>3, <1>5
  <2>2. (x - to) % 4 = 0
    <3>1. (a - from) % 4 = 0
      <4>1. from % 4 = 0 /\ a \in Int /\ from \in Int
        BY <1>2, <1>3, Sums
      <4> QED
        BY <2>1, <4>1, Sums
    <3> QED
      BY <2>1, <3>1
  <2> HIDE DEF x, to, from
  <2>3. x \in Words(to, size)
    BY <1>3, <2>1, <2>2, WordsAre
  <2>4. x \in Addresses
    BY <1>5 DEF x
  <2>5. m2[x] = h.mem[(x - to) + from]
    <3>1. (x - to) + from \in Addresses
      BY <2>1
    <3> QED
      BY <2>3, <2>4, <3>1 DEF Copy
  <2>6. m2[x] = h.mem[a]
    BY <2>1, <2>5
  <2> QED
    BY <2>6 DEF x
<1>6. [h EXCEPT !.mem = Copy(@, b2 + PAYLOAD, b + PAYLOAD, size)] = h2
  BY DEF PAYLOAD
<1> HIDE DEF m2
<1>7. WellStored(h, h2, m2, V, b2)
  BY <1>4, StoreStep
<1> HIDE DEF h2
<1>8. Size(h2.mem, b2) = Size(h.mem, b2)
  BY <1>7, SameSize DEF WellStored
<1>9. ASSUME NEW a \in Addresses, b + 12 <= a, a < b + 12 + size
      PROVE  (a - b) + b2 \in Addresses
  <2> DEFINE x == (a - b) + b2
  <2>1. PICK B, r : Pool(h.mem, h.brk - WORD, B, r, {}) /\ UsedIn(h.mem, h.brk - WORD, B) = V
    BY DEF HeapOf
  <2>2. Shape(h.mem, h.brk - WORD, B) /\ b2 \in B \ {h.brk - WORD}
    BY <2>1 DEF Pool, UsedIn
  <2>3. Size(h.mem, b2) \in Nat /\ FooterOf(h.mem, b2) = Following(h.mem, b2) - 4
        /\ Following(h.mem, b2) = b2 + Size(h.mem, b2) /\ FooterOf(h.mem, b2) \in Addresses
    BY <2>2, Geometry
  <2>4. MaxAddr \in Nat /\ b2 + Size(h.mem, b2) - 4 <= MaxAddr
    <3> DEFINE e == FooterOf(h.mem, b2)
               f == Following(h.mem, b2)
               v == Size(h.mem, b2)
    <3>1. e \in Addresses /\ f - 4 = e /\ b2 + v = f /\ v \in Nat
      BY <2>3
    <3>2. e <= MaxAddr /\ MaxAddr \in Nat
      BY <3>1, AddressIs
    <3> HIDE DEF e, f, v
    <3>3. b2 + v - 4 <= MaxAddr
      BY <1>2, <3>1, <3>2
    <3> QED
      BY <3>2, <3>3 DEF v
  <2>5. Size(h.mem, b2) >= size + 16
    OBVIOUS
  <2>6. x \in Nat /\ x < b2 + 12 + size /\ 4 <= x
    BY <1>2, <1>3, <1>9
  <2>7. x <= MaxAddr
    BY <1>2, <2>3, <2>4, <2>5, <2>6
  <2>8. x % 4 = 0
    <3>1. a \in Int /\ a % 4 = 0 /\ b \in Int /\ b2 \in Int /\ a - b \in Int
      BY <1>2, <1>3
    <3>2. (a - b) % 4 = 0
      BY <1>2, <3>1, Sums
    <3> QED
      BY <1>2, <3>1, <3>2, Sums
  <2> HIDE DEF x
  <2>9. x \in Addresses
    BY <2>6, <2>7, <2>8, AddressIs
  <2> QED
    BY <2>9 DEF x
<1>a. Carried(h.mem, b, h2.mem, b2, size)
  BY <1>5, <1>7, <1>9 DEF Carried, WellStored
<1> QED
  BY <1>6, <1>7, <1>8, <1>a DEF Copied, WellStored

\* What mm_realloc() of a block b answers with: a block of the size asked that holds what b held,
\* in the place of b or elsewhere, or NULL and the end of the program.
Resized(h, U, b, size, a) ==
  \/ \E b2 \in Nat : /\ b2 > 0 /\ b2 \notin U \ {b} /\ a.ptr = b2 + PAYLOAD /\ ~a.heap.exited
                     /\ HeapOf(a.heap, (U \ {b}) \cup {b2})
                     /\ Size(a.heap.mem, b2) >= GetBlockSize(size)
                     /\ Kept(h.mem, a.heap.mem, U \ {b})
                     /\ Carried(h.mem, b, a.heap.mem, b2, size)
  \/ /\ a.ptr = NULL /\ a.heap.exited /\ HeapOf(a.heap, U)
     /\ a.heap.brk + Most(GetBlockSize(size), Chunk) > MaxAddr

\* What holds for the widened block holds for the one it was.
LEMMA WidenedResized ==
  ASSUME NEW h, NEW w, NEW U, NEW b, Widened(h, w, U, b), NEW size, NEW a, Resized(w, U, b, size, a)
  PROVE  Resized(h, U, b, size, a)
<1>1. CASE a.ptr = NULL /\ a.heap.exited /\ HeapOf(a.heap, U)
           /\ a.heap.brk + Most(GetBlockSize(size), Chunk) > MaxAddr
  BY <1>1 DEF Resized
<1>2. CASE ~(a.ptr = NULL /\ a.heap.exited /\ HeapOf(a.heap, U)
             /\ a.heap.brk + Most(GetBlockSize(size), Chunk) > MaxAddr)
  <2>1. PICK b2 \in Nat : /\ b2 > 0 /\ b2 \notin U \ {b} /\ a.ptr = b2 + PAYLOAD /\ ~a.heap.exited
                          /\ HeapOf(a.heap, (U \ {b}) \cup {b2})
                          /\ Size(a.heap.mem, b2) >= GetBlockSize(size)
                          /\ Kept(w.mem, a.heap.mem, U \ {b})
                          /\ Carried(w.mem, b, a.heap.mem, b2, size)
    BY <1>2 DEF Resized
  <2>2. Kept(h.mem, a.heap.mem, U \ {b})
    BY <2>1, KeptTrans DEF Widened
  <2>3. Carried(h.mem, b, a.heap.mem, b2, size)
    BY <2>1 DEF Widened, Carried
  <2> QED
    BY <2>1, <2>2, <2>3 DEF Resized
<1> QED
  BY <1>1, <1>2

\* mm_realloc() answers with the block it has shrunk in place.
LEMMA ShrinkResized ==
  ASSUME NEW h, NEW U, HeapOf(h, U), ~h.exited, NEW b \in U, NEW size \in Nat,
         Size(h.mem, b) > GetBlockSize(size) + OVERHEAD
  PROVE  Resized(h, U, b, size, Same(Shrink(h, b, GetBlockSize(size)), b + PAYLOAD))
<1> DEFINE need == GetBlockSize(size)
           s == Shrink(h, b, need)
           a == Same(s, b + PAYLOAD)
<1>1. need \in Nat /\ need % 4 = 0 /\ need >= 16 /\ need >= size + 16
  BY BlockSizes
<1>2. Size(h.mem, b) > need + OVERHEAD
  OBVIOUS
<1> HIDE DEF need
<1>3. Shrunk(h, s, U, b, need)
  BY <1>1, <1>2, ShrinkStep
<1>4. b \in Nat /\ b > 0
  BY Geometry DEF HeapOf, Pool, UsedIn
<1> HIDE DEF s
<1>5. a.heap = s /\ a.ptr = b + PAYLOAD /\ ~s.exited
  BY <1>3 DEF Same, Shrunk
<1> HIDE DEF a
<1>6. Carried(h.mem, b, s.mem, b, size)
  <2> SUFFICES ASSUME NEW x \in Addresses, b + 12 <= x, x < b + 12 + size
               PROVE  s.mem[(x - b) + b] = h.mem[x]
    BY DEF Carried
  <2>1. x \in Nat /\ (x - b) + b = x
    BY <1>4, AddressIs
  <2>2. x < b + need - 4
    BY <1>1, <1>4, <2>1
  <2> QED
    BY <1>3, <2>1, <2>2 DEF Shrunk
<1>7. (U \ {b}) \cup {b} = U
  OBVIOUS
<1>8. Size(s.mem, b) >= need
  <2> DEFINE v == Size(s.mem, b)
  <2>1. v = need
    BY <1>3 DEF Shrunk
  <2> HIDE DEF v
  <2>2. v >= need
    BY <1>1, <2>1
  <2> QED
    BY <2>2 DEF v
<1>9. /\ b \in Nat /\ b > 0 /\ b \notin U \ {b} /\ a.ptr = b + PAYLOAD /\ ~a.heap.exited
      /\ HeapOf(a.heap, (U \ {b}) \cup {b}) /\ Size(a.heap.mem, b) >= need
      /\ Kept(h.mem, a.heap.mem, U \ {b}) /\ Carried(h.mem, b, a.heap.mem, b, size)
  BY <1>3, <1>4, <1>5, <1>6, <1>7, <1>8 DEF Shrunk
<1>a. Resized(h, U, b, size, a)
  BY <1>9 DEF Resized, need
<1> QED
  BY <1>a DEF a, s, need

\* Case 4 of mm_realloc(): a new block, the copy, and the old block is freed.
LEMMA MoveStep ==
  ASSUME NEW h, NEW U, HeapOf(h, U), ~h.exited, NEW b \in U, NEW size \in Nat
  PROVE  Resized(h, U, b, size, MoveTo(MmMalloc(h, size), b + PAYLOAD, size))
<1> DEFINE need == GetBlockSize(size)
           new == MmMalloc(h, size)
           a == MoveTo(new, b + PAYLOAD, size)
<1>1. need \in Nat /\ need >= size + 16
  BY BlockSizes
<1>2. Answer(h, U, need, new)
  BY MmMallocIs
<1>3. Kept(h.mem, new.heap.mem, U)
  BY <1>2 DEF Answer
<1> HIDE DEF new
<1>4. CASE /\ new.ptr = NULL /\ new.heap.exited /\ HeapOf(new.heap, U)
           /\ new.heap.brk + Most(need, Chunk) > MaxAddr
  <2>1. a = new
    BY <1>4 DEF MoveTo
  <2> HIDE DEF a
  <2> QED
    BY <1>4, <2>1 DEF Resized, a, new
<1>5. CASE ~(/\ new.ptr = NULL /\ new.heap.exited /\ HeapOf(new.heap, U)
             /\ new.heap.brk + Most(need, Chunk) > MaxAddr)
  <2>1. PICK b2 \in Nat : /\ b2 \notin U /\ b2 > 0 /\ new.ptr = b2 + PAYLOAD /\ ~new.heap.exited
                          /\ HeapOf(new.heap, U \cup {b2}) /\ Size(new.heap.mem, b2) >= need
    BY <1>2, <1>5 DEF Answer
  <2> DEFINE g == new.heap
             V == U \cup {b2}
             h2 == [g EXCEPT !.mem = Copy(@, b2 + PAYLOAD, b + PAYLOAD, size)]
             h3 == MmFree(h2, b + PAYLOAD)
  <2>2. a.heap = h3 /\ a.ptr = b2 + PAYLOAD
    <3>1. new.ptr # NULL
      BY <2>1 DEF PAYLOAD, NULL
    <3> DEFINE P(p) == MmFree([g EXCEPT !.mem = Copy(g.mem, p, b + PAYLOAD, size)], b + PAYLOAD)
    <3>2. a = [heap |-> P(new.ptr), ptr |-> new.ptr]
      BY <3>1 DEF MoveTo
    <3>3. h3 = P(b2 + PAYLOAD)
      OBVIOUS
    <3> HIDE DEF P, a, h3
    <3> QED
      BY <2>1, <3>2, <3>3
  <2>3. Size(g.mem, b2) >= size + 16
    <3> DEFINE v == Size(g.mem, b2)
    <3>1. v \in Nat
      <4>1. PICK B, r : Pool(g.mem, g.brk - WORD, B, r, {}) /\ UsedIn(g.mem, g.brk - WORD, B) = V
        BY <2>1 DEF HeapOf
      <4>2. Shape(g.mem, g.brk - WORD, B) /\ b2 \in B \ {g.brk - WORD}
        BY <4>1 DEF Pool, UsedIn
      <4> QED
        BY <4>2, Geometry
    <3>2. v >= need
      BY <2>1
    <3> HIDE DEF v, need
    <3>3. v >= size + 16
      BY <1>1, <3>1, <3>2
    <3> QED
      BY <3>3 DEF v
  <2>4. HeapOf(g, V) /\ b2 \in V /\ b \in V /\ b # b2
    BY <2>1
  <2> HIDE DEF g, V
  <2>5. Copied(g, h2, V, b2, b, size)
    BY <2>3, <2>4, CopyStep
  <2> HIDE DEF h2
  <2>6. /\ HeapOf(h3, V \ {b}) /\ Kept(h2.mem, h3.mem, V \ {b})
        /\ h3.brk = h2.brk /\ h3.exited = h2.exited
    BY <2>4, <2>5, MmFreeIs DEF Copied
  <2> HIDE DEF h3
  <2>7. b2 \in V \ {b} /\ V \ {b2} = U /\ V \ {b} = (U \ {b}) \cup {b2} /\ b2 \notin U \ {b}
    BY <2>1 DEF V
  <2>8. Size(h3.mem, b2) >= need
    <3>1. h3.mem[b2] = h2.mem[b2]
      BY <2>6, <2>7 DEF Kept
    <3>2. Size(h3.mem, b2) = Size(g.mem, b2)
      BY <2>5, <3>1, SameSize DEF Copied
    <3>3. Size(g.mem, b2) >= need
      BY <2>1 DEF g
    <3> QED
      BY <3>2, <3>3
  <2>9. Kept(h.mem, h3.mem, U \ {b})
    <3>1. Kept(g.mem, h2.mem, U \ {b}) /\ Kept(h2.mem, h3.mem, U \ {b}) /\ Kept(h.mem, g.mem, U \ {b})
      <4>1. Kept(g.mem, h2.mem, U) /\ Kept(h.mem, g.mem, U)
        BY <1>3, <2>5, <2>7 DEF Copied, g
      <4>2. U \ {b} \subseteq U /\ U \ {b} \subseteq V \ {b}
        BY <2>7
      <4> QED
        BY <2>6, <4>1, <4>2, KeptLess
    <3> QED
      BY <3>1, KeptTrans
  <2>a. Carried(h.mem, b, h3.mem, b2, size)
    <3> SUFFICES ASSUME NEW x \in Addresses, b + 12 <= x, x < b + 12 + size, x < FooterOf(h.mem, b)
                 PROVE  h3.mem[(x - b) + b2] = h.mem[x]
      BY DEF Carried
    <3> DEFINE y == (x - b) + b2
    <3>1. g.mem[b] = h.mem[b] /\ g.mem[x] = h.mem[x]
      BY <1>3 DEF Kept, g
    <3>2. x < FooterOf(g.mem, b)
      <4>1. FooterOf(g.mem, b) = FooterOf(h.mem, b)
        BY <3>1, SameSize
      <4> QED
        BY <4>1
    <3>3. h2.mem[y] = g.mem[x]
      BY <2>5, <3>2 DEF Copied, Carried
    <3>4. h3.mem[y] = h2.mem[y]
      <4>1. PICK B, r : Pool(h2.mem, h2.brk - WORD, B, r, {}) /\ UsedIn(h2.mem, h2.brk - WORD, B) = V
        BY <2>5 DEF Copied, HeapOf
      <4>2. Shape(h2.mem, h2.brk - WORD, B) /\ b2 \in B \ {h2.brk - WORD} /\ b \in B
        BY <2>7, <2>4, <4>1 DEF Pool, UsedIn
      <4> DEFINE f == FooterOf(h2.mem, b2)
                 v == Size(h2.mem, b2)
      <4>3. /\ b2 \in Nat /\ b2 % 4 = 0 /\ b \in Nat /\ b % 4 = 0 /\ v \in Nat /\ f \in Addresses
            /\ f = (b2 + v) - 4
        BY <4>2, Geometry
      <4>4. v >= size + 16
        BY <2>3, <2>5 DEF Copied
      <4>5. x \in Nat /\ x % 4 = 0 /\ MaxAddr \in Nat /\ f \in Nat /\ f <= MaxAddr
        BY <4>3, AddressIs
      <4> HIDE DEF f, v
      <4>6. y \in Nat /\ b2 + 12 <= y /\ y < f /\ 4 <= y
        BY <4>3, <4>4, <4>5
      <4>7. y % 4 = 0
        <5> DEFINE z == x - b
        <5>1. z % 4 = 0 /\ z \in Int
          BY <4>3, <4>5, Sums
        <5> HIDE DEF z
        <5>2. (z + b2) % 4 = 0
          BY <4>3, <5>1, Sums
        <5> QED
          BY <5>2 DEF z
      <4> HIDE DEF y
      <4>8. y \in Addresses
        <5>1. y <= MaxAddr
          BY <4>5, <4>6
        <5> QED
          BY <4>6, <4>7, <5>1, AddressIs
      <4> QED
        BY <2>6, <2>7, <4>6, <4>8 DEF Kept, f
    <3> QED
      BY <3>1, <3>3, <3>4
  <2>b. ~h3.exited
    BY <2>1, <2>5, <2>6 DEF Copied, g
  <2> HIDE DEF a
  <2>c. /\ b2 > 0 /\ b2 \notin U \ {b} /\ a.ptr = b2 + PAYLOAD /\ ~a.heap.exited
        /\ HeapOf(a.heap, (U \ {b}) \cup {b2}) /\ Size(a.heap.mem, b2) >= need
        /\ Kept(h.mem, a.heap.mem, U \ {b}) /\ Carried(h.mem, b, a.heap.mem, b2, size)
    BY <2>1, <2>2, <2>6, <2>7, <2>8, <2>9, <2>a, <2>b
  <2>d. Resized(h, U, b, size, a)
    BY <2>c DEF Resized
  <2> QED
    BY <2>d DEF a, new
<1> QED
  BY <1>4, <1>5

\* mm_realloc() of a block that is not the last one: the three cases the theorems cover.
LEMMA MmReallocIs ==
  ASSUME NEW h, NEW U, HeapOf(h, U), ~h.exited, NEW b \in U, NEW size \in Nat, size # 0,
         Following(h.mem, b) # h.brk - WORD
  PROVE  Resized(h, U, b, size, MmRealloc(h, b + PAYLOAD, size))
<1> DEFINE need == GetBlockSize(size)
           clear == Unlinked(h, b)
           wide == Absorbed(clear, b)
           a == MmRealloc(h, b + PAYLOAD, size)
<1>1. b \in Nat /\ b > 0
  BY Geometry DEF HeapOf, Pool, UsedIn
<1>2. a = Resize(clear, wide, b, size, need)
  <2>1. b + PAYLOAD # NULL /\ (b + PAYLOAD) - PAYLOAD = b
    BY <1>1 DEF NULL, PAYLOAD
  <2> QED
    BY <2>1 DEF MmRealloc
<1> HIDE DEF a
<1>3. /\ HeapOf(clear, U) /\ Kept(h.mem, clear.mem, U)
      /\ clear.brk = h.brk /\ clear.exited = h.exited
  BY UnlinkStep
<1> HIDE DEF clear
<1>4. clear.mem[b] = h.mem[b]
  BY <1>3 DEF Kept
<1>5. Following(clear.mem, b) = Following(h.mem, b) /\ FooterOf(clear.mem, b) = FooterOf(h.mem, b)
  BY <1>4, SameSize
<1>6. Widened(h, clear, U, b)
  <2>1. Kept(h.mem, clear.mem, U \ {b})
    BY <1>3, KeptLess
  <2>2. \A x \in Addresses : b + 12 <= x /\ x < FooterOf(h.mem, b) =>
                               x < FooterOf(clear.mem, b) /\ clear.mem[x] = h.mem[x]
    BY <1>3, <1>5 DEF Kept
  <2> QED
    BY <1>3, <2>1, <2>2 DEF Widened
<1>7. Widened(clear, wide, U, b)
  BY <1>3, AbsorbStep
<1> HIDE DEF wide
<1>8. ~IsLast(clear, b, need)
  BY <1>3, <1>5 DEF IsLast
<1>9. ~clear.exited /\ HeapOf(wide, U) /\ ~wide.exited
  BY <1>3, <1>7 DEF Widened
<1>a. Resized(clear, U, b, size, a)
  <2>1. CASE Size(clear.mem, b) > need + OVERHEAD
    <3>1. a = Same(Shrink(clear, b, need), b + PAYLOAD)
      BY <1>2, <2>1 DEF Resize
    <3> QED
      BY <1>3, <1>9, <2>1, <3>1, ShrinkResized
  <2>2. CASE ~(Size(clear.mem, b) > need + OVERHEAD)
    <3>1. CASE NextFree(clear.mem, b) /\ Size(wide.mem, b) > need + OVERHEAD
      <4>1. a = Same(Shrink(wide, b, need), b + PAYLOAD)
        BY <1>2, <1>8, <2>2, <3>1 DEF Resize
      <4>2. Resized(wide, U, b, size, a)
        BY <1>9, <3>1, <4>1, ShrinkResized
      <4> QED
        BY <1>7, <4>2, WidenedResized
    <3>2. CASE ~(NextFree(clear.mem, b) /\ Size(wide.mem, b) > need + OVERHEAD)
      <4>1. a = MoveTo(MmMalloc(wide, size), b + PAYLOAD, size)
        BY <1>2, <1>8, <2>2, <3>2 DEF Resize
      <4>2. Resized(wide, U, b, size, a)
        BY <1>9, <4>1, MoveStep
      <4> QED
        BY <1>7, <4>2, WidenedResized
    <3> QED
      BY <3>1, <3>2
  <2> QED
    BY <2>1, <2>2
<1>b. Resized(h, U, b, size, a)
  BY <1>6, <1>a, WidenedResized
<1> QED
  BY <1>b DEF a

-----------------------------------------------------------------------------
(* mm_init().                                                                *)

\* Clearing one listed block leaves the links of the others.
Separate(m, F) ==
  \A y \in F : \A m2 \in [Addresses -> Nat] : m2[y] = m[y] =>
     /\ ClearBlock(m2, y) \in [Addresses -> Nat]
     /\ \A x \in F \ {y} : /\ ClearBlock(m2, y)[x] = m2[x]
                           /\ ClearBlock(m2, y)[x + NEXT] = m2[x + NEXT]

\* The states of the loop that clears the listed blocks: those still ahead are untouched.
Cleared(m, F, r) ==
  {s \in [mem : [Addresses -> Nat], at : Ring(F)] :
     \A x \in F : s.at # ListHead /\ r[s.at] <= r[x] =>
                    s.mem[x] = m[x] /\ s.mem[x + NEXT] = m[x + NEXT]}

\* A state of that loop, from what it has left alone.
LEMMA ClearAt ==
  ASSUME NEW m, NEW F, NEW r, NEW m2 \in [Addresses -> Nat], NEW z \in Ring(F),
         \A x \in F : z # ListHead /\ r[z] <= r[x] => m2[x] = m[x] /\ m2[x + NEXT] = m[x + NEXT]
  PROVE  [mem |-> m2, at |-> z] \in Cleared(m, F, r)
<1> DEFINE s == [mem |-> m2, at |-> z]
<1>1. s \in [mem : [Addresses -> Nat], at : Ring(F)] /\ s.mem = m2 /\ s.at = z
  OBVIOUS
<1> HIDE DEF s
<1>2. s \in Cleared(m, F, r)
  BY <1>1 DEF Cleared
<1> QED
  BY <1>2 DEF s

\* One turn of the loop: clear_block() of one block leaves those ahead alone.
LEMMA ClearNextIs ==
  ASSUME NEW m, NEW F, NEW r, Linked(m, F, r), ListHead \notin F, Separate(m, F),
         NEW s \in Cleared(m, F, r)
  PROVE  ClearNext(s) \in Cleared(m, F, r)
<1> DEFINE y == s.at
           m3 == ClearBlock(s.mem, y)
           z == s.mem[y + NEXT]
<1>1. y \in Ring(F) /\ s.mem \in [Addresses -> Nat]
      /\ \A x \in F : y # ListHead /\ r[y] <= r[x] => s.mem[x] = m[x] /\ s.mem[x + NEXT] = m[x + NEXT]
  BY DEF Cleared
<1>2. CASE y = ListHead
  BY <1>2 DEF ClearNext
<1>3. CASE y # ListHead
  <2>1. y \in F
    BY <1>1, <1>3 DEF Ring
  <2>2. r \in [Ring(F) -> Nat] /\ \A x \in F : x \in Ring(F)
    BY DEF Linked, Ring
  <2>3. r[y] <= r[y]
    BY <2>1, <2>2
  <2>4. s.mem[y] = m[y] /\ z = m[y + NEXT]
    BY <1>1, <1>3, <2>1, <2>3
  <2>5. z \in Ring(F) /\ (z # ListHead => r[y] < r[z])
    BY <1>1, <2>4 DEF Linked
  <2>6. m3 \in [Addresses -> Nat]
        /\ \A x \in F \ {y} : m3[x] = s.mem[x] /\ m3[x + NEXT] = s.mem[x + NEXT]
    BY <1>1, <2>1, <2>4 DEF Separate
  <2>7. ClearNext(s) = [mem |-> m3, at |-> z]
    BY <1>3 DEF ClearNext
  <2> HIDE DEF m3, z, y
  <2>8. ASSUME NEW x \in F, z # ListHead, r[z] <= r[x]
        PROVE  m3[x] = m[x] /\ m3[x + NEXT] = m[x + NEXT]
    <3>1. r[y] \in Nat /\ r[z] \in Nat /\ r[x] \in Nat
      BY <1>1, <2>2, <2>5
    <3>2. r[y] < r[x] /\ r[y] <= r[x]
      BY <2>5, <2>8, <3>1
    <3>3. x # y
      BY <3>1, <3>2
    <3> QED
      BY <1>1, <1>3, <2>6, <3>2, <3>3
  <2> QED
    BY <2>5, <2>6, <2>7, <2>8, ClearAt
<1> QED
  BY <1>2, <1>3

\* The loop of mm_init() over what an earlier trace left only writes words of the heap.
LEMMA ClearListedIs ==
  ASSUME NEW m \in [Addresses -> Nat], NEW F, NEW r, Linked(m, F, r), ListHead \notin F, Separate(m, F)
  PROVE  ClearListed(m) \in [Addresses -> Nat]
<1> DEFINE K == MaxBlocks
           S == Cleared(m, F, r)
           s0 == [mem |-> m, at |-> m[ListHead + NEXT]]
           g == [s \in S |-> ClearNext(s)]
           rec(f) == [n \in 0 .. K |-> IF n = 0 THEN s0 ELSE ClearNext(f[n - 1])]
<1>1. K \in Nat
  BY Bounds
<1> HIDE DEF K
<1>2. s0 \in S
  <2>1. m[ListHead + NEXT] \in Ring(F)
    BY DEF Linked, Ring
  <2> QED
    BY <2>1, ClearAt
<1>3. g \in [S -> S]
  BY ClearNextIs
<1>4. PICK f \in [0 .. K -> S] : Iterate(f, K, s0, g)
  <2> HIDE DEF g, S, s0
  <2> QED
    BY <1>1, <1>2, <1>3, IterateExists
<1> HIDE DEF S, s0
<1>5. f = rec(f)
  <2>1. ASSUME NEW n \in 0 .. K PROVE f[n] = IF n = 0 THEN s0 ELSE ClearNext(f[n - 1])
    <3>1. CASE n = 0
      BY <1>4, <3>1 DEF Iterate
    <3>2. CASE n # 0
      <4>1. n \in 1 .. K /\ n - 1 \in 0 .. K
        BY <1>1, <3>2
      <4> QED
        BY <1>4, <3>2, <4>1 DEF Iterate
    <3> QED
      BY <3>1, <3>2
  <2> QED
    BY <2>1
<1> DEFINE w == CHOOSE f1 : f1 = rec(f1)
<1>6. ClearLoop(m) = w
  BY DEF ClearLoop, K, s0
<1>7. w = rec(w)
  BY <1>5
<1> HIDE DEF w
<1>8. \A n \in 0 .. K : w[n] = IF n = 0 THEN s0 ELSE ClearNext(w[n - 1])
  BY <1>7
<1>9. \A n \in 0 .. K : w[n] \in S
  <2> DEFINE T == {n \in 0 .. K : w[n] \in S}
  <2>1. 0 \in T
    BY <1>1, <1>2, <1>8
  <2>2. ASSUME NEW n \in 0 .. K, n \in T, n < K PROVE n + 1 \in T
    <3>1. n + 1 \in 0 .. K /\ (n + 1) - 1 = n /\ n + 1 # 0
      BY <1>1, <2>2
    <3>2. w[n + 1] = ClearNext(w[n])
      BY <1>8, <3>1
    <3>3. ClearNext(w[n]) \in S
      BY <2>2, ClearNextIs DEF S
    <3> QED
      BY <3>1, <3>2, <3>3
  <2> HIDE DEF T
  <2>3. \A n \in 0 .. K : n \in T
    BY <1>1, <2>1, <2>2, UpTo
  <2> QED
    BY <2>3 DEF T
<1>a. w[K] \in S
  BY <1>1, <1>9
<1>b. ClearListed(m) = w[K].mem
  BY <1>6 DEF ClearListed, K
<1> QED
  BY <1>a, <1>b DEF S, Cleared

\* Free blocks do not overlap.
LEMMA FreeSeparate ==
  ASSUME NEW m, NEW top, NEW B, Shape(m, top, B)
  PROVE  Separate(m, FreeIn(m, top, B))
<1> DEFINE F == FreeIn(m, top, B)
<1> SUFFICES ASSUME NEW y \in F, NEW m2 \in [Addresses -> Nat], m2[y] = m[y]
             PROVE  /\ ClearBlock(m2, y) \in [Addresses -> Nat]
                    /\ \A x \in F \ {y} : /\ ClearBlock(m2, y)[x] = m2[x]
                                          /\ ClearBlock(m2, y)[x + NEXT] = m2[x + NEXT]
  BY DEF Separate
<1> DEFINE m3 == ClearBlock(m2, y)
<1>1. y \in B \ {top} /\ \A x \in F : x \in B \ {top}
  BY DEF FreeIn
<1>2. /\ m3 \in [Addresses -> Nat]
      /\ \A a \in Addresses \ {y, y + 4, y + 8, Following(m, y) - 4} : m3[a] = m2[a]
  BY <1>1, ClearStep
<1> HIDE DEF m3, F
<1>3. ASSUME NEW x \in F \ {y} PROVE m3[x] = m2[x] /\ m3[x + NEXT] = m2[x + NEXT]
  <2> DEFINE e == Following(m, y)
             d == Following(m, x)
  <2>1. x \in B \ {top} /\ x # y
    BY <1>1, <1>3
  <2>2. x \in Nat /\ y \in Nat /\ e \in Nat /\ d \in Nat /\ y + 16 <= e /\ x + 16 <= d
        /\ x \in Addresses /\ x + 8 \in Addresses /\ (x < y => d <= y) /\ (y < x => e <= x)
    BY <1>1, <2>1, Geometry
  <2> HIDE DEF e, d
  <2>3. x \notin {y, y + 4, y + 8, e - 4} /\ x + 8 \notin {y, y + 4, y + 8, e - 4}
    BY <2>1, <2>2
  <2> QED
    BY <1>2, <2>2, <2>3 DEF NEXT, e
<1> QED
  BY <1>2, <1>3 DEF m3, F

\* What mem_reset_brk() may find: the heap of mem_init() or one that the allocator has left.
Resettable(h) == h = Fresh \/ \E U : HeapOf(h, U)

\* The list that mm_init() clears can be walked in both cases.
LEMMA ResettableCleared ==
  ASSUME NEW h, Resettable(h)
  PROVE  ClearListed(h.mem) \in [Addresses -> Nat]
<1>1. CASE h = Fresh
  <2> DEFINE m == h.mem
             F == {}
             r == [x \in {ListHead} |-> 0]
  <2>1. m = [a \in Addresses |-> IF a \in {ListHead + PREV, ListHead + NEXT} THEN ListHead ELSE 0]
    BY <1>1 DEF Fresh
  <2>2. m \in [Addresses -> Nat]
    BY <2>1 DEF ListHead
  <2>3. {8, 12} \subseteq Addresses /\ ListHead = 4 /\ PREV = 4 /\ NEXT = 8
    BY AddressIs DEF ListHead, PREV, NEXT
  <2>4. m[ListHead + PREV] = ListHead /\ m[ListHead + NEXT] = ListHead
    BY <2>1, <2>3
  <2>5. Ring(F) = {ListHead}
    BY DEF Ring
  <2>6. r \in [{ListHead} -> Nat] /\ r[ListHead] = 0
    OBVIOUS
  <2> HIDE DEF m, F, r
  <2>7. Linked(m, F, r)
    BY <2>4, <2>5, <2>6 DEF Linked
  <2>8. ListHead \notin F /\ Separate(m, F)
    BY DEF F, Separate
  <2> QED
    BY <2>2, <2>7, <2>8, ClearListedIs DEF m
<1>2. CASE \E U : HeapOf(h, U)
  <2>1. PICK B, r : Pool(h.mem, h.brk - WORD, B, r, {})
    BY <1>2 DEF HeapOf
  <2> DEFINE m == h.mem
             top == h.brk - WORD
             F == FreeIn(m, top, B)
  <2>2. Shape(m, top, B) /\ Linked(m, F, r) /\ m \in [Addresses -> Nat]
    <3>1. F \ {} = F
      OBVIOUS
    <3> QED
      BY <2>1, <3>1 DEF Pool, Shape
  <2>3. ListHead \notin F
    BY <2>2, Geometry DEF FreeIn, ListHead
  <2>4. Separate(m, F)
    BY <2>2, FreeSeparate
  <2> HIDE DEF F, m
  <2> QED
    BY <2>2, <2>3, <2>4, ClearListedIs DEF m
<1> QED
  BY <1>1, <1>2 DEF Resettable

\* Nothing is to be merged in an empty list.
LEMMA CoalesceNothing ==
  ASSUME NEW m \in [Addresses -> Nat], m[ListHead + NEXT] = ListHead
  PROVE  CoalesceAll(m) = m
<1> DEFINE K == MaxVisits
           s0 == [mem |-> m, at |-> m[ListHead + NEXT]]
           rec(f) == [n \in 0 .. K |-> IF n = 0 THEN s0 ELSE CoalesceNext(f[n - 1])]
           f0 == [n \in 0 .. K |-> s0]
<1>1. K \in Nat
  BY Bounds
<1>2. s0.at = ListHead /\ s0.mem = m /\ CoalesceNext(s0) = s0
  BY DEF CoalesceNext
<1> HIDE DEF K, s0
<1>3. f0 = rec(f0)
  <2>1. ASSUME NEW n \in 0 .. K PROVE s0 = IF n = 0 THEN s0 ELSE CoalesceNext(f0[n - 1])
    <3>1. CASE n = 0
      BY <3>1
    <3>2. CASE n # 0
      <4>1. n - 1 \in 0 .. K
        BY <1>1, <3>2
      <4> QED
        BY <1>2, <3>2, <4>1
    <3> QED
      BY <3>1, <3>2
  <2> QED
    BY <2>1
<1> DEFINE w == CHOOSE f1 : f1 = rec(f1)
<1>6. CoalesceLoop(m) = w
  BY DEF CoalesceLoop, K, s0
<1>7. w = rec(w)
  BY <1>3
<1> HIDE DEF w
<1>8. \A n \in 0 .. K : w[n] = IF n = 0 THEN s0 ELSE CoalesceNext(w[n - 1])
  BY <1>7
<1>9. \A n \in 0 .. K : w[n] = s0
  <2> DEFINE T == {n \in 0 .. K : w[n] = s0}
  <2>1. 0 \in T
    BY <1>1, <1>8
  <2>2. ASSUME NEW n \in 0 .. K, n \in T, n < K PROVE n + 1 \in T
    <3>1. n + 1 \in 0 .. K /\ (n + 1) - 1 = n /\ n + 1 # 0
      BY <1>1, <2>2
    <3>2. w[n + 1] = CoalesceNext(w[n])
      BY <1>8, <3>1
    <3> QED
      BY <1>2, <2>2, <3>1, <3>2
  <2> HIDE DEF T
  <2>3. \A n \in 0 .. K : n \in T
    BY <1>1, <2>1, <2>2, UpTo
  <2> QED
    BY <2>3 DEF T
<1> DEFINE last == CHOOSE k \in 0 .. K : w[k].at = ListHead \/ k = K
<1>a. last \in 0 .. K
  <2>1. K \in 0 .. K
    BY <1>1
  <2> QED
    BY <2>1
<1>b. CoalesceAll(m) = w[last].mem
  BY <1>6 DEF CoalesceAll, K
<1> HIDE DEF last
<1> QED
  BY <1>2, <1>9, <1>a, <1>b

\* Heaps and their updates.
Heap(m, brk, exited) == [mem |-> m, brk |-> brk, exited |-> exited]
WithMem(h, m) == [h EXCEPT !.mem = m]
WithBrk(h, brk) == [h EXCEPT !.brk = brk]

\* mem_reset_brk() and mm_init() give one free block, whatever the heap held.
LEMMA MmInitIs ==
  ASSUME NEW h, Resettable(h), ~h.exited
  PROVE  HeapOf(MmInit(h), {}) /\ ~MmInit(h).exited
<1> DEFINE m == ClearListed(h.mem)
           m1 == Prologue(EmptyList(m))
           h1 == [Sbrk(ResetBrk(h), First - HeapLo) EXCEPT !.mem = Prologue(EmptyList(ClearListed(@)))]
           s == Chunk - 4
           h2 == MmInit(h)
<1>1. m \in [Addresses -> Nat]
  BY ResettableCleared
<1>2. {8, 12, 16, 20, 24} \subseteq Addresses /\ MaxAddr \in Nat /\ MaxAddr = 16 + MaxHeap
      /\ ListHead = 4 /\ HeapLo = 16 /\ First = 24 /\ WORD = 4 /\ PREV = 4 /\ NEXT = 8 /\ PAYLOAD = 12
  BY AddressIs DEF ListHead, HeapLo, First, WORD, PREV, NEXT, MaxAddr, PAYLOAD
<1>3. /\ Chunk \in Nat /\ Chunk % 4 = 0 /\ Chunk > 16 /\ Chunk + 8 <= MaxHeap /\ MaxHeap \in Nat
  BY HeapAssumption
<1>4. s \in Nat /\ s % 4 = 0 /\ s >= 16 /\ 24 + s <= MaxAddr
  BY <1>2, <1>3
<1> HIDE DEF m
<1>5. /\ m1 \in [Addresses -> Nat] /\ m1[8] = 4 /\ m1[12] = 4 /\ m1[16] = 9 /\ m1[20] = 8
  <2>1. m1 = [[m EXCEPT ![8] = 4, ![12] = 4] EXCEPT ![16] = 9, ![20] = 8]
    BY DEF Prologue, EmptyList, ListHead, HeapLo, WORD, PREV, NEXT
  <2> HIDE DEF m1
  <2> QED
    BY <1>1, <1>2, <2>1
<1>6. h = [mem |-> h.mem, brk |-> h.brk, exited |-> h.exited] /\ h.exited \in BOOLEAN
  <2>1. CASE h = Fresh
    BY <2>1 DEF Fresh
  <2>2. CASE \E U : HeapOf(h, U)
    BY <2>2 DEF HeapOf, Heaps
  <2> QED
    BY <2>1, <2>2 DEF Resettable
<1> DEFINE no == FALSE
<1> HIDE DEF no
<1>r. /\ \A x, y, z, v : WithMem(Heap(x, y, z), v) = Heap(v, y, z)
      /\ \A x, y, z, v : WithBrk(Heap(x, y, z), v) = Heap(x, v, z)
  BY DEF Heap, WithMem, WithBrk
<1>s. \A x, y, z : Heap(x, y, z).mem = x /\ Heap(x, y, z).brk = y /\ Heap(x, y, z).exited = z
  BY DEF Heap
<1>7. Heap(m1, 24, no) = h1
  <2> DEFINE p == h.mem
             q == h.brk
             hr == ResetBrk(h)
             ha == Sbrk(hr, First - HeapLo)
             P(x) == Prologue(EmptyList(ClearListed(x)))
  <2>1. Heap(p, q, no) = h
    BY <1>6 DEF Heap, no
  <2>2. WithBrk(h, HeapLo) = hr
    BY DEF ResetBrk, WithBrk
  <2>3. WithBrk(hr, hr.brk + (First - HeapLo)) = ha
    BY DEF Sbrk, WithBrk
  <2>4. WithMem(ha, P(ha.mem)) = h1
    BY DEF WithMem
  <2>5. P(p) = m1
    BY DEF m
  <2> HIDE DEF p, q, P, hr, ha, h1, m1
  <2>6. Heap(p, 16, no) = hr
    BY <1>2, <1>r, <2>1, <2>2
  <2>7. Heap(p, 24, no) = ha
    <3>1. hr.brk + (First - HeapLo) = 24
      BY <1>2, <1>s, <2>6
    <3> QED
      BY <1>r, <2>3, <2>6, <3>1
  <2>8. ha.mem = p
    BY <1>s, <2>7
  <2> QED
    BY <1>r, <2>4, <2>5, <2>7, <2>8
<1>8. h2 = ExpandHeap(h1, Chunk)
  BY DEF MmInit
<1> HIDE DEF m1, h1, h2
<1>9. CoalesceAll(m1) = m1
  BY <1>2, <1>5, CoalesceNothing
<1>a. [h1 EXCEPT !.mem = CoalesceAll(@)] = h1
  <2>1. [h1 EXCEPT !.mem = CoalesceAll(@)] = WithMem(h1, CoalesceAll(h1.mem))
    BY DEF WithMem
  <2>2. h1.mem = m1
    BY <1>7, <1>s
  <2> QED
    BY <1>7, <1>9, <1>r, <2>1, <2>2
<1>b. ~SbrkFails(h1, Chunk)
  <2>1. h1.brk = 24
    BY <1>7, <1>s
  <2> QED
    BY <1>2, <1>3, <2>1 DEF SbrkFails
<1>c. h2 = Sbrk(AddBlock(h1, Chunk), Chunk)
  BY <1>8, <1>a, <1>b DEF ExpandHeap
<1> DEFINE top == 24
           zeroed == [a \in Addresses |-> IF a >= top /\ a < top + Chunk THEN 0 ELSE m1[a]]
           m2 == [zeroed EXCEPT ![top] = s, ![top + s - 4] = s, ![top + s] = 1]
           m3 == InsertToList(m2, top, ListHead)
           mv == [m1 EXCEPT ![top] = 1]
<1>d. Heap(m3, 24, no) = AddBlock(h1, Chunk)
  <2> DEFINE z == [a \in Addresses |-> IF a >= h1.brk /\ a < h1.brk + Chunk THEN 0 ELSE h1.mem[a]]
             b == IF h1.mem[h1.brk - WORD] = 1 THEN h1.brk - WORD ELSE h1.brk
             whole == h1.brk + Chunk - b
             W(x, y, u, v) == [z EXCEPT ![x] = v, ![y] = v, ![u] = 1]
  <2>1. AddBlock(h1, Chunk) = WithMem(h1,
          InsertToList(W(b, b + whole - 2 * WORD, b + whole - WORD, whole - WORD), b, ListHead))
    BY DEF AddBlock, WithMem
  <2>a. h1.mem = m1 /\ h1.brk = 24
    BY <1>7, <1>s
  <2>2. b = 24 /\ whole = Chunk
    BY <1>2, <1>3, <1>5, <2>a
  <2>3. z = zeroed
    BY <2>a
  <2> HIDE DEF b, whole, W
  <2>4. b + whole - 2 * WORD = top + s - 4 /\ b + whole - WORD = top + s /\ whole - WORD = s
    BY <1>2, <1>3, <2>2
  <2>5. AddBlock(h1, Chunk) = WithMem(h1, InsertToList(W(top, top + s - 4, top + s, s), top, ListHead))
    BY <2>1, <2>2, <2>4
  <2> HIDE DEF z, zeroed, s
  <2>6. W(top, top + s - 4, top + s, s) = m2
    BY <2>3 DEF W
  <2> HIDE DEF m2
  <2> QED
    BY <1>7, <1>r, <2>5, <2>6
<1>e. /\ m2 \in [Addresses -> Nat] /\ m2[top] = s /\ m2[top + s - 4] = s /\ m2[top + s] = 1
      /\ \A a \in Addresses : a < top => m2[a] = mv[a]
  <2>1. zeroed \in [Addresses -> Nat] /\ \A a \in Addresses : a < top => zeroed[a] = m1[a]
    <3>1. \A a \in Addresses : a \in Nat
      BY AddressIs
    <3> QED
      BY <1>5, <3>1
  <2>2. top \in Addresses /\ top + s - 4 \in Addresses /\ top + s \in Addresses
    <3>1. (24 + s) % 4 = 0 /\ (24 + s - 4) % 4 = 0
      BY <1>4
    <3> QED
      BY <1>2, <1>4, <3>1, AddressIs
  <2>3. top # top + s - 4 /\ top # top + s /\ top + s - 4 # top + s
    BY <1>4
  <2>4. \A a \in Addresses : a < top => mv[a] = m1[a] /\ a # top + s - 4 /\ a # top + s
    <3>1. \A a \in Addresses : a \in Nat
      BY AddressIs
    <3> QED
      BY <1>4, <1>5, <3>1
  <2> HIDE DEF zeroed, mv, s
  <2> QED
    BY <1>4, <2>1, <2>2, <2>3, <2>4
<1> DEFINE B == {24}
           r == [x \in {ListHead} |-> 0]
<1>f. Shape(mv, top, B) /\ FreeIn(mv, top, B) = {} /\ UsedIn(mv, top, B) = {}
  <2>1. mv \in [Addresses -> Nat] /\ mv[16] = 9 /\ mv[20] = 8 /\ mv[24] = 1
    BY <1>2, <1>5
  <2> HIDE DEF mv
  <2> QED
    BY <1>2, <2>1 DEF Shape, FreeIn, UsedIn
<1>g. Pool(mv, top, B, r, {})
  <2>1. mv[8] = 4 /\ mv[12] = 4
    BY <1>2, <1>5
  <2>2. Ring({}) = {ListHead}
    BY DEF Ring
  <2>3. r \in [{ListHead} -> Nat] /\ r[ListHead] = 0
    OBVIOUS
  <2> HIDE DEF mv, r
  <2>4. Linked(mv, {}, r)
    BY <1>2, <2>1, <2>2, <2>3 DEF Linked
  <2>5. FreeIn(mv, top, B) \ {} = {}
    BY <1>f
  <2> QED
    BY <1>f, <2>4, <2>5 DEF Pool
<1>h. Appended(mv, m3, top, B, s)
  <2> DEFINE t == 24
  <2>1. /\ Pool(mv, t, B, r, {}) /\ t + s <= MaxAddr /\ m2 \in [Addresses -> Nat]
        /\ m2[t] = s /\ m2[t + s - 4] = s /\ m2[t + s] = 1
        /\ \A a \in Addresses : a < t => m2[a] = mv[a]
    BY <1>4, <1>e, <1>g
  <2> HIDE DEF m2, mv, B, r, s, t
  <2>2. Appended(mv, InsertToList(m2, t, ListHead), t, B, s)
    BY <1>4, <2>1, AppendStep
  <2> QED
    BY <2>2 DEF t
<1>i. Heap(m3, 24 + Chunk, no) = h2
  <2> DEFINE ha == AddBlock(h1, Chunk)
  <2>1. WithBrk(ha, ha.brk + Chunk) = h2
    BY <1>c DEF Sbrk, WithBrk
  <2> HIDE DEF m3, ha
  <2>2. Heap(m3, 24, no) = ha
    BY <1>d DEF ha
  <2>3. ha.brk = 24
    BY <1>s, <2>2
  <2> QED
    BY <1>r, <2>1, <2>2, <2>3
<1> HIDE DEF m3, mv, B
<1>j. \E r2 : Pool(m3, top + s, B \cup {top + s}, r2, {}) /\ UsedIn(m3, top + s, B \cup {top + s}) = {}
  BY <1>f, <1>h DEF Appended
<1>k. h2 \in Heaps /\ h2.mem = m3 /\ h2.brk - WORD = top + s /\ h2.brk <= MaxAddr /\ h2.exited = no
  <2>1. m3 \in [Addresses -> Nat]
    BY <1>j DEF Pool, Shape
  <2> QED
    <3>1. h2.mem = m3 /\ h2.brk = 24 + Chunk /\ h2.exited = no
      BY <1>i, <1>s
    <3>2. h2 \in Heaps
      <4>1. \A x \in [Addresses -> Nat], y \in Nat : Heap(x, y, no) \in Heaps
        BY DEF Heaps, Heap, no
      <4>2. 24 + Chunk \in Nat
        BY <1>3
      <4> QED
        BY <1>i, <2>1, <4>1, <4>2
    <3> QED
      BY <1>2, <1>3, <3>1, <3>2
<1>l. HeapOf(h2, {})
  <2> DEFINE t == h2.brk - WORD
  <2>1. t = top + s
    BY <1>k
  <2> HIDE DEF s, t
  <2>2. \E r2 : Pool(h2.mem, t, B \cup {t}, r2, {}) /\ UsedIn(h2.mem, t, B \cup {t}) = {}
    BY <1>j, <1>k, <2>1
  <2> QED
    BY <1>k, <2>2 DEF HeapOf, t
<1> QED
  BY <1>k, <1>l DEF h2, no

-----------------------------------------------------------------------------
(* The walk over the sizes visits exactly the blocks.                        *)

\* From the n-th block on; the walk stays at the epilogue.
Walks(w, m, top, K) ==
  /\ w[0] = First
  /\ \A n \in 1 .. K : w[n] = IF w[n - 1] < top THEN Following(m, w[n - 1]) ELSE w[n - 1]

\* A walk over the sizes visits every block.
LEMMA WalkReaches ==
  ASSUME NEW m, NEW top, NEW B, Shape(m, top, B),
         NEW w \in [0 .. MaxBlocks -> B], Walks(w, m, top, MaxBlocks)
  PROVE  {w[n] : n \in 0 .. MaxBlocks} = B
<1> DEFINE K == MaxBlocks
<1>1. K \in Nat /\ MaxHeap \in Nat /\ MaxHeap < 16 * K /\ MaxAddr = 16 + MaxHeap
  BY Bounds DEF MaxAddr, HeapLo
<1> HIDE DEF K
<1>2. First \in B /\ First = 24 /\ \A b \in B : b \in Nat /\ 24 <= b /\ b <= top
  BY Geometry DEF Shape, First, HeapLo
<1>3. top \in Nat /\ top <= MaxAddr /\ top \in B
  BY Geometry DEF Shape
<1>4. \A b \in B : b < top => /\ Following(m, b) \in B /\ b + 16 <= Following(m, b)
                              /\ \A c \in B : b < c => Following(m, b) <= c
  <2> SUFFICES ASSUME NEW b \in B, b < top
               PROVE  /\ Following(m, b) \in B /\ b + 16 <= Following(m, b)
                      /\ \A c \in B : b < c => Following(m, b) <= c
    OBVIOUS
  <2>1. b \in B \ {top}
    BY <1>2, <1>3
  <2> QED
    BY <2>1, Geometry
<1>5. ASSUME NEW n \in 0 .. K, n < K
      PROVE  /\ n + 1 \in 0 .. K /\ w[n] \in B /\ w[n + 1] \in B
             /\ w[n + 1] = IF w[n] < top THEN Following(m, w[n]) ELSE w[n]
  <2>1. n + 1 \in 1 .. K /\ (n + 1) - 1 = n /\ n + 1 \in 0 .. K
    BY <1>1, <1>5
  <2> QED
    BY <2>1 DEF Walks, K
<1>6. \A n \in 0 .. K : \A c \in B : c <= w[n] => \E k \in 0 .. n : w[k] = c
  <2> DEFINE T == {n \in 0 .. K : \A c \in B : c <= w[n] => \E k \in 0 .. n : w[k] = c}
  <2>1. 0 \in T
    <3>1. w[0] = 24 /\ 0 \in 0 .. K /\ 0 \in 0 .. 0
      BY <1>1, <1>2 DEF Walks
    <3>2. \A c \in B : c <= w[0] => w[0] = c
      BY <1>2, <3>1
    <3> QED
      BY <3>1, <3>2
  <2>2. ASSUME NEW n \in 0 .. K, n \in T, n < K PROVE n + 1 \in T
    <3>1. n + 1 \in 0 .. K /\ w[n] \in B /\ w[n + 1] \in B
          /\ w[n + 1] = IF w[n] < top THEN Following(m, w[n]) ELSE w[n]
      BY <1>5, <2>2
    <3>2. ASSUME NEW c \in B, c <= w[n + 1] PROVE \E k \in 0 .. n + 1 : w[k] = c
      <4>1. CASE c <= w[n]
        <5>1. PICK k \in 0 .. n : w[k] = c
          BY <2>2, <4>1
        <5>2. k \in 0 .. n + 1
          OBVIOUS
        <5> QED
          BY <5>1, <5>2
      <4>2. CASE ~(c <= w[n])
        <5>a. w[n] \in Nat /\ c \in Nat /\ w[n + 1] \in Nat /\ c <= top
          BY <1>2, <3>1
        <5> DEFINE x == w[n]
        <5>b. x < c
          <6>1. x \in Nat /\ ~(c <= x)
            BY <4>2, <5>a
          <6> HIDE DEF x
          <6> QED
            BY <5>a, <6>1
        <5>1. w[n] \in Nat /\ c \in Nat /\ w[n + 1] \in Nat /\ w[n] < c /\ c <= top
          BY <5>a, <5>b
        <5>2. w[n] < top
          BY <1>3, <5>1
        <5>3. w[n + 1] = Following(m, w[n]) /\ Following(m, w[n]) <= c
          BY <1>4, <3>1, <5>1, <5>2
        <5>4. w[n + 1] = c
          BY <3>2, <5>1, <5>3
        <5>5. n + 1 \in 0 .. n + 1
          OBVIOUS
        <5> QED
          BY <5>4, <5>5
      <4> QED
        BY <4>1, <4>2
    <3> QED
      BY <3>1, <3>2
  <2> HIDE DEF T
  <2>3. \A n \in 0 .. K : n \in T
    BY <1>1, <2>1, <2>2, UpTo
  <2> QED
    BY <2>3 DEF T
<1>7. \A n \in 0 .. K : w[n] = top \/ w[n] >= 24 + 16 * n
  <2> DEFINE T == {n \in 0 .. K : w[n] = top \/ w[n] >= 24 + 16 * n}
  <2>1. 0 \in T
    <3>1. w[0] = 24 /\ 0 \in 0 .. K
      BY <1>1, <1>2 DEF Walks
    <3> QED
      BY <3>1
  <2>2. ASSUME NEW n \in 0 .. K, n \in T, n < K PROVE n + 1 \in T
    <3>1. n + 1 \in 0 .. K /\ w[n] \in B /\ w[n + 1] \in B
          /\ w[n + 1] = IF w[n] < top THEN Following(m, w[n]) ELSE w[n]
      BY <1>5, <2>2
    <3>2. w[n] \in Nat /\ w[n + 1] \in Nat /\ w[n] <= top
      BY <1>2, <3>1
    <3>3. w[n] = top \/ w[n] >= 24 + 16 * n
      BY <2>2
    <3>4. CASE w[n] < top
      <4>1. w[n + 1] = Following(m, w[n]) /\ w[n] + 16 <= Following(m, w[n])
        BY <1>4, <3>1, <3>4
      <4>2. w[n + 1] >= 24 + 16 * (n + 1)
        BY <1>3, <3>2, <3>3, <3>4, <4>1
      <4> QED
        BY <3>1, <4>2
    <3>5. CASE ~(w[n] < top)
      <4>1. w[n + 1] = top
        BY <1>3, <3>1, <3>2, <3>5
      <4> QED
        BY <3>1, <4>1
    <3> QED
      BY <3>4, <3>5
  <2> HIDE DEF T
  <2>3. \A n \in 0 .. K : n \in T
    BY <1>1, <2>1, <2>2, UpTo
  <2> QED
    BY <2>3 DEF T
<1>8. w[K] = top
  <2>1. K \in 0 .. K /\ w[K] \in B
    BY <1>1 DEF K
  <2>2. w[K] = top \/ w[K] >= 24 + 16 * K
    BY <1>7, <2>1
  <2>3. w[K] \in Nat /\ w[K] <= top
    BY <1>2, <2>1
  <2> QED
    BY <1>1, <1>3, <2>2, <2>3
<1>9. \A c \in B : \E k \in 0 .. K : w[k] = c
  <2>1. K \in 0 .. K
    BY <1>1
  <2> QED
    BY <1>2, <1>6, <1>8, <2>1
<1>a. \A n \in 0 .. K : w[n] \in B
  BY DEF K
<1> QED
  BY <1>9, <1>a DEF K

\* The blocks that the property HeapExact speaks of are those of the proof.
LEMMA BlockStartsAre ==
  ASSUME NEW B, Shape(heap.mem, Epilogue, B)
  PROVE  BlockStarts = B
<1> DEFINE K == MaxBlocks
           top == Epilogue
           m == heap.mem
           G(b) == IF b \in Addresses /\ b < top THEN Following(m, b) ELSE b
           g == [b \in B |-> G(b)]
           rec(f) == [n \in 0 .. K |-> IF n = 0 THEN First ELSE G(f[n - 1])]
           w == CHOOSE f : f = rec(f)
<1>1. K \in Nat
  BY Bounds
<1>2. First \in B /\ \A b \in B : b \in Addresses /\ G(b) \in B
  <2>1. First \in B
    BY DEF Shape
  <2>2. ASSUME NEW b \in B PROVE b \in Addresses /\ G(b) \in B
    <3>1. b \in Addresses /\ b <= top /\ b \in Nat /\ top \in Nat
      BY Geometry
    <3>2. CASE b < top
      <4>1. b \in B \ {top}
        BY <3>1, <3>2
      <4>2. Following(m, b) \in B
        BY <4>1, Geometry
      <4> QED
        BY <3>1, <4>2
    <3>3. CASE ~(b < top)
      BY <3>1, <3>3
    <3> QED
      BY <3>2, <3>3
  <2> QED
    BY <2>1, <2>2
<1>3. BlockStarts = {w[n] : n \in 0 .. K}
  BY DEF BlockStarts
<1> HIDE DEF K, top, m, G
<1>4. g \in [B -> B]
  BY <1>2
<1>5. PICK f \in [0 .. K -> B] : Iterate(f, K, First, g)
  <2> HIDE DEF g
  <2> QED
    BY <1>1, <1>2, <1>4, IterateExists
<1>6. f = rec(f)
  <2>1. ASSUME NEW n \in 0 .. K PROVE f[n] = IF n = 0 THEN First ELSE G(f[n - 1])
    <3>1. CASE n = 0
      BY <1>5, <3>1 DEF Iterate
    <3>2. CASE n # 0
      <4>1. n \in 1 .. K /\ n - 1 \in 0 .. K
        BY <1>1, <3>2
      <4> QED
        BY <1>5, <3>2, <4>1 DEF Iterate
    <3> QED
      BY <3>1, <3>2
  <2> QED
    BY <2>1
<1>7. w = rec(w)
  BY <1>6
<1> HIDE DEF w
<1>8. \A n \in 0 .. K : w[n] = IF n = 0 THEN First ELSE G(w[n - 1])
  BY <1>7
<1>9. \A n \in 0 .. K : w[n] \in B
  <2> DEFINE T == {n \in 0 .. K : w[n] \in B}
  <2>1. 0 \in T
    BY <1>1, <1>2, <1>8
  <2>2. ASSUME NEW n \in 0 .. K, n \in T, n < K PROVE n + 1 \in T
    <3>1. n + 1 \in 0 .. K /\ (n + 1) - 1 = n /\ n + 1 # 0
      BY <1>1, <2>2
    <3>2. w[n + 1] = G(w[n])
      BY <1>8, <3>1
    <3> QED
      BY <1>2, <2>2, <3>1, <3>2
  <2> HIDE DEF T
  <2>3. \A n \in 0 .. K : n \in T
    BY <1>1, <2>1, <2>2, UpTo
  <2> QED
    BY <2>3 DEF T
<1>a. w \in [0 .. K -> B]
  BY <1>7, <1>9
<1>b. Walks(w, m, top, K)
  <2>1. w[0] = First
    BY <1>1, <1>8
  <2>2. ASSUME NEW n \in 1 .. K
        PROVE  w[n] = IF w[n - 1] < top THEN Following(m, w[n - 1]) ELSE w[n - 1]
    <3>1. n \in 0 .. K /\ n # 0 /\ n - 1 \in 0 .. K
      BY <1>1
    <3>2. w[n] = G(w[n - 1]) /\ w[n - 1] \in Addresses
      BY <1>2, <1>8, <1>9, <3>1
    <3> QED
      BY <3>2 DEF G
  <2> QED
    BY <2>1, <2>2 DEF Walks
<1>c. {w[n] : n \in 0 .. K} = B
  BY <1>a, <1>b, WalkReaches DEF K, m, top
<1> QED
  BY <1>3, <1>c

\* A sequence without repetitions has as many elements as its length.
LEMMA OneEach ==
  ASSUME NEW F, NEW list \in Seq(F), \A j, k \in 1 .. Len(list) : list[j] = list[k] => j = k
  PROVE  Cardinality({list[k] : k \in DOMAIN list}) = Len(list)
<1> DEFINE n == Len(list)
           T == {list[k] : k \in 1 .. n}
           f == [k \in 1 .. n |-> list[k]]
<1>1. n \in Nat /\ DOMAIN list = 1 .. n
  OBVIOUS
<1> HIDE DEF n
<1>2. f \in Bijection(1 .. n, T)
  <2>1. f \in [1 .. n -> T] /\ \A k \in 1 .. n : f[k] = list[k]
    OBVIOUS
  <2>2. \A t \in T : \E k \in 1 .. n : f[k] = t
    BY <2>1
  <2>3. \A j, k \in 1 .. n : f[j] = f[k] => j = k
    BY <2>1 DEF n
  <2> HIDE DEF f, T
  <2> QED
    BY <2>1, <2>2, <2>3 DEF Bijection, Injection, Surjection, IsInjective
<1>3. ExistsBijection(1 .. n, T)
  BY <1>2 DEF ExistsBijection
<1>4. Cardinality(T) = n
  BY <1>1, <1>3, FS_CountingElements
<1> QED
  BY <1>1, <1>4 DEF n

\* The heap part of HeapExact.
LEMMA TiledIs ==
  ASSUME NEW U, HeapOf(heap, U)
  PROVE  /\ HeapTiled /\ FreeListExact
         /\ {b \in BlockStarts \ {Epilogue} : Allocated(heap.mem, b)} = U
         /\ IsFiniteSet(U)
<1> DEFINE m == heap.mem
           top == Epilogue
           list == FreeList(m)
<1>1. PICK B, r : Pool(m, top, B, r, {}) /\ UsedIn(m, top, B) = U
  BY DEF HeapOf, Epilogue
<1>2. Shape(m, top, B)
  BY <1>1 DEF Pool
<1>3. BlockStarts = B
  BY <1>2, BlockStartsAre
<1>4. HeapTiled
  <2>1. \A b \in B \ {top} : b < top
    BY <1>2, Geometry
  <2> QED
    BY <1>2, <1>3, <2>1 DEF HeapTiled, Shape
<1>5. IsListOf(m, FreeIn(m, top, B), list)
  BY <1>1, FreeListIs
<1> HIDE DEF list
<1>6. FreeListExact
  <2> DEFINE F == FreeIn(m, top, B)
             T == {list[k] : k \in DOMAIN list}
  <2>1. list \in Seq(F) /\ DOMAIN list = 1 .. Len(list)
    BY <1>5 DEF IsListOf
  <2>2. T = F
    <3>1. \A k \in DOMAIN list : list[k] \in F
      BY <2>1
    <3>2. \A x \in F : \E k \in DOMAIN list : list[k] = x
      BY <1>5, <2>1 DEF IsListOf
    <3> HIDE DEF F
    <3> QED
      BY <3>1, <3>2
  <2>3. Cardinality(T) = Len(list)
    <3>1. \A j, k \in 1 .. Len(list) : list[j] = list[k] => j = k
      BY <1>5 DEF IsListOf
    <3> HIDE DEF F
    <3> QED
      BY <2>1, <3>1, OneEach
  <2>4. F = {b \in BlockStarts \ {Epilogue} : ~Allocated(m, b)}
    BY <1>3 DEF FreeIn
  <2>5. \A k \in DOMAIN list : m[list[k] + PREV] = IF k = 1 THEN ListHead ELSE list[k - 1]
    BY <1>5, <2>1 DEF IsListOf
  <2> HIDE DEF F
  <2> QED
    BY <2>2, <2>3, <2>4, <2>5 DEF FreeListExact, list
<1>7. {b \in BlockStarts \ {Epilogue} : Allocated(m, b)} = U
  BY <1>1, <1>3 DEF UsedIn
<1>8. IsFiniteSet(U)
  <2>1. U \subseteq 0 .. MaxAddr
    <3>1. \A b \in U : b \in Addresses
      BY <1>1, <1>2, Geometry DEF UsedIn
    <3> QED
      BY <3>1, AddressIs
  <2>2. MaxAddr \in Nat
    BY AddressIs
  <2>3. IsFiniteSet(0 .. MaxAddr)
    BY <2>2, FS_Interval
  <2> QED
    BY <2>1, <2>3, FS_Subset
<1> QED
  BY <1>4, <1>6, <1>7, <1>8

-----------------------------------------------------------------------------
(* The blocks that the driver holds, as functions of its tables.             *)

\* The blocks of some indices.
OwnedIn(bl, I) == {bl[i] - PAYLOAD : i \in I}

\* Each index has a block of its own that is large enough for it.
Sized(h, I, bl, bs) ==
  /\ HeapOf(h, OwnedIn(bl, I))
  /\ \A i \in I : /\ bl[i] \in Nat /\ bl[i] > PAYLOAD /\ bs[i] \in Nat /\ bs[i] > 0
                  /\ Size(h.mem, bl[i] - PAYLOAD) >= bs[i] + 16
  /\ \A i, j \in I : bl[i] = bl[j] => i = j

\* Each block holds the pattern of its index.
Filled(h, I, bl, bs) == \A i \in I : Holds(h, bl[i], bs[i], i)

\* Where the payload of a block in use lies.
LEMMA InHeap ==
  ASSUME NEW h, NEW V, HeapOf(h, V), NEW b \in V
  PROVE  /\ b \in Nat /\ b % 4 = 0 /\ 24 <= b /\ Size(h.mem, b) \in Nat /\ h.brk \in Nat
         /\ b + Size(h.mem, b) <= h.brk - 4 /\ h.brk <= MaxAddr /\ MaxAddr \in Nat
         /\ FooterOf(h.mem, b) = b + Size(h.mem, b) - 4
         /\ \A c \in V : c < b => c + Size(h.mem, c) <= b
<1>1. PICK B, r : Pool(h.mem, h.brk - WORD, B, r, {}) /\ UsedIn(h.mem, h.brk - WORD, B) = V
  BY DEF HeapOf
<1> DEFINE top == h.brk - WORD
           e == Following(h.mem, b)
           v == Size(h.mem, b)
<1>2. Shape(h.mem, top, B) /\ b \in B \ {top} /\ \A c \in V : c \in B \ {top}
  BY <1>1 DEF Pool, UsedIn
<1>3. h.brk \in Nat /\ h.brk <= MaxAddr /\ MaxAddr \in Nat /\ WORD = 4
  BY AddressIs DEF HeapOf, Heaps, WORD
<1>4. /\ b \in Nat /\ b % 4 = 0 /\ 24 <= b /\ v \in Nat /\ e = b + v /\ e <= top
      /\ FooterOf(h.mem, b) = e - 4
  BY <1>2, Geometry
<1>5. ASSUME NEW c \in V, c < b PROVE c + Size(h.mem, c) <= b
  <2>1. c \in B \ {top} /\ b \in B
    BY <1>2
  <2>2. Following(h.mem, c) = c + Size(h.mem, c) /\ Following(h.mem, c) <= b
    BY <1>2, <1>5, <2>1, Geometry
  <2> QED
    BY <2>2
<1>6. top = h.brk - 4
  BY <1>3
<1> HIDE DEF top, e, v
<1>7. b + v <= h.brk - 4 /\ FooterOf(h.mem, b) = b + v - 4
  BY <1>3, <1>4, <1>6
<1> QED
  BY <1>3, <1>4, <1>5, <1>7 DEF v

\* A payload lies inside its block, in front of the footer.
LEMMA PayloadWords ==
  ASSUME NEW h, NEW V, HeapOf(h, V), NEW b \in V, NEW size \in Nat, Size(h.mem, b) >= size + 16
  PROVE  \A a \in Words(b + PAYLOAD, size) :
           a \in Addresses /\ a \in Nat /\ b + 12 <= a /\ a < b + 12 + size /\ a < FooterOf(h.mem, b)
<1> DEFINE v == Size(h.mem, b)
<1>1. /\ b \in Nat /\ b % 4 = 0 /\ 24 <= b /\ v \in Nat /\ h.brk \in Nat
      /\ b + v <= h.brk - 4 /\ h.brk <= MaxAddr /\ MaxAddr \in Nat /\ FooterOf(h.mem, b) = b + v - 4
  BY InHeap
<1>2. v >= size + 16
  OBVIOUS
<1> HIDE DEF v
<1> SUFFICES ASSUME NEW a \in Words(b + 12, size)
             PROVE  a \in Addresses /\ a \in Nat /\ b + 12 <= a /\ a < b + 12 + size /\ a < FooterOf(h.mem, b)
  BY DEF PAYLOAD
<1>3. b + 12 \in Nat
  BY <1>1
<1>4. a \in Nat /\ b + 12 <= a /\ a < b + 12 + size /\ (a - (b + 12)) % 4 = 0
  BY <1>3, WordsAre
<1>5. a < b + v - 4
  BY <1>1, <1>2, <1>4
<1>6. a <= MaxAddr /\ 4 <= a
  BY <1>1, <1>4, <1>5
<1>7. a % 4 = 0
  <2> DEFINE d == a - (b + 12)
             p == b + 12
  <2>1. d \in Int /\ d % 4 = 0 /\ p \in Int /\ d + p = a
    BY <1>1, <1>4
  <2>2. p % 4 = 0
    BY <1>1, Sums
  <2> HIDE DEF d, p
  <2>3. (d + p) % 4 = 0
    BY <2>1, <2>2, Sums
  <2> QED
    BY <2>1, <2>3
<1>8. a \in Addresses
  BY <1>4, <1>6, <1>7, AddressIs
<1> QED
  BY <1>1, <1>4, <1>5, <1>8

\* A payload that is kept holds what it held.
LEMMA HoldsKept ==
  ASSUME NEW h, NEW V, HeapOf(h, V), NEW c \in V, NEW size \in Nat, Size(h.mem, c) >= size + 16,
         NEW h2, NEW X, Kept(h.mem, h2.mem, X), c \in X, NEW i, Holds(h, c + PAYLOAD, size, i)
  PROVE  Holds(h2, c + PAYLOAD, size, i)
<1>1. ASSUME NEW a \in Words(c + PAYLOAD, size) PROVE h2.mem[a] = Pattern(i)
  <2>1. a \in Addresses /\ c + 12 <= a /\ a < FooterOf(h.mem, c)
    BY PayloadWords
  <2>2. h2.mem[a] = h.mem[a]
    BY <2>1 DEF Kept
  <2> QED
    BY <2>2 DEF Holds
<1> QED
  BY <1>1 DEF Holds

\* The tables after a call that has given block i the pointer p and a size.
Entered(bl, bs, bl2, bs2, i, p, size) ==
  /\ bl2[i] = p /\ bs2[i] = size
  /\ \A j \in Ids : j # i => bl2[j] = bl[j] /\ bs2[j] = bs[j]

\* What a call that gives block i a new pointer and size has done to the heap.
Placed(h, h2, I, bl, i, b2, size) ==
  /\ b2 \in Nat /\ b2 > 0 /\ b2 \notin OwnedIn(bl, I \ {i})
  /\ HeapOf(h2, OwnedIn(bl, I \ {i}) \cup {b2}) /\ Size(h2.mem, b2) >= size + 16
  /\ Kept(h.mem, h2.mem, OwnedIn(bl, I \ {i}))

\* Another block is where it was, and as large.
Spared(h, h2, I, bl, bs, i, b2, j) ==
  LET c == bl[j] - PAYLOAD
  IN  /\ c \in OwnedIn(bl, I \ {i}) /\ c \in OwnedIn(bl, I) /\ c # b2 /\ c \in Nat
      /\ c + PAYLOAD = bl[j] /\ Size(h.mem, c) >= bs[j] + 16 /\ h2.mem[c] = h.mem[c]
      /\ Size(h2.mem, c) = Size(h.mem, c) /\ bs[j] \in Nat /\ bs[j] > 0

\* A call on block i spares every other block.
LEMMA Others ==
  ASSUME NEW I \in SUBSET Ids, NEW h, NEW bl, NEW bs, Sized(h, I, bl, bs), NEW i \in Ids,
         NEW h2, NEW b2, NEW size, Placed(h, h2, I, bl, i, b2, size), NEW j \in I \ {i}
  PROVE  Spared(h, h2, I, bl, bs, i, b2, j)
<1> DEFINE c == bl[j] - PAYLOAD
<1>1. c \in OwnedIn(bl, I \ {i}) /\ c \in OwnedIn(bl, I)
  BY DEF OwnedIn
<1>2. bl[j] \in Nat /\ bl[j] > PAYLOAD /\ bs[j] \in Nat /\ bs[j] > 0 /\ Size(h.mem, c) >= bs[j] + 16
  BY DEF Sized
<1>3. c + PAYLOAD = bl[j] /\ c \in Nat
  BY <1>2 DEF PAYLOAD
<1> HIDE DEF c
<1>4. h2.mem[c] = h.mem[c] /\ c # b2
  BY <1>1 DEF Placed, Kept
<1>5. Size(h2.mem, c) = Size(h.mem, c)
  BY <1>4, SameSize
<1> QED
  BY <1>1, <1>2, <1>3, <1>4, <1>5 DEF c, Spared

\* The blocks of the tables after a call that has placed block i.
LEMMA OwnedMore ==
  ASSUME NEW I \in SUBSET Ids, NEW bl, NEW bs, NEW i \in Ids, NEW bl2, NEW bs2, NEW b2 \in Nat, NEW size,
         Entered(bl, bs, bl2, bs2, i, b2 + PAYLOAD, size)
  PROVE  OwnedIn(bl2, I \cup {i}) = OwnedIn(bl, I \ {i}) \cup {b2}
<1>1. (b2 + PAYLOAD) - PAYLOAD = b2
  BY DEF PAYLOAD
<1>2. bl2[i] - PAYLOAD = b2
  BY <1>1 DEF Entered
<1>3. \A j \in I \ {i} : bl2[j] = bl[j]
  BY DEF Entered
<1> QED
  BY <1>2, <1>3 DEF OwnedIn

\* After such a call each index has a block that is large enough, block i the new one.
LEMMA SizedMore ==
  ASSUME NEW I \in SUBSET Ids, NEW h, NEW bl, NEW bs, Sized(h, I, bl, bs), NEW i \in Ids,
         NEW h2, NEW b2, NEW size \in Nat, size > 0, Placed(h, h2, I, bl, i, b2, size),
         NEW bl2, NEW bs2, Entered(bl, bs, bl2, bs2, i, b2 + PAYLOAD, size)
  PROVE  Sized(h2, I \cup {i}, bl2, bs2)
<1>1. b2 \in Nat /\ b2 > 0 /\ b2 \notin OwnedIn(bl, I \ {i})
      /\ HeapOf(h2, OwnedIn(bl, I \ {i}) \cup {b2}) /\ Size(h2.mem, b2) >= size + 16
  BY DEF Placed
<1>2. HeapOf(h2, OwnedIn(bl2, I \cup {i}))
  <2>1. OwnedIn(bl2, I \cup {i}) = OwnedIn(bl, I \ {i}) \cup {b2}
    BY <1>1, OwnedMore
  <2> QED
    BY <1>1, <2>1
<1>3. bl2[i] = b2 + PAYLOAD /\ bs2[i] = size /\ bl2[i] - PAYLOAD = b2 /\ bl2[i] \in Nat /\ bl2[i] > PAYLOAD
  <2>1. b2 + PAYLOAD \in Nat /\ b2 + PAYLOAD > PAYLOAD /\ (b2 + PAYLOAD) - PAYLOAD = b2
    BY <1>1 DEF PAYLOAD
  <2> QED
    BY <2>1 DEF Entered
<1>4. ASSUME NEW j \in I \cup {i}
      PROVE  /\ bl2[j] \in Nat /\ bl2[j] > PAYLOAD /\ bs2[j] \in Nat /\ bs2[j] > 0
             /\ Size(h2.mem, bl2[j] - PAYLOAD) >= bs2[j] + 16
  <2>1. CASE j = i
    BY <1>1, <1>3, <2>1
  <2>2. CASE j # i
    <3>1. j \in I \ {i} /\ bl2[j] = bl[j] /\ bs2[j] = bs[j]
      BY <2>2 DEF Entered
    <3> DEFINE c == bl[j] - PAYLOAD
    <3>2. Size(h.mem, c) >= bs[j] + 16 /\ Size(h2.mem, c) = Size(h.mem, c)
      <4>1. Spared(h, h2, I, bl, bs, i, b2, j)
        BY <3>1, Others
      <4> QED
        BY <4>1 DEF Spared
    <3>3. bl[j] \in Nat /\ bl[j] > PAYLOAD /\ bs[j] \in Nat /\ bs[j] > 0
      BY <3>1 DEF Sized
    <3>4. Size(h2.mem, c) >= bs[j] + 16
      BY <3>2
    <3> QED
      BY <3>1, <3>3, <3>4
  <2> QED
    BY <2>1, <2>2
<1>5. ASSUME NEW j \in I \cup {i}, NEW k \in I \cup {i}, bl2[j] = bl2[k] PROVE j = k
  <2>1. ASSUME NEW x \in I \ {i} PROVE bl2[x] # bl2[i] /\ bl2[x] = bl[x]
    <3>1. bl[x] - PAYLOAD \in OwnedIn(bl, I \ {i}) /\ bl2[x] = bl[x]
      BY DEF OwnedIn, Entered
    <3> QED
      BY <1>1, <1>3, <3>1
  <2> QED
    BY <1>5, <2>1 DEF Sized
<1> QED
  BY <1>2, <1>4, <1>5 DEF Sized

\* After such a call the other blocks hold what they held.
LEMMA FilledMore ==
  ASSUME NEW I \in SUBSET Ids, NEW h, NEW bl, NEW bs, Sized(h, I, bl, bs), Filled(h, I, bl, bs),
         NEW i \in Ids, NEW h2, NEW b2, NEW size, Placed(h, h2, I, bl, i, b2, size),
         NEW bl2, NEW bs2, Entered(bl, bs, bl2, bs2, i, b2 + PAYLOAD, size)
  PROVE  Filled(h2, I \ {i}, bl2, bs2)
<1> SUFFICES ASSUME NEW j \in I \ {i} PROVE Holds(h2, bl2[j], bs2[j], j)
  BY DEF Filled
<1> DEFINE c == bl[j] - PAYLOAD
<1>1. bl2[j] = bl[j] /\ bs2[j] = bs[j]
  BY DEF Entered
<1>2. c \in OwnedIn(bl, I \ {i}) /\ c \in OwnedIn(bl, I) /\ c + PAYLOAD = bl[j]
      /\ Size(h.mem, c) >= bs[j] + 16 /\ bs[j] \in Nat
  <2>1. Spared(h, h2, I, bl, bs, i, b2, j)
    BY Others
  <2> QED
    BY <2>1 DEF Spared
<1> HIDE DEF c
<1>3. Holds(h, c + PAYLOAD, bs[j], j)
  BY <1>2 DEF Filled
<1>4. HeapOf(h, OwnedIn(bl, I)) /\ Kept(h.mem, h2.mem, OwnedIn(bl, I \ {i}))
  BY DEF Sized, Placed
<1>5. Holds(h2, c + PAYLOAD, bs[j], j)
  BY <1>2, <1>3, <1>4, HoldsKept
<1> QED
  BY <1>1, <1>2, <1>5

\* The driver refuses no block.
LEMMA RangeOk ==
  ASSUME NEW I \in SUBSET Ids, NEW h, NEW bl, NEW bs, Sized(h, I, bl, bs), NEW i \in Ids,
         NEW h2, NEW b2, NEW size \in Nat, size > 0, Placed(h, h2, I, bl, i, b2, size)
  PROVE  RangeFits({Extent(bl[j], bs[j]) : j \in I \ {i}}, Extent(b2 + PAYLOAD, size), h2)
<1> DEFINE lo == b2 + 12
           hi == b2 + 12 + size - 1
           V == OwnedIn(bl, I \ {i}) \cup {b2}
           v == Size(h2.mem, b2)
           list == {Extent(bl[j], bs[j]) : j \in I \ {i}}
<1>1. HeapOf(h2, V) /\ b2 \in V /\ v >= size + 16
  BY DEF Placed
<1>2. /\ b2 \in Nat /\ b2 % 4 = 0 /\ 24 <= b2 /\ v \in Nat /\ h2.brk \in Nat
      /\ b2 + v <= h2.brk - 4
      /\ \A c \in V : c < b2 => c + Size(h2.mem, c) <= b2
  BY <1>1, InHeap
<1>3. Extent(b2 + PAYLOAD, size) = [lo |-> lo, hi |-> hi]
  BY DEF Extent, PAYLOAD
<1>4. lo % 4 = 0
  BY <1>2, Sums
<1>5. lo \in HeapLo .. h2.brk - 1 /\ hi \in HeapLo .. h2.brk - 1
  <2> HIDE DEF v
  <2> QED
    BY <1>1, <1>2 DEF HeapLo
<1>6. ASSUME NEW j \in I \ {i}
      PROVE  {lo, hi} \cap (bl[j] .. bl[j] + bs[j] - 1) = {}
  <2> DEFINE c == bl[j] - PAYLOAD
             u == Size(h2.mem, c)
             n == bs[j]
  <2>1. /\ c \in OwnedIn(bl, I \ {i}) /\ c # b2 /\ c \in Nat /\ c + PAYLOAD = bl[j]
        /\ Size(h.mem, c) >= n + 16 /\ Size(h2.mem, c) = Size(h.mem, c) /\ n \in Nat /\ n > 0
    <3>1. Spared(h, h2, I, bl, bs, i, b2, j)
      BY Others
    <3> QED
      BY <3>1 DEF Spared
  <2>2. u >= n + 16 /\ c \in V
    BY <2>1
  <2>3. u \in Nat /\ \A d \in V : d < c => d + Size(h2.mem, d) <= c
    BY <1>1, <2>2, InHeap
  <2>4. (b2 < c => b2 + v <= c) /\ (c < b2 => c + u <= b2)
    BY <1>1, <1>2, <2>2, <2>3
  <2> HIDE DEF c, u, v
  <2>5. bl[j] = c + 12
    BY <2>1 DEF PAYLOAD
  <2> HIDE DEF n
  <2>6. ASSUME NEW x \in {lo, hi} PROVE ~(c + 12 <= x /\ x <= c + 12 + n - 1)
    <3>1. x \in Nat /\ b2 + 12 <= x /\ x < b2 + 12 + size
      BY <1>2
    <3>2. CASE b2 < c
      BY <1>1, <1>2, <2>1, <2>4, <3>1, <3>2
    <3>3. CASE c < b2
      BY <1>2, <2>1, <2>2, <2>3, <2>4, <3>1, <3>3
    <3> QED
      BY <1>2, <2>1, <3>2, <3>3
  <2>7. ASSUME NEW x \in {lo, hi} PROVE x \notin bl[j] .. bl[j] + bs[j] - 1
    BY <2>5, <2>6 DEF n
  <2> HIDE DEF lo, hi
  <2> QED
    BY <2>7
<1>7. ASSUME NEW p \in list PROVE {lo, hi} \cap (p.lo .. p.hi) = {}
  <2>1. PICK j \in I \ {i} : p = Extent(bl[j], bs[j])
    OBVIOUS
  <2>2. p.lo = bl[j] /\ p.hi = bl[j] + bs[j] - 1
    BY <2>1 DEF Extent
  <2> HIDE DEF lo, hi
  <2> QED
    BY <1>6, <2>2
<1> HIDE DEF list, lo, hi
<1>8. RangeFits(list, [lo |-> lo, hi |-> hi], h2)
  BY <1>4, <1>5, <1>7 DEF RangeFits
<1> QED
  BY <1>3, <1>8 DEF list

\* The end of the program leaves the heap as it is.
LEMMA ExitedAs ==
  ASSUME NEW h, NEW U, HeapOf(h, U), NEW e \in BOOLEAN
  PROVE  /\ HeapOf([h EXCEPT !.exited = e], U) /\ [h EXCEPT !.exited = e].exited = e
         /\ [h EXCEPT !.exited = e].mem = h.mem /\ [h EXCEPT !.exited = e].brk = h.brk
<1> DEFINE h2 == [h EXCEPT !.exited = e]
<1>1. h \in Heaps
  BY DEF HeapOf
<1>2. h2 \in Heaps /\ h2.mem = h.mem /\ h2.brk = h.brk /\ h2.exited = e
  BY <1>1 DEF Heaps
<1> HIDE DEF h2
<1>3. HeapOf(h2, U)
  BY <1>2 DEF HeapOf
<1> QED
  BY <1>2, <1>3 DEF h2

\* A heap with the same memory below the same break.
LEMMA SizedAs ==
  ASSUME NEW h, NEW I, NEW bl, NEW bs, Sized(h, I, bl, bs), NEW h2, HeapOf(h2, OwnedIn(bl, I)),
         h2.mem = h.mem
  PROVE  Sized(h2, I, bl, bs)
BY DEF Sized

\* Fewer indices, in a heap that keeps their blocks.
LEMMA SizedRest ==
  ASSUME NEW h, NEW I, NEW bl, NEW bs, Sized(h, I, bl, bs), NEW h2, NEW J \in SUBSET I,
         NEW bl2, NEW bs2, \A j \in J : bl2[j] = bl[j] /\ bs2[j] = bs[j],
         HeapOf(h2, OwnedIn(bl2, J)), \A j \in J : h2.mem[bl[j] - PAYLOAD] = h.mem[bl[j] - PAYLOAD]
  PROVE  Sized(h2, J, bl2, bs2)
<1>1. ASSUME NEW j \in J
      PROVE  /\ bl2[j] \in Nat /\ bl2[j] > PAYLOAD /\ bs2[j] \in Nat /\ bs2[j] > 0
             /\ Size(h2.mem, bl2[j] - PAYLOAD) >= bs2[j] + 16
  <2> DEFINE c == bl[j] - PAYLOAD
  <2>1. bl[j] \in Nat /\ bl[j] > PAYLOAD /\ bs[j] \in Nat /\ bs[j] > 0 /\ Size(h.mem, c) >= bs[j] + 16
    BY DEF Sized
  <2>2. h2.mem[c] = h.mem[c] /\ bl2[j] = bl[j] /\ bs2[j] = bs[j]
    OBVIOUS
  <2> HIDE DEF c
  <2>3. Size(h2.mem, c) = Size(h.mem, c)
    BY <2>2, SameSize
  <2>4. Size(h2.mem, c) >= bs[j] + 16
    BY <2>1, <2>3
  <2> QED
    BY <2>1, <2>2, <2>4 DEF c
<1>2. \A j, k \in J : bl2[j] = bl2[k] => j = k
  BY DEF Sized
<1> QED
  BY <1>1, <1>2 DEF Sized

\* memset() of one payload.
FilledToo(h, h2, I, bl, bs) ==
  /\ Sized(h2, I, bl, bs) /\ Filled(h2, I, bl, bs)
  /\ h2.brk = h.brk /\ h2.exited = h.exited

\* memset() of the payload of block i with its pattern spoils no other block.
LEMMA FillStep ==
  ASSUME NEW I \in SUBSET Ids, NEW h, NEW bl, NEW bs, Sized(h, I, bl, bs), NEW i \in I,
         Filled(h, I \ {i}, bl, bs)
  PROVE  FilledToo(h, Fill(h, bl[i], bs[i], i), I, bl, bs)
<1> DEFINE b == bl[i] - PAYLOAD
           size == bs[i]
           m2 == [a \in Addresses |-> IF a \in Words(bl[i], size) THEN Pattern(i) ELSE h.mem[a]]
           h2 == Fill(h, bl[i], size, i)
           V == OwnedIn(bl, I)
<1>1. HeapOf(h, V) /\ b \in V /\ b \in Nat /\ b + PAYLOAD = bl[i] /\ size \in Nat
      /\ Size(h.mem, b) >= size + 16
  <2>1. HeapOf(h, V) /\ size \in Nat /\ Size(h.mem, b) >= size + 16 /\ bl[i] \in Nat /\ bl[i] > PAYLOAD
    BY DEF Sized
  <2>2. b \in V
    BY DEF OwnedIn
  <2>3. b \in Nat /\ b + PAYLOAD = bl[i]
    BY <2>1 DEF PAYLOAD
  <2> QED
    BY <2>1, <2>2, <2>3
<1>2. h2 = [h EXCEPT !.mem = m2]
  BY DEF Fill
<1>3. \A a \in Words(b + PAYLOAD, size) : a \in Addresses /\ b + 12 <= a /\ a < b + 12 + size
  BY <1>1, PayloadWords
<1>4. h.mem \in [Addresses -> Nat]
  BY <1>1 DEF HeapOf, Heaps
<1>5. Stored(h, m2, b, size)
  <2>1. Pattern(i) \in Nat
    <3>1. i \in Nat
      BY DriverAssumption
    <3> QED
      BY <3>1 DEF Pattern
  <2>2. m2 \in [Addresses -> Nat]
    BY <1>4, <2>1
  <2>3. ASSUME NEW a \in Addresses, ~(b + 12 <= a /\ a < b + 12 + size) PROVE m2[a] = h.mem[a]
    <3>1. a \notin Words(bl[i], size)
      BY <1>1, <1>3, <2>3
    <3> QED
      BY <3>1
  <2> HIDE DEF m2
  <2> QED
    BY <2>2, <2>3 DEF Stored
<1>6. \A a \in Words(bl[i], size) : m2[a] = Pattern(i)
  BY <1>1, <1>3
<1> HIDE DEF m2, h2
<1>7. WellStored(h, h2, m2, V, b)
  <2> HIDE DEF b, size, V
  <2>1. WellStored(h, [h EXCEPT !.mem = m2], m2, V, b)
    BY <1>1, <1>5, StoreStep
  <2> QED
    BY <1>2, <2>1
<1>8. /\ HeapOf(h2, V) /\ Kept(h.mem, h2.mem, V \ {b}) /\ h2.mem = m2
      /\ h2.brk = h.brk /\ h2.exited = h.exited /\ m2[b] = h.mem[b]
  BY <1>7 DEF WellStored
<1>9. Sized(h2, I, bl, bs)
  <2>1. ASSUME NEW j \in I PROVE h2.mem[bl[j] - PAYLOAD] = h.mem[bl[j] - PAYLOAD]
    <3>1. bl[j] - PAYLOAD \in V
      BY DEF OwnedIn
    <3> QED
      BY <1>8, <3>1 DEF Kept
  <2> QED
    BY <1>8, <2>1, SizedRest
<1>a. Holds(h2, bl[i], size, i)
  BY <1>6, <1>8 DEF Holds
<1>b. ASSUME NEW j \in I \ {i} PROVE Holds(h2, bl[j], bs[j], j)
  <2> DEFINE c == bl[j] - PAYLOAD
             n == bs[j]
  <2>1. bl[j] \in Nat /\ bl[j] > PAYLOAD /\ n \in Nat /\ Size(h.mem, c) >= n + 16 /\ bl[j] # bl[i]
        /\ bl[i] \in Nat
    BY DEF Sized
  <2>2. c \in V
    BY DEF OwnedIn
  <2>3. c + PAYLOAD = bl[j] /\ c # b
    BY <2>1 DEF PAYLOAD
  <2>4. Holds(h, c + PAYLOAD, n, j)
    BY <2>3 DEF Filled
  <2> HIDE DEF b, c, V, n
  <2>5. Holds(h2, c + PAYLOAD, n, j)
    <3>1. c \in V \ {b}
      BY <2>2, <2>3
    <3> QED
      BY <1>1, <1>8, <2>1, <2>2, <2>4, <3>1, HoldsKept
  <2> QED
    BY <2>3, <2>5 DEF n
<1>c. Filled(h2, I, bl, bs)
  BY <1>a, <1>b DEF Filled
<1> QED
  BY <1>8, <1>9, <1>c DEF FilledToo, h2

\* What was held at the old place is held at the new one, up to the smaller size.
LEMMA HoldsMoved ==
  ASSUME NEW I \in SUBSET Ids, NEW h, NEW bl, NEW bs, Sized(h, I, bl, bs), Filled(h, I, bl, bs),
         NEW i \in I, NEW size \in Nat, NEW h2, NEW b2 \in Nat,
         Carried(h.mem, bl[i] - PAYLOAD, h2.mem, b2, size)
  PROVE  Holds(h2, b2 + PAYLOAD, Least(size, bs[i]), i)
<1> DEFINE b == bl[i] - PAYLOAD
           n == bs[i]
           k == Least(size, n)
           V == OwnedIn(bl, I)
<1>1. HeapOf(h, V) /\ b \in V /\ n \in Nat /\ Size(h.mem, b) >= n + 16 /\ b \in Nat /\ b + PAYLOAD = bl[i]
      /\ Holds(h, bl[i], n, i)
  <2>1. HeapOf(h, V) /\ n \in Nat /\ Size(h.mem, b) >= n + 16 /\ bl[i] \in Nat /\ bl[i] > PAYLOAD
    BY DEF Sized
  <2>2. b \in V
    BY DEF OwnedIn
  <2>3. b \in Nat /\ b + PAYLOAD = bl[i]
    BY <2>1 DEF PAYLOAD
  <2>4. Holds(h, bl[i], n, i)
    BY DEF Filled
  <2> QED
    BY <2>1, <2>2, <2>3, <2>4
<1>2. k \in Nat /\ k <= size /\ k <= n
  <2> HIDE DEF n
  <2> QED
    BY <1>1 DEF Least
<1>3. Carried(h.mem, b, h2.mem, b2, size)
  OBVIOUS
<1> HIDE DEF b, n, k, V
<1>4. ASSUME NEW x \in Words(b2 + PAYLOAD, k) PROVE h2.mem[x] = Pattern(i)
  <2> DEFINE a == (x - b2) + b
             p == b2 + 12
             q == b + 12
  <2>1. p \in Nat /\ x \in Words(p, k)
    BY DEF PAYLOAD
  <2>2. x \in Nat /\ p <= x /\ x < p + k /\ (x - p) % 4 = 0
    <3> HIDE DEF p
    <3> QED
      BY <1>2, <2>1, WordsAre
  <2>3. /\ a \in Nat /\ q \in Nat /\ q <= a /\ a < q + n /\ a < q + size /\ a - q = x - p
        /\ (a - b) + b2 = x
    BY <1>1, <1>2, <2>2
  <2>4. a \in Words(q, n)
    <3>1. (a - q) % 4 = 0
      BY <2>2, <2>3
    <3> HIDE DEF a, q, p
    <3> QED
      BY <1>1, <2>3, <3>1, WordsAre
  <2>5. a \in Words(b + PAYLOAD, n)
    BY <2>4 DEF PAYLOAD
  <2>6. h.mem[a] = Pattern(i)
    BY <1>1, <2>5 DEF Holds
  <2>7. a \in Addresses /\ a < FooterOf(h.mem, b)
    <3> HIDE DEF a
    <3> QED
      BY <1>1, <2>5, PayloadWords
  <2>8. b + 12 <= a /\ a < b + 12 + size /\ (a - b) + b2 = x
    BY <2>3
  <2> HIDE DEF a, p, q
  <2>9. h2.mem[(a - b) + b2] = h.mem[a]
    BY <1>3, <2>7, <2>8 DEF Carried
  <2> QED
    BY <2>6, <2>8, <2>9
<1> QED
  BY <1>4 DEF Holds, k, n

\* The driver's tables; no trace has been refused or has lost data.
Tables ==
  /\ blocks \in [Ids -> Nat] /\ block_sizes \in [Ids -> Nat]
  /\ \A i \in Ids : blocks[i] = NULL => block_sizes[i] = 0
  /\ asked \in Nat /\ pass \in {"valid", "util", "speed"} /\ verdict \in {"ok", "failed"}

\* The heap is always well formed.
Whole == \E U : HeapOf(heap, U)

\* While a trace runs, the blocks in use are the driver's.
Held == Running => Sized(heap, Live, blocks, block_sizes)

\* The ranges of the blocks of some indices.
Extents(bl, bs, I) == {Extent(bl[i], bs[i]) : i \in I}

\* In eval_mm_valid() each block holds its pattern, and the ranges are those of the blocks.
Intact ==
  pass = "valid" /\ Running =>
    /\ Filled(heap, Live, blocks, block_sizes)
    /\ ranges = Extents(blocks, block_sizes, Live)

\* The inductive invariant.
HeapInv == Tables /\ Whole /\ Held /\ Intact /\ ExitOnlyWhenFull

\* A pass that begins.
Empty ==
  /\ pass \in {"valid", "util", "speed"} /\ HeapOf(heap, {}) /\ ~heap.exited
  /\ blocks = [i \in Ids |-> NULL] /\ block_sizes = [i \in Ids |-> 0]
  /\ asked = 0 /\ verdict = "ok" /\ (pass = "valid" => ranges = {})

\* A pass that begins satisfies the invariant.
LEMMA EmptyInv == Empty => HeapInv
<1> SUFFICES ASSUME Empty PROVE HeapInv
  OBVIOUS
<1>1. Tables
  BY DEF Empty, Tables, NULL
<1>2. Live = {}
  BY DEF Empty, Live
<1>3. HeapOf(heap, {}) /\ ~heap.exited /\ (pass = "valid" => ranges = {})
  BY DEF Empty
<1>4. OwnedIn(blocks, {}) = {} /\ Extents(blocks, block_sizes, {}) = {}
  BY DEF OwnedIn, Extents
<1>5. Sized(heap, {}, blocks, block_sizes) /\ Filled(heap, {}, blocks, block_sizes)
  BY <1>3, <1>4 DEF Sized, Filled
<1>6. Whole
  BY <1>3 DEF Whole
<1>7. Held /\ Intact
  BY <1>2, <1>3, <1>4, <1>5 DEF Held, Intact
<1>8. ExitOnlyWhenFull
  BY <1>3 DEF ExitOnlyWhenFull
<1> QED
  BY <1>1, <1>6, <1>7, <1>8 DEF HeapInv

\* So does the first one.
LEMMA InitInv == Init => HeapInv
<1> SUFFICES ASSUME Init PROVE Empty
  BY EmptyInv
<1>1. Resettable(Fresh) /\ ~Fresh.exited
  BY DEF Resettable, Fresh
<1>2. HeapOf(MmInit(Fresh), {}) /\ ~MmInit(Fresh).exited
  BY <1>1, MmInitIs
<1> QED
  BY <1>2 DEF Init, Empty

\* mm_init() on whatever an earlier pass has left begins a pass.
LEMMA PassInv ==
  ASSUME HeapInv, ~heap.exited, NEW next \in {"valid", "util", "speed"}, BeginPass(next)
  PROVE  HeapInv'
<1>1. Resettable(heap)
  BY DEF HeapInv, Whole, Resettable
<1>2. HeapOf(MmInit(heap), {}) /\ ~MmInit(heap).exited
  BY <1>1, MmInitIs
<1>3. Empty'
  BY <1>2 DEF BeginPass, ClearRanges, Empty
<1>4. Empty' => HeapInv'
  BY EmptyInv, PTL
<1> QED
  BY <1>3, <1>4

\* The tables after a call that gives block i the pointer p.
LEMMA TablesKept ==
  ASSUME Tables, NEW i \in Ids, NEW p \in Nat, NEW size \in Nat, Remember(i, p, size),
         asked' \in Nat, pass' = pass, verdict' \in {"ok", "failed"}
  PROVE  Tables'
<1>1. blocks' \in [Ids -> Nat] /\ block_sizes' \in [Ids -> Nat]
  BY DEF Tables, Remember
<1>2. \A j \in Ids : blocks'[j] = NULL => block_sizes'[j] = 0
  BY DEF Tables, Remember
<1> QED
  BY <1>1, <1>2 DEF Tables

\* The list of ranges without that of block i.
LEMMA OthersAre ==
  ASSUME NEW I \in SUBSET Ids, NEW h, NEW bl, NEW bs, Sized(h, I, bl, bs), NEW i \in Ids,
         i \in I \/ bl[i] = NULL
  PROVE  RemoveRange(Extents(bl, bs, I), bl[i]) = Extents(bl, bs, I \ {i})
<1>1. ASSUME NEW j \in I PROVE (bl[j] # bl[i]) <=> (j # i)
  <2>1. CASE i \in I
    BY <2>1 DEF Sized
  <2>2. CASE bl[i] = NULL
    <3>1. bl[j] # NULL
      BY DEF Sized, NULL, PAYLOAD
    <3> QED
      BY <2>2, <3>1
  <2> QED
    BY <2>1, <2>2
<1>2. \A j \in I : Extent(bl[j], bs[j]).lo = bl[j]
  BY DEF Extent
<1> QED
  BY <1>1, <1>2 DEF RemoveRange, Extents

\* The ranges after a call that has placed block i.
LEMMA ExtentsMore ==
  ASSUME NEW I \in SUBSET Ids, NEW bl, NEW bs, NEW i \in Ids, NEW bl2, NEW bs2, NEW p, NEW size,
         Entered(bl, bs, bl2, bs2, i, p, size)
  PROVE  Extents(bl2, bs2, I \cup {i}) = Extents(bl, bs, I \ {i}) \cup {Extent(p, size)}
<1>1. \A j \in I \ {i} : bl2[j] = bl[j] /\ bs2[j] = bs[j]
  BY DEF Entered
<1>2. bl2[i] = p /\ bs2[i] = size
  BY DEF Entered
<1> QED
  BY <1>1, <1>2 DEF Extents

\* A call that has returned a block: the driver accepts it.
LEMMA ReceiveGiven ==
  ASSUME HeapInv, Running, NEW i \in Ids, NEW size \in Nat, size > 0, NEW m, NEW b2,
         Placed(heap, m.heap, Live, blocks, i, b2, size), b2 + PAYLOAD = m.ptr, ~m.heap.exited,
         pass = "valid" => Holds(m.heap, m.ptr, Least(size, block_sizes[i]), i),
         Receive(i, size, m)
  PROVE  HeapInv'
<1> DEFINE h2 == m.heap
           p == m.ptr
<1>1. /\ Tables /\ Sized(heap, Live, blocks, block_sizes) /\ Live \in SUBSET Ids
      /\ blocks \in [Ids -> Nat] /\ block_sizes \in [Ids -> Nat]
  BY DEF HeapInv, Held, Live, Tables
<1>2. b2 \in Nat /\ p \in Nat /\ p # NULL
  BY DEF Placed, PAYLOAD, NULL
<1>3. Remember(i, p, size) /\ pass' = pass
  BY DEF Receive
<1>4. Entered(blocks, block_sizes, blocks', block_sizes', i, p, size)
  BY <1>1, <1>2, <1>3 DEF Entered, Remember
<1>5. Live' = Live \cup {i}
  BY <1>2, <1>4 DEF Live, Entered
<1>6. Sized(h2, Live', blocks', block_sizes')
  <2>1. Entered(blocks, block_sizes, blocks', block_sizes', i, b2 + PAYLOAD, size)
    BY <1>4
  <2>2. Sized(h2, Live \cup {i}, blocks', block_sizes')
    BY <1>1, <2>1, SizedMore
  <2> QED
    BY <1>5, <2>2
<1>7. i \in Live' /\ blocks'[i] = p /\ block_sizes'[i] = size /\ Live' \in SUBSET Ids
  BY <1>1, <1>4, <1>5 DEF Entered
<1>8. ASSUME pass = "valid"
      PROVE  /\ verdict' = "ok" /\ heap' = Fill(h2, p, size, i)
             /\ ranges' = Extents(blocks', block_sizes', Live')
             /\ FilledToo(h2, heap', Live', blocks', block_sizes')
  <2> DEFINE others == RemoveRange(ranges, blocks[i])
             r == Extent(p, size)
             kept == Least(size, block_sizes[i])
  <2>1. Filled(heap, Live, blocks, block_sizes) /\ ranges = Extents(blocks, block_sizes, Live)
    BY <1>8 DEF HeapInv, Intact
  <2>2. others = Extents(blocks, block_sizes, Live \ {i})
    <3>1. i \in Live \/ blocks[i] = NULL
      BY DEF Live
    <3>2. RemoveRange(Extents(blocks, block_sizes, Live), blocks[i])
            = Extents(blocks, block_sizes, Live \ {i})
      BY <1>1, <3>1, OthersAre
    <3> QED
      BY <2>1, <3>2
  <2>3. RangeFits(others, r, h2)
    <3>1. RangeFits(Extents(blocks, block_sizes, Live \ {i}), Extent(b2 + PAYLOAD, size), h2)
      BY <1>1, RangeOk DEF Extents
    <3> QED
      BY <2>2, <3>1
  <2>4. Holds(h2, p, kept, i)
    BY <1>8
  <2>5. Check(i, size, m)
    BY <1>8 DEF Receive
  <2> HIDE DEF others, r, kept
  <2>6. /\ verdict' = (IF p = NULL THEN "failed" ELSE IF ~RangeFits(others, r, h2) THEN "refused"
                       ELSE IF ~Holds(h2, p, kept, i) THEN "lost" ELSE "ok")
        /\ ranges' = (IF verdict' \in {"ok", "lost"} THEN others \cup {r}
                      ELSE IF p = NULL THEN ranges ELSE others)
        /\ heap' = (IF verdict' = "ok" THEN Fill(h2, p, size, i) ELSE h2)
    BY <2>5 DEF Check, others, r, kept
  <2>7. verdict' = "ok"
    BY <1>2, <2>3, <2>4, <2>6
  <2>8. heap' = Fill(h2, p, size, i) /\ ranges' = others \cup {r}
    BY <2>6, <2>7
  <2>9. Extents(blocks', block_sizes', Live') = others \cup {r}
    <3>1. Extents(blocks', block_sizes', Live \cup {i})
            = Extents(blocks, block_sizes, Live \ {i}) \cup {Extent(p, size)}
      BY <1>1, <1>4, ExtentsMore
    <3> QED
      BY <1>5, <2>2, <3>1 DEF r
  <2>a. Filled(h2, Live' \ {i}, blocks', block_sizes')
    <3>1. Entered(blocks, block_sizes, blocks', block_sizes', i, b2 + PAYLOAD, size)
      BY <1>4
    <3>2. Filled(h2, Live \ {i}, blocks', block_sizes')
      BY <1>1, <2>1, <3>1, FilledMore
    <3>3. Live' \ {i} = Live \ {i}
      BY <1>5
    <3> QED
      BY <3>2, <3>3
  <2>b. FilledToo(h2, Fill(h2, blocks'[i], block_sizes'[i], i), Live', blocks', block_sizes')
    BY <1>6, <1>7, <2>a, FillStep
  <2> QED
    BY <1>7, <2>7, <2>8, <2>9, <2>b
<1>9. ASSUME pass # "valid"
      PROVE  /\ verdict' = "ok" /\ ~heap'.exited /\ Sized(heap', Live', blocks', block_sizes')
  <2>1. verdict' = verdict /\ heap' = [h2 EXCEPT !.exited = @ \/ p = NULL]
    BY <1>9 DEF Receive
  <2>2. verdict = "ok"
    BY DEF Running
  <2>3. HeapOf(h2, OwnedIn(blocks', Live'))
    BY <1>6 DEF Sized
  <2>4. heap' = [h2 EXCEPT !.exited = h2.exited \/ p = NULL]
    BY <2>1
  <2>5. (h2.exited \/ p = NULL) \in BOOLEAN /\ ~(h2.exited \/ p = NULL)
    BY <1>2
  <2> DEFINE e == h2.exited \/ p = NULL
  <2> HIDE DEF e, h2
  <2>6. HeapOf([h2 EXCEPT !.exited = e], OwnedIn(blocks', Live'))
    BY <2>3, <2>5, ExitedAs DEF e
  <2>7. [h2 EXCEPT !.exited = e].exited = e /\ [h2 EXCEPT !.exited = e].mem = h2.mem
    BY <2>3, <2>5, ExitedAs DEF e
  <2>8. heap' = [h2 EXCEPT !.exited = e]
    BY <2>4 DEF e
  <2>9. HeapOf(heap', OwnedIn(blocks', Live')) /\ heap'.exited = e /\ heap'.mem = h2.mem
    BY <2>6, <2>7, <2>8
  <2>a. Sized(heap', Live', blocks', block_sizes')
    BY <1>6, <2>9, SizedAs DEF h2
  <2> QED
    BY <2>1, <2>2, <2>5, <2>9, <2>a DEF e
<1>a. verdict' = "ok" /\ ~heap'.exited /\ Sized(heap', Live', blocks', block_sizes')
  BY <1>8, <1>9 DEF FilledToo
<1>b. Tables'
  <2>1. asked' \in Nat
    BY DEF Receive
  <2> QED
    BY <1>1, <1>2, <1>3, <1>a, <2>1, TablesKept
<1>c. Whole'
  BY <1>a DEF Whole, Sized
<1>d. Held'
  BY <1>a DEF Held
<1>e. Intact'
  BY <1>3, <1>8 DEF Intact, FilledToo
<1>f. ExitOnlyWhenFull'
  BY <1>a DEF ExitOnlyWhenFull
<1> QED
  BY <1>b, <1>c, <1>d, <1>e, <1>f DEF HeapInv

\* A call that has returned NULL: the trace has failed, or the program ends.
LEMMA ReceiveNone ==
  ASSUME HeapInv, Running, NEW i \in Ids, NEW size \in Nat, NEW m, NEW U, HeapOf(m.heap, U),
         m.ptr = NULL, Receive(i, size, m),
         \/ m.heap.exited /\ m.heap.brk + Most(GetBlockSize(size), Chunk) > MaxAddr
         \/ ~m.heap.exited /\ pass = "valid"
  PROVE  HeapInv'
<1> DEFINE h2 == m.heap
<1>1. Tables /\ verdict = "ok"
  BY DEF HeapInv, Running
<1>2. Remember(i, NULL, size) /\ pass' = pass
  BY DEF Receive
<1>3. ASSUME pass = "valid" PROVE verdict' = "failed" /\ heap' = h2
  BY <1>3 DEF Receive, Check
<1>4. ASSUME pass # "valid" PROVE verdict' = "ok" /\ HeapOf(heap', U) /\ heap'.exited /\ heap'.brk = h2.brk
  <2>1. verdict' = verdict /\ heap' = [h2 EXCEPT !.exited = h2.exited \/ m.ptr = NULL]
    BY <1>4 DEF Receive
  <2> DEFINE e == h2.exited \/ m.ptr = NULL
  <2>2. e \in BOOLEAN /\ e
    OBVIOUS
  <2> HIDE DEF e, h2
  <2>3. HeapOf([h2 EXCEPT !.exited = e], U)
    BY <2>2, ExitedAs DEF h2
  <2>4. [h2 EXCEPT !.exited = e].exited = e /\ [h2 EXCEPT !.exited = e].brk = h2.brk
    BY <2>2, ExitedAs DEF h2
  <2>5. heap' = [h2 EXCEPT !.exited = e]
    BY <2>1 DEF e
  <2> QED
    BY <1>1, <2>1, <2>2, <2>3, <2>4, <2>5
<1>5. ~Running' /\ HeapOf(heap', U) /\ verdict' \in {"ok", "failed"}
  BY <1>3, <1>4 DEF Running
<1>6. Tables'
  <2>1. asked' \in Nat /\ NULL \in Nat
    BY DEF Receive, NULL
  <2> QED
    BY <1>1, <1>2, <1>5, <2>1, TablesKept
<1>7. ExitOnlyWhenFull'
  <2>1. SUFFICES ASSUME heap'.exited
                 PROVE  heap'.brk + Most(GetBlockSize(asked'), Chunk) > MaxAddr
    BY DEF ExitOnlyWhenFull, Most
  <2>2. asked' = size
    BY <2>1 DEF Receive
  <2>3. heap'.brk = h2.brk /\ h2.exited
    BY <1>3, <1>4, <2>1
  <2> QED
    BY <2>2, <2>3
<1> QED
  BY <1>5, <1>6, <1>7 DEF HeapInv, Whole, Held, Intact

\* A new block, from mm_malloc() for an index that has none.
LEMMA NewBlock ==
  ASSUME HeapInv, Running, NEW i \in Ids \ Live, NEW size \in Nat, size > 0,
         Receive(i, size, MmMalloc(heap, size))
  PROVE  HeapInv'
<1> DEFINE m == MmMalloc(heap, size)
           need == GetBlockSize(size)
           U == OwnedIn(blocks, Live)
<1>1. Sized(heap, Live, blocks, block_sizes) /\ HeapOf(heap, U) /\ ~heap.exited
  BY DEF HeapInv, Held, Sized, Running
<1>2. Answer(heap, U, need, m)
  BY <1>1, MmMallocIs
<1> HIDE DEF m, need, U
<1>3. Receive(i, size, m)
  BY DEF m
<1>4. CASE m.ptr = NULL /\ m.heap.exited /\ HeapOf(m.heap, U) /\ m.heap.brk + Most(need, Chunk) > MaxAddr
  BY <1>3, <1>4, ReceiveNone DEF need
<1>5. CASE \E b \in Nat : /\ b \notin U /\ b > 0 /\ m.ptr = b + PAYLOAD /\ ~m.heap.exited
                          /\ HeapOf(m.heap, U \cup {b}) /\ Size(m.heap.mem, b) >= need
  <2>1. PICK b \in Nat : /\ b \notin U /\ b > 0 /\ b + PAYLOAD = m.ptr /\ ~m.heap.exited
                         /\ HeapOf(m.heap, U \cup {b}) /\ Size(m.heap.mem, b) >= need
    BY <1>5
  <2>2. Live \ {i} = Live
    OBVIOUS
  <2>3. Size(m.heap.mem, b) >= size + 16
    <3>1. need \in Nat /\ need >= size + 16
      BY BlockSizes DEF need
    <3>2. Size(m.heap.mem, b) \in Nat
      BY <2>1, InHeap
    <3> QED
      BY <2>1, <3>1, <3>2
  <2>4. Kept(heap.mem, m.heap.mem, U)
    BY <1>2 DEF Answer
  <2>5. Placed(heap, m.heap, Live, blocks, i, b, size)
    BY <2>1, <2>2, <2>3, <2>4 DEF Placed, U
  <2>6. Holds(m.heap, m.ptr, Least(size, block_sizes[i]), i)
    <3>1. block_sizes[i] = 0
      BY DEF HeapInv, Tables, Live
    <3>2. Least(size, block_sizes[i]) = 0
      BY <3>1 DEF Least
    <3>3. Words(m.ptr, 0) = {}
      BY DEF Words
    <3> QED
      BY <3>2, <3>3 DEF Holds
  <2> QED
    BY <1>3, <2>1, <2>5, <2>6, ReceiveGiven
<1> QED
  BY <1>2, <1>4, <1>5 DEF Answer

\* mm_realloc() of a block in use.
LEMMA SameBlock ==
  ASSUME HeapInv, Running, NEW i \in Live, NEW size \in Nat, size > 0,
         Following(heap.mem, blocks[i] - PAYLOAD) # Epilogue,
         Receive(i, size, MmRealloc(heap, blocks[i], size))
  PROVE  HeapInv'
<1> DEFINE m == MmRealloc(heap, blocks[i], size)
           U == OwnedIn(blocks, Live)
           b == blocks[i] - PAYLOAD
<1>1. Sized(heap, Live, blocks, block_sizes) /\ HeapOf(heap, U) /\ ~heap.exited /\ i \in Ids
      /\ Live \in SUBSET Ids
  BY DEF HeapInv, Held, Sized, Running, Live
<1>2. b \in U /\ b \in Nat /\ b + PAYLOAD = blocks[i]
  <2>1. blocks[i] \in Nat /\ blocks[i] > PAYLOAD
    BY <1>1 DEF Sized
  <2> QED
    BY <2>1 DEF OwnedIn, PAYLOAD
<1>3. U \ {b} = OwnedIn(blocks, Live \ {i})
  <2>1. \A j \in Live : blocks[j] - PAYLOAD = b <=> j = i
    <3>1. ASSUME NEW j \in Live PROVE blocks[j] - PAYLOAD = b <=> j = i
      <4>1. blocks[j] \in Nat /\ blocks[i] \in Nat /\ (blocks[j] = blocks[i] => j = i)
        BY <1>1 DEF Sized
      <4> QED
        BY <4>1 DEF PAYLOAD
    <3> QED
      BY <3>1
  <2> HIDE DEF b
  <2> QED
    BY <2>1 DEF OwnedIn
<1>4. Following(heap.mem, b) # heap.brk - WORD
  BY DEF Epilogue
<1> HIDE DEF b, U, m
<1>5. Resized(heap, U, b, size, m)
  <2>1. size # 0
    OBVIOUS
  <2>2. Resized(heap, U, b, size, MmRealloc(heap, b + PAYLOAD, size))
    BY <1>1, <1>2, <1>4, <2>1, MmReallocIs
  <2> QED
    BY <1>2, <2>2 DEF m
<1>6. Receive(i, size, m)
  BY DEF m
<1>7. CASE /\ m.ptr = NULL /\ m.heap.exited /\ HeapOf(m.heap, U)
           /\ m.heap.brk + Most(GetBlockSize(size), Chunk) > MaxAddr
  BY <1>1, <1>6, <1>7, ReceiveNone
<1>8. CASE \E b2 \in Nat : /\ b2 > 0 /\ b2 \notin U \ {b} /\ m.ptr = b2 + PAYLOAD /\ ~m.heap.exited
                           /\ HeapOf(m.heap, (U \ {b}) \cup {b2})
                           /\ Size(m.heap.mem, b2) >= GetBlockSize(size)
                           /\ Kept(heap.mem, m.heap.mem, U \ {b})
                           /\ Carried(heap.mem, b, m.heap.mem, b2, size)
  <2>1. PICK b2 \in Nat : /\ b2 > 0 /\ b2 \notin U \ {b} /\ b2 + PAYLOAD = m.ptr /\ ~m.heap.exited
                          /\ HeapOf(m.heap, (U \ {b}) \cup {b2})
                          /\ Size(m.heap.mem, b2) >= GetBlockSize(size)
                          /\ Kept(heap.mem, m.heap.mem, U \ {b})
                          /\ Carried(heap.mem, b, m.heap.mem, b2, size)
    BY <1>8
  <2>2. Size(m.heap.mem, b2) >= size + 16
    <3>1. GetBlockSize(size) \in Nat /\ GetBlockSize(size) >= size + 16
      BY BlockSizes
    <3>2. Size(m.heap.mem, b2) \in Nat
      BY <2>1, InHeap
    <3> QED
      BY <2>1, <3>1, <3>2
  <2>3. Placed(heap, m.heap, Live, blocks, i, b2, size)
    BY <1>3, <2>1, <2>2 DEF Placed
  <2>4. ASSUME pass = "valid" PROVE Holds(m.heap, m.ptr, Least(size, block_sizes[i]), i)
    <3>1. Filled(heap, Live, blocks, block_sizes)
      BY <2>4 DEF HeapInv, Intact
    <3>2. Carried(heap.mem, blocks[i] - PAYLOAD, m.heap.mem, b2, size)
      BY <2>1 DEF b
    <3>3. Holds(m.heap, b2 + PAYLOAD, Least(size, block_sizes[i]), i)
      BY <1>1, <3>1, <3>2, HoldsMoved
    <3> QED
      BY <2>1, <3>3
  <2> QED
    BY <1>1, <1>6, <2>1, <2>3, <2>4, ReceiveGiven
<1> QED
  BY <1>5, <1>7, <1>8 DEF Resized

\* mm_realloc() to no size at all: the block is freed, and the trace fails.
LEMMA NoBlock ==
  ASSUME HeapInv, Running, NEW i \in Live, pass = "valid", Receive(i, 0, MmRealloc(heap, blocks[i], 0))
  PROVE  HeapInv'
<1> DEFINE U == OwnedIn(blocks, Live)
           b == blocks[i] - PAYLOAD
           h2 == MmFree(heap, b + PAYLOAD)
           m == Nothing(h2)
<1>1. HeapOf(heap, U) /\ ~heap.exited /\ i \in Ids /\ blocks[i] \in Nat /\ blocks[i] > PAYLOAD
  BY DEF HeapInv, Held, Sized, Running, Live
<1>2. b \in U /\ b + PAYLOAD = blocks[i]
  BY <1>1 DEF OwnedIn, PAYLOAD
<1>3. HeapOf(h2, U \ {b}) /\ h2.exited = heap.exited
  <2> HIDE DEF U, b
  <2> QED
    BY <1>1, <1>2, MmFreeIs
<1>4. MmRealloc(heap, blocks[i], 0) = m
  <2>1. blocks[i] # NULL
    BY DEF Live
  <2> HIDE DEF b
  <2>2. MmRealloc(heap, blocks[i], 0) = Nothing(MmFree(heap, blocks[i]))
    BY <2>1 DEF MmRealloc
  <2> QED
    BY <1>2, <2>2
<1> HIDE DEF U, b, h2
<1>5. m.ptr = NULL /\ m.heap = h2
  BY DEF Nothing
<1> HIDE DEF m
<1>6. Receive(i, 0, m)
  BY <1>4
<1>7. ~m.heap.exited /\ HeapOf(m.heap, U \ {b})
  BY <1>1, <1>3, <1>5
<1> QED
  BY <1>1, <1>5, <1>6, <1>7, ReceiveNone

\* mm_malloc() preserves the invariant.
LEMMA MallocInv ==
  ASSUME HeapInv, NEW i \in Ids, NEW size \in Sizes, Malloc(i, size)
  PROVE  HeapInv'
<1>1. size \in Nat /\ size > 0
  BY DriverAssumption
<1>2. Running /\ i \in Ids \ Live /\ Receive(i, size, MmMalloc(heap, size))
  BY DEF Malloc
<1> QED
  BY <1>1, <1>2, NewBlock

\* mm_realloc() preserves the invariant: of no block, of a block, and to no size.
LEMMA ReallocInv ==
  ASSUME ~ResizeLast, HeapInv, NEW i \in Ids, NEW size \in Resizes, Realloc(i, size)
  PROVE  HeapInv'
<1>1. size \in Nat /\ (size # 0 => size > 0)
  BY DriverAssumption
<1>2. /\ Running /\ (size = 0 => pass = "valid" /\ i \in Live)
      /\ (i \in Live => Following(heap.mem, blocks[i] - PAYLOAD) # Epilogue)
      /\ Receive(i, size, MmRealloc(heap, blocks[i], size))
  BY DEF Realloc
<1>3. CASE i \notin Live
  <2>1. size > 0 /\ blocks[i] = NULL
    BY <1>1, <1>2, <1>3 DEF Live
  <2>2. MmRealloc(heap, blocks[i], size) = MmMalloc(heap, size)
    BY <2>1 DEF MmRealloc
  <2>3. Receive(i, size, MmMalloc(heap, size)) /\ i \in Ids \ Live
    BY <1>2, <1>3, <2>2
  <2> QED
    BY <1>1, <1>2, <2>1, <2>3, NewBlock
<1>4. CASE i \in Live /\ size # 0
  BY <1>1, <1>2, <1>4, SameBlock
<1>5. CASE i \in Live /\ size = 0
  BY <1>2, <1>5, NoBlock
<1> QED
  BY <1>3, <1>4, <1>5

\* mm_free() preserves the invariant.
LEMMA FreeInv ==
  ASSUME HeapInv, NEW i \in Ids, Free(i)
  PROVE  HeapInv'
<1> DEFINE U == OwnedIn(blocks, Live)
           b == blocks[i] - PAYLOAD
           J == Live \ {i}
<1>1. /\ Running /\ i \in Live /\ Remember(i, NULL, 0) /\ heap' = MmFree(heap, blocks[i])
      /\ asked' = asked /\ pass' = pass /\ verdict' = verdict
      /\ ranges' = (IF pass = "valid" THEN RemoveRange(ranges, blocks[i]) ELSE ranges)
  BY DEF Free
<1>2. /\ Sized(heap, Live, blocks, block_sizes) /\ HeapOf(heap, U) /\ Tables /\ ~heap.exited
      /\ Live \in SUBSET Ids
  BY <1>1 DEF HeapInv, Held, Sized, Running, Live
<1>3. b \in U /\ b + PAYLOAD = blocks[i]
  <2>1. blocks[i] \in Nat /\ blocks[i] > PAYLOAD
    BY <1>1, <1>2 DEF Sized
  <2> QED
    BY <1>1, <2>1 DEF OwnedIn, PAYLOAD
<1>4. U \ {b} = OwnedIn(blocks, J)
  <2>1. \A j \in Live : blocks[j] - PAYLOAD = b <=> j = i
    <3>1. ASSUME NEW j \in Live PROVE blocks[j] - PAYLOAD = b <=> j = i
      <4>1. blocks[j] \in Nat /\ blocks[i] \in Nat /\ (blocks[j] = blocks[i] => j = i)
        BY <1>1, <1>2 DEF Sized
      <4> QED
        BY <4>1 DEF PAYLOAD
    <3> QED
      BY <3>1
  <2> HIDE DEF b
  <2> QED
    BY <2>1 DEF OwnedIn
<1>5. /\ HeapOf(heap', U \ {b}) /\ Kept(heap.mem, heap'.mem, U \ {b}) /\ ~heap'.exited
  <2> HIDE DEF b, U
  <2>1. /\ HeapOf(MmFree(heap, b + PAYLOAD), U \ {b})
        /\ Kept(heap.mem, MmFree(heap, b + PAYLOAD).mem, U \ {b})
        /\ MmFree(heap, b + PAYLOAD).exited = heap.exited
    BY <1>2, <1>3, MmFreeIs
  <2>2. heap' = MmFree(heap, b + PAYLOAD)
    BY <1>1, <1>3
  <2> QED
    BY <1>2, <2>1, <2>2
<1>6. \A j \in Ids : j # i => blocks'[j] = blocks[j] /\ block_sizes'[j] = block_sizes[j]
  BY <1>1, <1>2 DEF Remember, Tables
<1>7. Live' = J
  <2>1. blocks'[i] = NULL
    BY <1>1, <1>2 DEF Remember, Tables
  <2> QED
    BY <1>6, <2>1 DEF Live
<1>8. OwnedIn(blocks', J) = U \ {b} /\ Extents(blocks', block_sizes', J) = Extents(blocks, block_sizes, J)
  <2>1. OwnedIn(blocks', J) = OwnedIn(blocks, J) /\ Extents(blocks', block_sizes', J) = Extents(blocks, block_sizes, J)
    BY <1>2, <1>6 DEF OwnedIn, Extents
  <2> QED
    BY <1>4, <2>1
<1>9. ASSUME NEW j \in J PROVE blocks[j] - PAYLOAD \in U \ {b}
  <2>1. blocks[j] - PAYLOAD \in OwnedIn(blocks, J)
    BY DEF OwnedIn
  <2> QED
    BY <1>4, <2>1
<1> HIDE DEF U, b
<1>a. Sized(heap', J, blocks', block_sizes')
  <2>1. \A j \in J : heap'.mem[blocks[j] - PAYLOAD] = heap.mem[blocks[j] - PAYLOAD]
    BY <1>5, <1>9 DEF Kept
  <2>2. \A j \in J : blocks'[j] = blocks[j] /\ block_sizes'[j] = block_sizes[j]
    BY <1>2, <1>6
  <2>3. J \in SUBSET Live /\ HeapOf(heap', OwnedIn(blocks', J))
    BY <1>5, <1>8
  <2> HIDE DEF J
  <2> QED
    BY <1>2, <2>1, <2>2, <2>3, SizedRest
<1>b. ASSUME pass = "valid"
      PROVE  Filled(heap', J, blocks', block_sizes') /\ ranges' = Extents(blocks', block_sizes', J)
  <2>1. Filled(heap, Live, blocks, block_sizes) /\ ranges = Extents(blocks, block_sizes, Live)
    BY <1>1, <1>b DEF HeapInv, Intact
  <2>2. ASSUME NEW j \in J PROVE Holds(heap', blocks'[j], block_sizes'[j], j)
    <3> DEFINE c == blocks[j] - PAYLOAD
               n == block_sizes[j]
    <3>1. blocks'[j] = blocks[j] /\ block_sizes'[j] = n /\ j \in Live
      BY <1>2, <1>6
    <3>2. n \in Nat /\ Size(heap.mem, c) >= n + 16 /\ c + PAYLOAD = blocks[j]
      <4>1. blocks[j] \in Nat /\ n \in Nat /\ Size(heap.mem, c) >= n + 16
        BY <1>2, <3>1 DEF Sized
      <4> QED
        BY <4>1 DEF PAYLOAD
    <3>3. c \in U /\ c \in U \ {b}
      BY <1>9
    <3>4. Holds(heap, c + PAYLOAD, n, j)
      BY <2>1, <3>1, <3>2 DEF Filled
    <3> HIDE DEF c, n
    <3>5. Holds(heap', c + PAYLOAD, n, j)
      BY <1>2, <1>5, <3>2, <3>3, <3>4, HoldsKept
    <3> QED
      BY <3>1, <3>2, <3>5
  <2>3. Filled(heap', J, blocks', block_sizes')
    BY <2>2 DEF Filled
  <2>4. RemoveRange(Extents(blocks, block_sizes, Live), blocks[i]) = Extents(blocks, block_sizes, J)
    BY <1>1, <1>2, OthersAre
  <2> QED
    BY <1>1, <1>8, <1>b, <2>1, <2>3, <2>4
<1>c. Tables'
  <2>1. asked' \in Nat /\ verdict' \in {"ok", "failed"} /\ NULL \in Nat
    BY <1>1, <1>2 DEF Tables, NULL
  <2> QED
    BY <1>1, <1>2, <2>1, TablesKept
<1>d. Whole' /\ Held' /\ Intact'
  BY <1>1, <1>5, <1>7, <1>a, <1>b DEF Whole, Held, Intact
<1>e. ExitOnlyWhenFull'
  BY <1>5 DEF ExitOnlyWhenFull
<1> QED
  BY <1>c, <1>d, <1>e DEF HeapInv

\* A program that has ended satisfies it on.
LEMMA SteadyInv == HeapInv /\ UNCHANGED vars => HeapInv'
<1> SUFFICES ASSUME HeapInv, UNCHANGED vars PROVE HeapInv'
  OBVIOUS
<1>1. /\ heap' = heap /\ blocks' = blocks /\ block_sizes' = block_sizes /\ asked' = asked
      /\ pass' = pass /\ verdict' = verdict /\ ranges' = ranges
  BY DEF vars, tracevars
<1>2. Live' = Live /\ Running' = Running
  BY <1>1 DEF Live, Running
<1>3. Tables' /\ Whole' /\ ExitOnlyWhenFull'
  BY <1>1 DEF HeapInv, Tables, Whole, ExitOnlyWhenFull
<1>4. Held' /\ Intact'
  BY <1>1, <1>2 DEF HeapInv, Held, Intact
<1> QED
  BY <1>3, <1>4 DEF HeapInv

\* Every step preserves the invariant.
LEMMA NextInv == ~ResizeLast /\ HeapInv /\ [Next]_vars => HeapInv'
<1> SUFFICES ASSUME ~ResizeLast, HeapInv, [Next]_vars PROVE HeapInv'
  OBVIOUS
<1>1. ASSUME NEW i \in Ids, NEW size \in Sizes, Malloc(i, size) PROVE HeapInv'
  BY <1>1, MallocInv
<1>2. ASSUME NEW i \in Ids, NEW size \in Resizes, Realloc(i, size) PROVE HeapInv'
  BY <1>2, ReallocInv
<1>3. ASSUME NEW i \in Ids, Free(i) PROVE HeapInv'
  BY <1>3, FreeInv
<1>4. CASE EndPass
  <2> DEFINE next == CASE pass = "valid" /\ verdict = "ok" -> "util"
                       [] pass = "util" -> "speed" [] OTHER -> "valid"
  <2>1. next \in {"valid", "util", "speed"}
    <3>1. CASE pass = "valid" /\ verdict = "ok"
      BY <3>1
    <3>2. CASE ~(pass = "valid" /\ verdict = "ok") /\ pass = "util"
      BY <3>2
    <3>3. CASE ~(pass = "valid" /\ verdict = "ok") /\ pass # "util"
      BY <3>3
    <3> QED
      BY <3>1, <3>2, <3>3
  <2>2. ~heap.exited /\ BeginPass(next)
    BY <1>4 DEF EndPass
  <2> HIDE DEF next
  <2> QED
    BY <2>1, <2>2, PassInv
<1>5. CASE TimeAgain
  BY <1>5, PassInv DEF TimeAgain
<1>6. CASE UNCHANGED vars
  BY <1>6, SteadyInv
<1> QED
  BY <1>1, <1>2, <1>3, <1>4, <1>5, <1>6 DEF Next

\* So it always holds.
LEMMA HeapInvHolds == ~ResizeLast /\ Spec => []HeapInv
<1>1. ~ResizeLast /\ HeapInv /\ [Next]_vars => HeapInv'
  BY NextInv
<1>2. Init => HeapInv
  BY InitInv
<1>3. CASE ResizeLast
  BY <1>3
<1>4. CASE ~ResizeLast
  <2>1. HeapInv /\ [Next]_vars => HeapInv'
    BY <1>1, <1>4
  <2>2. Spec => []HeapInv
    BY <1>2, <2>1, PTL DEF Spec
  <2> QED
    BY <2>2
<1> QED
  BY <1>3, <1>4

\* The invariant is stronger than the property of the run.
LEMMA ExactNow == HeapInv => HeapExact
<1> SUFFICES ASSUME HeapInv PROVE HeapExact
  OBVIOUS
<1> DEFINE used == {b \in BlockStarts \ {Epilogue} : Allocated(heap.mem, b)}
<1>1. PICK U : HeapOf(heap, U)
  BY DEF HeapInv, Whole
<1>2. HeapTiled /\ FreeListExact
  BY <1>1, TiledIs
<1>3. ASSUME Running
      PROVE  /\ used = {blocks[i] - PAYLOAD : i \in Live} /\ Cardinality(used) = Cardinality(Live)
             /\ \A i \in Live : Size(heap.mem, blocks[i] - PAYLOAD) >= block_sizes[i] + OVERHEAD
  <2> DEFINE V == OwnedIn(blocks, Live)
             f == [i \in Live |-> blocks[i] - PAYLOAD]
  <2>1. Sized(heap, Live, blocks, block_sizes)
    BY <1>3 DEF HeapInv, Held
  <2>2. HeapOf(heap, V)
    BY <2>1 DEF Sized
  <2>3. used = V /\ IsFiniteSet(V)
    <3> HIDE DEF V
    <3> QED
      BY <2>2, TiledIs
  <2>4. f \in [Live -> V] /\ \A x \in V : \E i \in Live : f[i] = x
    BY DEF OwnedIn
  <2>5. ASSUME NEW i \in Live, NEW j \in Live, f[i] = f[j] PROVE i = j
    <3>1. blocks[i] \in Nat /\ blocks[j] \in Nat /\ (blocks[i] = blocks[j] => i = j)
      BY <2>1 DEF Sized
    <3>2. blocks[i] - PAYLOAD = blocks[j] - PAYLOAD
      BY <2>5
    <3> QED
      BY <3>1, <3>2 DEF PAYLOAD
  <2> HIDE DEF f, V, used
  <2>6. f \in Injection(Live, V) /\ f \in Surjection(Live, V)
    BY <2>4, <2>5 DEF Injection, IsInjective, Surjection
  <2>7. Cardinality(Live) = Cardinality(V)
    BY <2>3, <2>6, FS_Injection
  <2>8. \A i \in Live : Size(heap.mem, blocks[i] - PAYLOAD) >= block_sizes[i] + OVERHEAD
    BY <2>1 DEF Sized, OVERHEAD
  <2>9. V = {blocks[i] - PAYLOAD : i \in Live}
    BY DEF V, OwnedIn
  <2> QED
    BY <2>3, <2>7, <2>8, <2>9
<1>4. InUseExact
  BY <1>3 DEF InUseExact
<1> QED
  BY <1>2, <1>4 DEF HeapExact

\* The heap is tiled by blocks, the list holds exactly the free ones, and those in use are the
\* driver's, each large enough for what it asked: no two payloads overlap, and no byte is lost
\* (HeapExact), whatever the sizes, the chunk, the end of the heap and the number of traces are.
THEOREM HeapIsExact == ~ResizeLast /\ Spec => []HeapExact
<1>1. HeapInv => HeapExact
  BY ExactNow
<1>2. ~ResizeLast /\ Spec => []HeapInv
  BY HeapInvHolds
<1>3. []HeapInv => []HeapExact
  BY <1>1, PTL
<1> QED
  BY <1>2, <1>3

\* No call changes the payload of a block it is not about, and a reallocated block holds what
\* it held; the driver never refuses a block (DataKept).
THEOREM DataIsKept == ~ResizeLast /\ Spec => []DataKept
<1>1. HeapInv => DataKept
  <2> SUFFICES ASSUME HeapInv PROVE DataKept
    OBVIOUS
  <2>1. verdict \notin {"lost", "refused"}
    BY DEF HeapInv, Tables
  <2>2. ASSUME pass = "valid", Running
        PROVE  /\ \A i \in Live : Holds(heap, blocks[i], block_sizes[i], i)
               /\ ranges = {Extent(blocks[i], block_sizes[i]) : i \in Live}
    BY <2>2 DEF HeapInv, Intact, Filled, Extents
  <2> QED
    BY <2>1, <2>2 DEF DataKept
<1>2. ~ResizeLast /\ Spec => []HeapInv
  BY HeapInvHolds
<1>3. []HeapInv => []DataKept
  BY <1>1, PTL
<1> QED
  BY <1>2, <1>3

\* expand_heap() ends the program only if the heap cannot grow by what was asked
\* (ExitOnlyWhenFull).
THEOREM ExitIsJust == ~ResizeLast /\ Spec => []ExitOnlyWhenFull
<1>1. HeapInv => ExitOnlyWhenFull
  BY DEF HeapInv
<1>2. ~ResizeLast /\ Spec => []HeapInv
  BY HeapInvHolds
<1>3. []HeapInv => []ExitOnlyWhenFull
  BY <1>1, PTL
<1> QED
  BY <1>2, <1>3

-----------------------------------------------------------------------------
(* The break never moves back within a pass.                                 *)

\* A heap, whatever its memory is.
IsHeap(h) == h \in [mem : {h.mem}, brk : Nat, exited : BOOLEAN]

\* Heap h2 ends where h does, or further on.
Rises(h, h2) == IsHeap(h2) /\ h.brk <= h2.brk

\* A change of the memory leaves the break.
LEMMA RisesMem ==
  ASSUME NEW h, IsHeap(h), NEW m
  PROVE  Rises(h, [h EXCEPT !.mem = m])
<1> DEFINE h2 == [h EXCEPT !.mem = m]
<1>1. h2.mem = m /\ h2.brk = h.brk /\ h2 \in [mem : {m}, brk : Nat, exited : BOOLEAN] /\ h.brk \in Nat
  BY DEF IsHeap
<1> HIDE DEF h2
<1>2. IsHeap(h2)
  BY <1>1 DEF IsHeap
<1> QED
  BY <1>1, <1>2 DEF Rises, h2

\* Nor does the end of the program move it.
LEMMA RisesExit ==
  ASSUME NEW h, IsHeap(h)
  PROVE  Rises(h, [h EXCEPT !.exited = TRUE])
<1> DEFINE h2 == [h EXCEPT !.exited = TRUE]
<1>1. /\ h2.mem = h.mem /\ h2.brk = h.brk /\ h2 \in [mem : {h.mem}, brk : Nat, exited : BOOLEAN]
      /\ h.brk \in Nat
  BY DEF IsHeap
<1> HIDE DEF h2
<1>2. IsHeap(h2)
  BY <1>1 DEF IsHeap
<1> QED
  BY <1>1, <1>2 DEF Rises, h2

\* mem_sbrk() moves it on.
LEMMA RisesSbrk ==
  ASSUME NEW h, IsHeap(h), NEW incr \in Nat
  PROVE  Rises(h, Sbrk(h, incr))
<1> DEFINE h2 == Sbrk(h, incr)
<1>1. /\ h2.mem = h.mem /\ h2.brk = h.brk + incr /\ h2 \in [mem : {h.mem}, brk : Nat, exited : BOOLEAN]
      /\ h.brk \in Nat
  BY DEF IsHeap, Sbrk
<1> HIDE DEF h2
<1>2. IsHeap(h2)
  BY <1>1 DEF IsHeap
<1> QED
  BY <1>1, <1>2 DEF Rises, h2

\* A heap that has grown twice has grown.
LEMMA RisesTwice ==
  ASSUME NEW h, IsHeap(h), NEW h2, Rises(h, h2), NEW h3, Rises(h2, h3)
  PROVE  Rises(h, h3)
<1>1. h.brk \in Nat /\ h2.brk \in Nat /\ h3.brk \in Nat
  BY DEF IsHeap, Rises
<1> QED
  BY <1>1 DEF Rises

\* One that has not changed has not shrunk.
LEMMA RisesSame == ASSUME NEW h, IsHeap(h) PROVE Rises(h, h)
<1>1. h.brk \in Nat
  BY DEF IsHeap
<1> QED
  BY <1>1 DEF Rises

\* expand_heap().
LEMMA ExpandRises ==
  ASSUME NEW h, IsHeap(h), NEW size \in Int
  PROVE  Rises(h, ExpandHeap(h, size))
<1> DEFINE m == CoalesceAll(h.mem)
           h1 == [h EXCEPT !.mem = m]
<1>1. Rises(h, h1) /\ IsHeap(h1)
  BY RisesMem DEF Rises
<1>2. CASE SbrkFails(h, size)
  <2>1. ExpandHeap(h, size) = [h1 EXCEPT !.exited = TRUE]
    BY <1>2 DEF ExpandHeap, IsHeap
  <2> HIDE DEF h1
  <2>2. Rises(h1, ExpandHeap(h, size))
    BY <1>1, <2>1, RisesExit
  <2> QED
    BY <1>1, <2>2, RisesTwice
<1>3. CASE ~SbrkFails(h, size)
  <2> DEFINE h2 == AddBlock(h1, size)
  <2>1. ExpandHeap(h, size) = Sbrk(h2, size)
    BY <1>3 DEF ExpandHeap
  <2>2. size \in Nat
    BY <1>3 DEF SbrkFails
  <2> HIDE DEF h1
  <2>3. \E mm : h2 = [h1 EXCEPT !.mem = mm]
    BY DEF AddBlock
  <2> HIDE DEF h2
  <2>4. Rises(h1, h2) /\ IsHeap(h2)
    BY <1>1, <2>3, RisesMem DEF Rises
  <2>5. Rises(h2, Sbrk(h2, size))
    BY <2>2, <2>4, RisesSbrk
  <2> QED
    BY <1>1, <2>1, <2>4, <2>5, RisesTwice
<1> QED
  BY <1>2, <1>3

\* What find_fit() has found is handed out.
LEMMA GrantedRises ==
  ASSUME NEW h, IsHeap(h), NEW found
  PROVE  Rises(h, Granted(h, found).heap)
<1>1. CASE found.block = NULL
  <2>1. Granted(h, found).heap = h
    BY <1>1 DEF Granted, Nothing
  <2> QED
    BY <2>1, RisesSame
<1>2. CASE found.block # NULL
  <2>1. Granted(h, found).heap = [h EXCEPT !.mem = SetAllocated(found.mem, found.block)]
    BY <1>2 DEF Granted
  <2> QED
    BY <2>1, RisesMem
<1> QED
  BY <1>1, <1>2

\* mm_malloc().
LEMMA MallocRises ==
  ASSUME NEW h, IsHeap(h), NEW size \in Nat
  PROVE  Rises(h, MmMalloc(h, size).heap)
<1> DEFINE need == GetBlockSize(size)
           fit == FindFit(h.mem, need)
           extra == IF need > Chunk THEN need ELSE Chunk
           h2 == ExpandHeap(h, extra)
<1>1. MmMalloc(h, size) = Place(h, fit, need)
  BY DEF MmMalloc
<1>2. extra \in Int
  BY BlockSizes, HeapAssumption
<1>3. Place(h, fit, need) = IF fit.block # NULL THEN Granted(h, fit) ELSE Retry(h2, need)
  BY DEF Place
<1> HIDE DEF need, fit, extra
<1>4. Rises(h, h2) /\ IsHeap(h2)
  BY <1>2, ExpandRises DEF Rises
<1> HIDE DEF h2
<1>5. Rises(h2, Retry(h2, need).heap)
  <2>1. CASE h2.exited
    <3>1. Retry(h2, need).heap = h2
      BY <2>1 DEF Retry, Nothing
    <3> QED
      BY <1>4, <3>1, RisesSame
  <2>2. CASE ~h2.exited
    <3>1. Retry(h2, need) = Granted(h2, FindFit(h2.mem, need))
      BY <2>2 DEF Retry
    <3> QED
      BY <1>4, <3>1, GrantedRises
  <2> QED
    BY <2>1, <2>2
<1>6. Rises(h, Retry(h2, need).heap)
  BY <1>4, <1>5, RisesTwice
<1> QED
  BY <1>1, <1>3, <1>6, GrantedRises

\* mm_free().
LEMMA FreeRises ==
  ASSUME NEW h, IsHeap(h), NEW ptr
  PROVE  Rises(h, MmFree(h, ptr))
<1>1. MmFree(h, ptr) = h \/ \E m : MmFree(h, ptr) = [h EXCEPT !.mem = m]
  BY DEF MmFree, Release
<1> QED
  BY <1>1, RisesMem, RisesSame

\* mm_realloc().
LEMMA ReallocRises ==
  ASSUME NEW h, IsHeap(h), NEW ptr, NEW size \in Nat,
         ptr # NULL => Size(h.mem, ptr - PAYLOAD) \in Int /\ Size(Unlinked(h, ptr - PAYLOAD).mem, ptr - PAYLOAD) \in Int
  PROVE  Rises(h, MmRealloc(h, ptr, size).heap)
<1> DEFINE b == ptr - PAYLOAD
           clear == Unlinked(h, b)
           wide == Absorbed(clear, b)
           need == GetBlockSize(size)
<1>1. CASE ptr = NULL
  <2>1. MmRealloc(h, ptr, size) = MmMalloc(h, size)
    BY <1>1 DEF MmRealloc
  <2> QED
    BY <2>1, MallocRises
<1>2. CASE ptr # NULL /\ size = 0
  <2>1. MmRealloc(h, ptr, size).heap = MmFree(h, ptr)
    BY <1>2 DEF MmRealloc, Nothing
  <2> QED
    BY <2>1, FreeRises
<1>3. CASE ptr # NULL /\ size # 0
  <2>1. MmRealloc(h, ptr, size) = Resize(clear, wide, b, size, need)
    BY <1>3 DEF MmRealloc
  <2>2. Size(clear.mem, b) \in Int /\ need \in Int
    BY <1>3, BlockSizes
  <2>3. Rises(h, clear) /\ IsHeap(clear)
    BY RisesMem DEF Unlinked, Rises
  <2> HIDE DEF b, clear, need
  <2>4. Rises(clear, wide) /\ IsHeap(wide)
    <3>1. wide = clear \/ \E m : wide = [clear EXCEPT !.mem = m]
      BY DEF Absorbed
    <3> HIDE DEF wide
    <3> QED
      BY <2>3, <3>1, RisesMem, RisesSame DEF Rises
  <2> HIDE DEF wide
  <2>5. Rises(clear, Shrink(clear, b, need)) /\ Rises(clear, Shrink(wide, b, need))
    <3>1. Rises(clear, Shrink(clear, b, need)) /\ Rises(wide, Shrink(wide, b, need))
      BY <2>3, <2>4, RisesMem DEF Shrink
    <3> QED
      BY <2>3, <2>4, <3>1, RisesTwice
  <2>6. Rises(clear, Extend(clear, b, need))
    <3> DEFINE extra == need - Size(clear.mem, b)
               h2 == ExpandHeap(clear, extra)
    <3>1. extra \in Int
      BY <2>2
    <3> HIDE DEF extra
    <3>2. Rises(clear, h2) /\ IsHeap(h2)
      BY <2>3, <3>1, ExpandRises DEF Rises
    <3>3. Extend(clear, b, need) = Swallow(h2, b, need)
      BY DEF Extend, extra
    <3> HIDE DEF h2
    <3>4. Swallow(h2, b, need) = h2 \/ \E m : Swallow(h2, b, need) = [h2 EXCEPT !.mem = m]
      BY DEF Swallow
    <3>5. Rises(h2, Swallow(h2, b, need))
      BY <3>2, <3>4, RisesMem, RisesSame
    <3> QED
      BY <2>3, <3>2, <3>3, <3>5, RisesTwice
  <2>7. Rises(clear, MoveTo(MmMalloc(wide, size), b + PAYLOAD, size).heap)
    <3> DEFINE new == MmMalloc(wide, size)
               h2 == new.heap
               h3 == [h2 EXCEPT !.mem = Copy(h2.mem, new.ptr, b + PAYLOAD, size)]
    <3>1. Rises(wide, h2)
      BY <2>4, MallocRises
    <3>2. Rises(clear, h2) /\ IsHeap(h2)
      BY <2>3, <2>4, <3>1, RisesTwice DEF Rises
    <3> HIDE DEF h2
    <3>3. Rises(h2, h3) /\ IsHeap(h3)
      BY <3>2, RisesMem DEF Rises
    <3>4. Rises(h3, MmFree(h3, b + PAYLOAD))
      <4> HIDE DEF h3
      <4> QED
        BY <3>3, FreeRises
    <3>5. MoveTo(new, b + PAYLOAD, size).heap = h2 \/ MoveTo(new, b + PAYLOAD, size).heap = MmFree(h3, b + PAYLOAD)
      BY DEF MoveTo, h2
    <3> HIDE DEF h3
    <3>6. Rises(clear, MmFree(h3, b + PAYLOAD))
      <4>1. Rises(clear, h3)
        BY <2>3, <3>2, <3>3, RisesTwice
      <4> QED
        BY <2>3, <3>4, <4>1, RisesTwice
    <3> QED
      BY <3>2, <3>5, <3>6
  <2> DEFINE a == Resize(clear, wide, b, size, need)
  <2>8. \/ a.heap = Shrink(clear, b, need) \/ a.heap = Extend(clear, b, need)
        \/ a.heap = Shrink(wide, b, need) \/ a.heap = MoveTo(MmMalloc(wide, size), b + PAYLOAD, size).heap
    BY DEF Resize, Same
  <2> HIDE DEF a
  <2>9. Rises(clear, a.heap)
    BY <2>5, <2>6, <2>7, <2>8
  <2> QED
    BY <2>1, <2>3, <2>9, RisesTwice DEF a
<1> QED
  BY <1>1, <1>2, <1>3

-----------------------------------------------------------------------------
(* The payloads of the blocks in use fit into the heap together.             *)

\* The blocks below t, in whatever order they lie, do not ask for more than t.
SumFits(h, bl, bs, J) ==
  \A t \in Nat : /\ 24 <= t
                 /\ \A j \in J : (bl[j] - PAYLOAD) + Size(h.mem, bl[j] - PAYLOAD) <= t
                 => Total(bs, J) + 24 <= t

\* Where the heap ends.
LEMMA BrkIs ==
  ASSUME NEW h, NEW U, HeapOf(h, U)
  PROVE  h.brk \in Nat /\ 28 <= h.brk /\ h.brk \in Addresses
<1>1. PICK B, r : Pool(h.mem, h.brk - WORD, B, r, {})
  BY DEF HeapOf
<1> DEFINE top == h.brk - WORD
<1>2. Shape(h.mem, top, B)
  BY <1>1 DEF Pool
<1> HIDE DEF top
<1>3. top \in Nat /\ top % 4 = 0 /\ First <= top
  BY <1>2, Geometry
<1>4. h.brk \in Nat /\ h.brk <= MaxAddr /\ MaxAddr \in Nat
  BY AddressIs DEF HeapOf, Heaps
<1>5. top = h.brk - 4 /\ 24 <= top
  BY <1>3 DEF top, WORD, First, HeapLo
<1>6. h.brk % 4 = 0
  BY <1>3, <1>4, <1>5
<1>7. h.brk \in Addresses
  BY <1>3, <1>4, <1>5, <1>6, AddressIs
<1> QED
  BY <1>3, <1>4, <1>5, <1>7

\* The driver has only so many blocks.
LEMMA LiveFinite ==
  ASSUME NEW h, NEW I \in SUBSET Ids, NEW bl, NEW bs, Sized(h, I, bl, bs)
  PROVE  IsFiniteSet(I) /\ \A i \in I : bs[i] \in Nat
<1> DEFINE V == OwnedIn(bl, I)
           f == [i \in I |-> bl[i] - PAYLOAD]
<1>1. HeapOf(h, V)
  BY DEF Sized
<1>2. IsFiniteSet(V)
  <2> HIDE DEF V
  <2> QED
    <3>1. \A b \in V : b \in 0 .. MaxAddr
      <4>1. ASSUME NEW b \in V PROVE b \in 0 .. MaxAddr
        <5>1. /\ b \in Nat /\ Size(h.mem, b) \in Nat /\ h.brk \in Nat /\ MaxAddr \in Nat
              /\ b + Size(h.mem, b) <= h.brk - 4 /\ h.brk <= MaxAddr
          BY <1>1, InHeap
        <5> QED
          BY <5>1
      <4> QED
        BY <4>1
    <3>2. IsFiniteSet(0 .. MaxAddr)
      BY AddressIs, FS_Interval
    <3> QED
      BY <3>1, <3>2, FS_Subset
<1>3. f \in [I -> V]
  BY DEF OwnedIn
<1>4. ASSUME NEW i \in I, NEW j \in I, f[i] = f[j] PROVE i = j
  <2>1. bl[i] \in Nat /\ bl[j] \in Nat /\ (bl[i] = bl[j] => i = j)
    BY DEF Sized
  <2>2. bl[i] - PAYLOAD = bl[j] - PAYLOAD
    BY <1>4
  <2> QED
    BY <2>1, <2>2 DEF PAYLOAD
<1> HIDE DEF f, V
<1>5. f \in Injection(I, V)
  BY <1>3, <1>4 DEF Injection, IsInjective
<1>6. IsFiniteSet(I)
  BY <1>2, <1>5, FS_Injection
<1> QED
  BY <1>6 DEF Sized

\* The blocks of some indices lie one behind the other.
LEMMA SumFitsIs ==
  ASSUME NEW h, NEW I \in SUBSET Ids, NEW bl, NEW bs, Sized(h, I, bl, bs)
  PROVE  SumFits(h, bl, bs, I)
<1> DEFINE D == {J \in SUBSET I : ~SumFits(h, bl, bs, J)}
           at(j) == bl[j] - PAYLOAD
           size(j) == Size(h.mem, bl[j] - PAYLOAD)
<1>1. SUFFICES ASSUME D # {} PROVE FALSE
  <2>1. I \notin D
    BY <1>1
  <2> QED
    BY <2>1
<1>2. IsFiniteSet(I) /\ \A i \in I : bs[i] \in Nat
  BY LiveFinite
<1>3. PICK A \in D : MinimalIn(D, A)
  <2>1. D \subseteq SUBSET I
    OBVIOUS
  <2> HIDE DEF D
  <2> QED
    BY <1>1, <1>2, <2>1, MinimalSubset
<1>4. A \in SUBSET I /\ ~SumFits(h, bl, bs, A) /\ IsFiniteSet(A) /\ \A j \in A : bs[j] \in Nat /\ bs[j] \in Int
  BY <1>2, <1>3, FS_Subset
<1>5. \A j \in I : /\ at(j) \in Nat /\ 24 <= at(j) /\ size(j) \in Nat /\ bs[j] + 16 <= size(j)
                   /\ \A k \in I : at(k) < at(j) => at(k) + size(k) <= at(j)
  <2>1. ASSUME NEW j \in I
        PROVE  /\ at(j) \in Nat /\ 24 <= at(j) /\ size(j) \in Nat
               /\ \A k \in I : at(k) < at(j) => at(k) + size(k) <= at(j)
    <3> DEFINE V == OwnedIn(bl, I)
    <3>1. HeapOf(h, V) /\ \A k \in I : at(k) \in V
      BY DEF Sized, OwnedIn
    <3> HIDE DEF V
    <3> QED
      BY <3>1, InHeap
  <2>2. \A j \in I : bs[j] \in Nat /\ bs[j] + 16 <= size(j)
    BY <2>1 DEF Sized
  <2> QED
    BY <2>1, <2>2
<1>6. \A j, k \in I : at(j) = at(k) => j = k
  <2>1. \A j, k \in I : bl[j] \in Nat /\ bl[k] \in Nat /\ (bl[j] = bl[k] => j = k)
    BY DEF Sized
  <2> QED
    BY <2>1 DEF PAYLOAD
<1>7. PICK t \in Nat : /\ 24 <= t /\ \A j \in A : at(j) + size(j) <= t
                       /\ ~(Total(bs, A) + 24 <= t)
  BY <1>4 DEF SumFits
<1>8. A # {}
  <2>1. Total(bs, {}) = 0
    BY <1>4, TotalNat
  <2> QED
    BY <1>7, <2>1
<1>9. PICK x \in A : \A j \in A : at(j) <= at(x)
  <2> DEFINE S == {at(j) : j \in A}
  <2>1. S \in SUBSET Nat /\ S # {}
    BY <1>4, <1>5, <1>8
  <2>2. IsFiniteSet(S)
    <3> DEFINE f == [j \in A |-> at(j)]
    <3>1. f \in [A -> S] /\ \A s \in S : \E j \in A : f[j] = s
      OBVIOUS
    <3> HIDE DEF f, S
    <3>2. f \in Surjection(A, S)
      BY <3>1 DEF Surjection
    <3> QED
      BY <1>4, <3>2, FS_Surjection
  <2>3. PICK s \in S : \A r \in S : r <= s
    <3> HIDE DEF S
    <3> QED
      BY <2>1, <2>2, GreatestExists
  <2> QED
    BY <2>3
<1> DEFINE J == A \ {x}
<1>a. SumFits(h, bl, bs, J)
  <2>1. J \in SUBSET I /\ J \notin D
    <3>1. J \subseteq A /\ J # A
      OBVIOUS
    <3> HIDE DEF J, D
    <3> QED
      BY <1>3, <1>4, <3>1 DEF MinimalIn
  <2> QED
    BY <2>1
<1>b. Total(bs, A) = bs[x] + Total(bs, J) /\ Total(bs, J) \in Nat
  <2>1. IsFiniteSet(J) /\ \A j \in J : bs[j] \in Nat
    BY <1>4, FS_Subset
  <2>2. Total(bs, A) = bs[x] + Total(bs, J)
    BY <1>4, TotalWith
  <2> HIDE DEF J
  <2>3. Total(bs, J) \in Nat
    BY <2>1, TotalNat
  <2> QED
    BY <2>2, <2>3
<1>c. Total(bs, J) + 24 <= at(x)
  <2>1. at(x) \in Nat /\ 24 <= at(x)
    BY <1>4, <1>5
  <2>2. ASSUME NEW j \in J PROVE at(j) + size(j) <= at(x)
    <3>1. j \in I /\ x \in I /\ j # x /\ at(j) <= at(x)
      BY <1>4, <1>9
    <3>2. at(j) # at(x) /\ at(j) \in Nat /\ at(x) \in Nat
      BY <1>5, <1>6, <3>1
    <3>3. at(j) < at(x)
      <4> HIDE DEF at
      <4> QED
        BY <3>1, <3>2
    <3> QED
      BY <1>5, <3>1, <3>3
  <2> HIDE DEF J
  <2> QED
    BY <1>a, <2>1, <2>2 DEF SumFits
<1>d. at(x) \in Nat /\ size(x) \in Nat /\ bs[x] \in Nat /\ bs[x] + 16 <= size(x) /\ at(x) + size(x) <= t
  BY <1>4, <1>5, <1>7
<1> HIDE DEF at, size, J
<1> QED
  BY <1>7, <1>b, <1>c, <1>d

\* What the driver has asked for is less than the heap.
LEMMA TotalBelow ==
  ASSUME NEW h, NEW I \in SUBSET Ids, NEW bl, NEW bs, Sized(h, I, bl, bs)
  PROVE  /\ Total(bs, I) \in Nat /\ h.brk \in Nat
         /\ Total(bs, I) <= h.brk - HeapLo
<1>1. Total(bs, I) \in Nat
  BY LiveFinite, TotalNat
<1>2. HeapOf(h, OwnedIn(bl, I))
  BY DEF Sized
<1>3. h.brk \in Nat /\ 28 <= h.brk
  BY <1>2, BrkIs
<1>4. ASSUME NEW j \in I PROVE (bl[j] - PAYLOAD) + Size(h.mem, bl[j] - PAYLOAD) <= h.brk - 4
  <2>1. bl[j] - PAYLOAD \in OwnedIn(bl, I)
    BY DEF OwnedIn
  <2> QED
    BY <1>2, <2>1, InHeap
<1> DEFINE t == h.brk - 4
<1>5. t \in Nat /\ 24 <= t
  BY <1>3
<1>6. SumFits(h, bl, bs, I)
  BY SumFitsIs
<1>7. Total(bs, I) + 24 <= t
  <2> HIDE DEF t
  <2>1. \A j \in I : (bl[j] - PAYLOAD) + Size(h.mem, bl[j] - PAYLOAD) <= t
    BY <1>4 DEF t
  <2> QED
    BY <1>5, <1>6, <2>1 DEF SumFits
<1> QED
  BY <1>1, <1>3, <1>7 DEF HeapLo

-----------------------------------------------------------------------------
(* What the driver counts.                                                   *)

\* In eval_mm_util() the sum is that of the blocks in use, and the most it was fits into the heap.
Tallies ==
  /\ blocks \in [Ids -> Addresses \cup {NULL}]
  /\ ranges \subseteq [lo : Addresses, hi : Nat]
  /\ total_size \in Nat /\ max_total_size \in Nat
  /\ pass # "valid" => verdict = "ok"
  /\ pass = "util" /\ ~heap.exited =>
       /\ total_size = Total(block_sizes, Live) /\ total_size <= max_total_size
       /\ max_total_size <= heap.brk - HeapLo

\* The sum when block i gets a new size.
LEMMA TotalMore ==
  ASSUME NEW I \in SUBSET Ids, IsFiniteSet(I), NEW bs \in [Ids -> Nat], NEW i \in Ids,
         i \in I \/ bs[i] = 0, NEW bs2 \in [Ids -> Nat], \A j \in Ids : j # i => bs2[j] = bs[j]
  PROVE  /\ Total(bs, I) \in Nat /\ Total(bs2, I \cup {i}) \in Nat /\ Total(bs2, I \ {i}) \in Nat
         /\ Total(bs2, I \cup {i}) + bs[i] = Total(bs, I) + bs2[i]
         /\ Total(bs2, I \ {i}) + bs[i] = Total(bs, I)
<1> DEFINE J == I \ {i}
           K == I \cup {i}
<1>1. IsFiniteSet(J) /\ IsFiniteSet(K) /\ J \subseteq Ids /\ K \subseteq Ids /\ i \in K /\ K \ {i} = J
  BY FS_Subset, FS_AddElement
<1>2. \A j \in Ids : bs[j] \in Nat /\ bs2[j] \in Nat /\ bs[j] \in Int /\ bs2[j] \in Int
  OBVIOUS
<1>3. \A j \in J : bs2[j] = bs[j]
  OBVIOUS
<1> HIDE DEF J, K
<1>4. Total(bs2, J) = Total(bs, J) /\ Total(bs, J) \in Nat
  <2>1. \A j \in J : bs[j] \in Int /\ bs[j] \in Nat
    BY <1>1, <1>2
  <2> QED
    BY <1>1, <1>3, <2>1, TotalSame, TotalNat
<1>5. Total(bs2, K) = bs2[i] + Total(bs2, J)
  <2>1. \A j \in K : bs2[j] \in Int
    BY <1>1, <1>2
  <2>2. Total(bs2, K) = bs2[i] + Total(bs2, K \ {i})
    BY <1>1, <2>1, TotalWith
  <2> QED
    BY <1>1, <2>2
<1>6. Total(bs, I) = bs[i] + Total(bs, J)
  <2>1. CASE i \in I
    <3>1. \A j \in I : bs[j] \in Int
      BY <1>2
    <3> QED
      BY <2>1, <3>1, TotalWith DEF J
  <2>2. CASE i \notin I
    <3>1. J = I /\ bs[i] = 0
      BY <2>2 DEF J
    <3> QED
      BY <1>4, <3>1
  <2> QED
    BY <2>1, <2>2
<1>7. Total(bs2, J) + bs[i] = Total(bs, I)
  BY <1>2, <1>4, <1>6
<1>8. Total(bs2, K) + bs[i] = Total(bs, I) + bs2[i]
  BY <1>2, <1>4, <1>5, <1>6
<1>9. Total(bs, I) \in Nat /\ Total(bs2, K) \in Nat /\ Total(bs2, J) \in Nat
  BY <1>2, <1>4, <1>5, <1>6
<1> QED
  BY <1>7, <1>8, <1>9 DEF J, K

\* The answer is a block of a heap that goes on.
Given(m, size) ==
  /\ ~m.heap.exited
  /\ \E b2, V : /\ HeapOf(m.heap, V) /\ b2 \in V /\ b2 + PAYLOAD = m.ptr
                /\ Size(m.heap.mem, b2) >= size + 16

\* Its pointer is an address of the heap.
LEMMA GivenAddress ==
  ASSUME NEW size \in Nat, NEW m, Given(m, size)
  PROVE  m.ptr \in Addresses /\ m.ptr \in Nat /\ m.ptr > 0
<1>1. PICK b2, V : /\ HeapOf(m.heap, V) /\ b2 \in V /\ b2 + PAYLOAD = m.ptr
                   /\ Size(m.heap.mem, b2) >= size + 16
  BY DEF Given
<1> DEFINE v == Size(m.heap.mem, b2)
           brk == m.heap.brk
           p == m.ptr
<1>2. /\ b2 \in Nat /\ b2 % 4 = 0 /\ 24 <= b2 /\ v \in Nat /\ brk \in Nat
      /\ b2 + v <= brk - 4 /\ brk <= MaxAddr /\ MaxAddr \in Nat
  BY <1>1, InHeap
<1>3. b2 + 12 = p /\ v >= size + 16
  BY <1>1 DEF PAYLOAD
<1> HIDE DEF v, brk, p
<1>4. p \in Nat /\ p % 4 = 0 /\ 4 <= p /\ p <= MaxAddr /\ p > 0
  BY <1>2, <1>3
<1> QED
  BY <1>4, AddressIs DEF p

\* The tallies after a call that gives block i a new size.
LEMMA ReceiveTallies ==
  ASSUME HeapInv, Tallies, Running, NEW i \in Ids, NEW size \in Nat, NEW m, m.ptr = NULL \/ Given(m, size),
         Rises(heap, m.heap), Receive(i, size, m), HeapInv'
  PROVE  Tallies'
<1> DEFINE p == m.ptr
           h2 == m.heap
<1>1. /\ h2 \in [mem : {h2.mem}, brk : Nat, exited : BOOLEAN] /\ heap.brk <= h2.brk /\ h2.brk \in Nat
      /\ heap.brk \in Nat
  <2>1. \E U : HeapOf(heap, U)
    BY DEF HeapInv, Whole
  <2>2. heap.brk \in Nat
    BY <2>1, BrkIs
  <2> QED
    BY <2>2 DEF Rises, IsHeap
<1>2. /\ pass' = pass /\ Remember(i, p, size) /\ verdict = "ok" /\ ~heap.exited
      /\ blocks \in [Ids -> Addresses \cup {NULL}] /\ ranges \subseteq [lo : Addresses, hi : Nat]
      /\ total_size \in Nat /\ max_total_size \in Nat
      /\ block_sizes \in [Ids -> Nat] /\ block_sizes' \in [Ids -> Nat]
      /\ \A j \in Ids : blocks[j] = NULL => block_sizes[j] = 0
  BY DEF Receive, Tallies, Running, HeapInv, Tables
<1>3. p = NULL \/ (p \in Addresses /\ p \in Nat /\ p > 0)
  <2>1. ASSUME Given(m, size) PROVE m.ptr \in Addresses /\ m.ptr \in Nat /\ m.ptr > 0
    BY <2>1, GivenAddress
  <2> QED
    BY <2>1
<1>4. blocks' \in [Ids -> Addresses \cup {NULL}]
  BY <1>2, <1>3 DEF Remember
<1>5. ranges' \subseteq [lo : Addresses, hi : Nat]
  <2>1. CASE pass = "valid"
    <3> DEFINE others == RemoveRange(ranges, blocks[i])
               r == Extent(p, size)
    <3>1. others \subseteq ranges
      BY DEF RemoveRange
    <3>2. p # NULL => r \in [lo : Addresses, hi : Nat]
      <4>1. p # NULL => p \in Addresses /\ p + size - 1 \in Nat
        BY <1>3
      <4> QED
        BY <4>1 DEF Extent
    <3>3. Check(i, size, m)
      BY <2>1 DEF Receive
    <3> HIDE DEF others, r, p
    <3>4. ranges' = ranges \/ ranges' = others \/ (p # NULL /\ ranges' = others \cup {r})
      <4>1. verdict' \in {"ok", "lost"} => p # NULL
        BY <3>3 DEF Check, p
      <4>2. ranges' = IF verdict' \in {"ok", "lost"} THEN others \cup {r} ELSE IF p = NULL THEN ranges ELSE others
        BY <3>3 DEF Check, others, r, p
      <4> QED
        BY <4>1, <4>2
    <3> QED
      BY <1>2, <3>1, <3>2, <3>4
  <2>2. CASE pass # "valid"
    BY <1>2, <2>2 DEF Receive
  <2> QED
    BY <2>1, <2>2
<1>6. pass # "valid" => verdict' = "ok"
  BY <1>2 DEF Receive
<1>7. (pass = "util" /\ p # NULL) \/ UNCHANGED utilvars
  BY DEF Receive
<1>8. CASE ~(pass = "util" /\ p # NULL)
  <2>1. total_size' = total_size /\ max_total_size' = max_total_size
    BY <1>7, <1>8 DEF utilvars
  <2>2. pass = "util" => heap'.exited
    <3> SUFFICES ASSUME pass = "util" PROVE heap'.exited
      OBVIOUS
    <3>1. heap' = [h2 EXCEPT !.exited = h2.exited \/ m.ptr = NULL] /\ m.ptr = NULL
      BY <1>8 DEF Receive
    <3> DEFINE e == h2.exited \/ m.ptr = NULL
    <3>2. e \in BOOLEAN /\ e
      BY <3>1
    <3>3. heap' = [h2 EXCEPT !.exited = e]
      BY <3>1
    <3> HIDE DEF e, h2
    <3>4. [h2 EXCEPT !.exited = e].exited = e
      BY <1>1
    <3> QED
      BY <3>2, <3>3, <3>4
  <2> QED
    BY <1>2, <1>4, <1>5, <1>6, <2>1, <2>2 DEF Tallies
<1>9. CASE pass = "util" /\ p # NULL
  <2>1. Account(i, size) /\ verdict' = "ok"
    BY <1>6, <1>9 DEF Receive
  <2>2. ~h2.exited
    BY <1>9 DEF Given
  <2>3. ~heap'.exited /\ heap'.brk = h2.brk
    <3>1. heap' = [h2 EXCEPT !.exited = h2.exited \/ m.ptr = NULL] /\ m.ptr # NULL
      BY <1>9 DEF Receive
    <3> DEFINE e == h2.exited \/ m.ptr = NULL
    <3>2. e \in BOOLEAN /\ ~e
      BY <2>2, <3>1
    <3>3. heap' = [h2 EXCEPT !.exited = e]
      BY <3>1
    <3> HIDE DEF e, h2
    <3>4. [h2 EXCEPT !.exited = e].exited = e /\ [h2 EXCEPT !.exited = e].brk = h2.brk
      BY <1>1
    <3> QED
      BY <3>2, <3>3, <3>4
  <2>4. Sized(heap', Live', blocks', block_sizes')
    <3>1. Running'
      BY <2>1, <2>3 DEF Running
    <3> QED
      BY <3>1 DEF HeapInv, Held
  <2>5. Sized(heap, Live, blocks, block_sizes)
    BY DEF HeapInv, Held
  <2>6. Live \in SUBSET Ids /\ Live' \in SUBSET Ids
    BY DEF Live
  <2>7. /\ Total(block_sizes', Live') \in Nat
        /\ Total(block_sizes', Live') <= heap'.brk - HeapLo
    BY <2>4, <2>6, TotalBelow
  <2>8. IsFiniteSet(Live)
    BY <2>5, <2>6, LiveFinite
  <2>9. /\ blocks'[i] = p /\ block_sizes'[i] = size
        /\ \A j \in Ids : j # i => blocks'[j] = blocks[j] /\ block_sizes'[j] = block_sizes[j]
    BY <1>2, <1>9 DEF Remember
  <2>a. Live' = Live \cup {i} /\ (i \in Live \/ block_sizes[i] = 0)
    BY <1>2, <1>9, <2>9 DEF Live
  <2>b. /\ Total(block_sizes, Live) \in Nat
        /\ Total(block_sizes', Live \cup {i}) + block_sizes[i] = Total(block_sizes, Live) + block_sizes'[i]
    BY <1>2, <2>6, <2>8, <2>9, <2>a, TotalMore
  <2>c. /\ total_size = Total(block_sizes, Live) /\ total_size <= max_total_size
        /\ max_total_size <= heap.brk - HeapLo
    BY <1>2, <1>9 DEF Tallies
  <2> DEFINE T == Total(block_sizes', Live')
  <2>d. T + block_sizes[i] = total_size + size /\ T \in Nat /\ block_sizes[i] \in Nat
    BY <1>2, <2>7, <2>9, <2>a, <2>b, <2>c
  <2>e. total_size' = total_size + size - block_sizes[i]
        /\ max_total_size' = IF total_size' > max_total_size THEN total_size' ELSE max_total_size
    BY <2>1 DEF Account
  <2>f. T <= heap'.brk - HeapLo
    BY <2>7
  <2> HIDE DEF T
  <2>g. total_size' = T
    BY <1>2, <2>d, <2>e
  <2>h. total_size' \in Nat /\ max_total_size' \in Nat /\ total_size' <= max_total_size'
    BY <1>2, <2>d, <2>e, <2>g
  <2>i. max_total_size' <= heap'.brk - HeapLo
    <3>1. max_total_size <= heap'.brk - HeapLo
      BY <1>1, <1>2, <2>3, <2>c DEF HeapLo
    <3> QED
      BY <2>e, <2>f, <2>g, <3>1
  <2> QED
    BY <1>4, <1>5, <1>6, <2>1, <2>g, <2>h, <2>i DEF Tallies, T
<1> QED
  BY <1>8, <1>9

\* A heap that is whole is a heap.
LEMMA WholeIsHeap ==
  ASSUME NEW h, NEW U, HeapOf(h, U)
  PROVE  IsHeap(h)
BY DEF HeapOf, Heaps, IsHeap

\* mm_malloc() answers with a block, or with NULL.
LEMMA MallocGives ==
  ASSUME NEW h, NEW U, HeapOf(h, U), ~h.exited, NEW size \in Nat
  PROVE  /\ MmMalloc(h, size).ptr = NULL \/ Given(MmMalloc(h, size), size)
         /\ Rises(h, MmMalloc(h, size).heap)
<1> DEFINE m == MmMalloc(h, size)
           need == GetBlockSize(size)
<1>1. Answer(h, U, need, m)
  BY MmMallocIs
<1>2. need \in Nat /\ need >= size + 16
  BY BlockSizes
<1>3. Rises(h, m.heap)
  BY WholeIsHeap, MallocRises
<1> HIDE DEF m, need
<1>4. CASE m.ptr = NULL
  BY <1>3, <1>4 DEF m
<1>5. CASE \E b \in Nat : /\ m.ptr = b + PAYLOAD /\ ~m.heap.exited
                          /\ HeapOf(m.heap, U \cup {b}) /\ Size(m.heap.mem, b) >= need
  <2>1. PICK b \in Nat : /\ b + PAYLOAD = m.ptr /\ ~m.heap.exited
                         /\ HeapOf(m.heap, U \cup {b}) /\ Size(m.heap.mem, b) >= need
    BY <1>5
  <2>2. Size(m.heap.mem, b) \in Nat
    BY <2>1, InHeap
  <2>3. Size(m.heap.mem, b) >= size + 16
    BY <1>2, <2>1, <2>2
  <2>4. Given(m, size)
    BY <2>1, <2>3 DEF Given
  <2> QED
    BY <1>3, <2>4 DEF m
<1> QED
  BY <1>1, <1>4, <1>5 DEF Answer

\* A block in use is at an address of the memory.
LEMMA UsedAddress ==
  ASSUME NEW h, NEW U, HeapOf(h, U), NEW b \in U
  PROVE  b \in Addresses
<1>1. PICK B, r : Pool(h.mem, h.brk - WORD, B, r, {}) /\ UsedIn(h.mem, h.brk - WORD, B) = U
  BY DEF HeapOf
<1>2. b \in B /\ Shape(h.mem, h.brk - WORD, B)
  BY <1>1 DEF Pool, UsedIn
<1> QED
  BY <1>2, Geometry

\* The break of a heap whose block b has been unlinked and resized.
LEMMA BlockRises ==
  ASSUME NEW h, NEW U, HeapOf(h, U), NEW b \in U, NEW size \in Nat
  PROVE  Rises(h, MmRealloc(h, b + PAYLOAD, size).heap)
<1> DEFINE p == b + PAYLOAD
<1>1. IsHeap(h) /\ h \in Heaps
  BY WholeIsHeap DEF HeapOf
<1>2. b \in Nat /\ Size(h.mem, b) \in Nat
  BY InHeap
<1>3. p - PAYLOAD = b
  BY <1>2 DEF PAYLOAD
<1>4. Size(Unlinked(h, b).mem, b) \in Int
  <2> DEFINE m2 == [h.mem EXCEPT ![b + PREV] = NULL, ![b + NEXT] = NULL]
  <2>1. Unlinked(h, b).mem = m2
    BY <1>1 DEF Unlinked, Heaps
  <2>2. b + PREV # b /\ b + NEXT # b
    BY <1>2 DEF PREV, NEXT
  <2>3. b \in Addresses /\ h.mem \in [Addresses -> Nat]
    <3>1. b \in Addresses
      BY UsedAddress
    <3> QED
      BY <1>1, <3>1 DEF Heaps
  <2>4. m2[b] = h.mem[b]
    BY <2>2, <2>3
  <2> HIDE DEF m2
  <2>5. Size(m2, b) = Size(h.mem, b)
    BY <2>4, SameSize
  <2> QED
    BY <1>2, <2>1, <2>5
<1> HIDE DEF p
<1>5. Size(h.mem, p - PAYLOAD) \in Int /\ Size(Unlinked(h, p - PAYLOAD).mem, p - PAYLOAD) \in Int
  BY <1>2, <1>3, <1>4
<1>6. Rises(h, MmRealloc(h, p, size).heap)
  BY <1>1, <1>5, ReallocRises
<1> QED
  BY <1>6 DEF p

\* mm_realloc() of a block in use answers with a block, or with NULL.
LEMMA ReallocGives ==
  ASSUME NEW h, NEW U, HeapOf(h, U), ~h.exited, NEW b \in U, NEW size \in Nat, size # 0,
         Following(h.mem, b) # h.brk - WORD
  PROVE  /\ \/ MmRealloc(h, b + PAYLOAD, size).ptr = NULL
            \/ Given(MmRealloc(h, b + PAYLOAD, size), size)
         /\ Rises(h, MmRealloc(h, b + PAYLOAD, size).heap)
<1> DEFINE m == MmRealloc(h, b + PAYLOAD, size)
           need == GetBlockSize(size)
<1>1. Resized(h, U, b, size, m)
  BY MmReallocIs
<1>2. need \in Nat /\ need >= size + 16
  BY BlockSizes
<1>3. Rises(h, m.heap)
  BY BlockRises
<1> HIDE DEF m, need
<1>4. CASE m.ptr = NULL
  BY <1>3, <1>4 DEF m
<1>5. CASE \E b2 \in Nat : /\ m.ptr = b2 + PAYLOAD /\ ~m.heap.exited
                           /\ HeapOf(m.heap, (U \ {b}) \cup {b2})
                           /\ Size(m.heap.mem, b2) >= need
  <2>1. PICK b2 \in Nat : /\ b2 + PAYLOAD = m.ptr /\ ~m.heap.exited
                          /\ HeapOf(m.heap, (U \ {b}) \cup {b2})
                          /\ Size(m.heap.mem, b2) >= need
    BY <1>5
  <2>2. Size(m.heap.mem, b2) \in Nat
    BY <2>1, InHeap
  <2>3. Size(m.heap.mem, b2) >= size + 16
    BY <1>2, <2>1, <2>2
  <2>4. Given(m, size)
    BY <2>1, <2>3 DEF Given
  <2> QED
    BY <1>3, <2>4 DEF m
<1> QED
  BY <1>1, <1>4, <1>5 DEF Resized, need

\* mm_malloc() keeps the tallies.
LEMMA MallocTallies ==
  ASSUME HeapInv, Tallies, HeapInv', NEW i \in Ids, NEW size \in Sizes, Malloc(i, size)
  PROVE  Tallies'
<1> DEFINE m == MmMalloc(heap, size)
<1>1. size \in Nat /\ Running /\ ~heap.exited /\ Receive(i, size, m)
  BY DriverAssumption DEF Malloc, Running
<1>2. PICK U : HeapOf(heap, U)
  BY DEF HeapInv, Whole
<1>3. (m.ptr = NULL \/ Given(m, size)) /\ Rises(heap, m.heap)
  BY <1>1, <1>2, MallocGives
<1> HIDE DEF m
<1> QED
  BY <1>1, <1>3, ReceiveTallies

\* So does mm_realloc().
LEMMA ReallocTallies ==
  ASSUME ~ResizeLast, HeapInv, Tallies, HeapInv', NEW i \in Ids, NEW size \in Resizes, Realloc(i, size)
  PROVE  Tallies'
<1> DEFINE m == MmRealloc(heap, blocks[i], size)
<1>1. size \in Nat /\ Running /\ ~heap.exited /\ Receive(i, size, m)
  BY DriverAssumption DEF Realloc, Running
<1>2. (m.ptr = NULL \/ Given(m, size)) /\ Rises(heap, m.heap)
  <2>1. CASE i \notin Live
    <3>1. PICK U : HeapOf(heap, U)
      BY DEF HeapInv, Whole
    <3>2. m = MmMalloc(heap, size)
      BY <2>1 DEF MmRealloc, Live
    <3> HIDE DEF m
    <3>3. /\ MmMalloc(heap, size).ptr = NULL \/ Given(MmMalloc(heap, size), size)
          /\ Rises(heap, MmMalloc(heap, size).heap)
      BY <1>1, <3>1, MallocGives
    <3> QED
      BY <3>2, <3>3
  <2>2. CASE i \in Live
    <3> DEFINE b == blocks[i] - PAYLOAD
               U == OwnedIn(blocks, Live)
    <3>1. Sized(heap, Live, blocks, block_sizes)
      BY <1>1 DEF HeapInv, Held
    <3>2. HeapOf(heap, U) /\ blocks[i] \in Nat /\ blocks[i] > PAYLOAD
      BY <2>2, <3>1 DEF Sized
    <3>3. b \in U /\ b + PAYLOAD = blocks[i]
      BY <2>2, <3>2 DEF OwnedIn, PAYLOAD
    <3>4. Following(heap.mem, b) # heap.brk - WORD
      BY <2>2 DEF Realloc, Epilogue
    <3>5. CASE size # 0
      <4> HIDE DEF m, b, U
      <4>1. /\ \/ MmRealloc(heap, b + PAYLOAD, size).ptr = NULL
               \/ Given(MmRealloc(heap, b + PAYLOAD, size), size)
            /\ Rises(heap, MmRealloc(heap, b + PAYLOAD, size).heap)
        BY <1>1, <3>2, <3>3, <3>4, <3>5, ReallocGives
      <4>2. m = MmRealloc(heap, b + PAYLOAD, size)
        BY <3>3 DEF m
      <4> QED
        BY <4>1, <4>2
    <3>6. CASE size = 0
      <4>1. m = Nothing(MmFree(heap, blocks[i]))
        BY <2>2, <3>6 DEF MmRealloc, Live
      <4>2. Rises(heap, MmFree(heap, blocks[i]))
        BY <3>2, WholeIsHeap, FreeRises
      <4> HIDE DEF m
      <4> QED
        BY <4>1, <4>2 DEF Nothing
    <3> QED
      BY <3>5, <3>6
  <2> QED
    BY <2>1, <2>2
<1> HIDE DEF m
<1> QED
  BY <1>1, <1>2, ReceiveTallies

\* So does mm_free().
LEMMA FreeTallies ==
  ASSUME HeapInv, Tallies, HeapInv', NEW i \in Ids, Free(i)
  PROVE  Tallies'
<1>1. /\ Running /\ i \in Live /\ i \in Ids /\ Remember(i, NULL, 0) /\ heap' = MmFree(heap, blocks[i])
      /\ pass' = pass /\ verdict' = verdict
      /\ ranges' = (IF pass = "valid" THEN RemoveRange(ranges, blocks[i]) ELSE ranges)
  BY DEF Free
<1>2. /\ blocks \in [Ids -> Addresses \cup {NULL}] /\ ranges \subseteq [lo : Addresses, hi : Nat]
      /\ total_size \in Nat /\ max_total_size \in Nat
      /\ block_sizes \in [Ids -> Nat] /\ block_sizes' \in [Ids -> Nat]
      /\ pass # "valid" => verdict = "ok"
  BY DEF Tallies, HeapInv, Tables
<1>3. Sized(heap, Live, blocks, block_sizes) /\ ~heap.exited /\ Live \in SUBSET Ids
  BY <1>1 DEF HeapInv, Held, Running, Live
<1>4. heap'.brk = heap.brk
  <2> DEFINE U == OwnedIn(blocks, Live)
             b == blocks[i] - PAYLOAD
  <2>1. HeapOf(heap, U) /\ blocks[i] \in Nat /\ b \in U
    BY <1>1, <1>3 DEF Sized, OwnedIn
  <2>2. b + PAYLOAD = blocks[i]
    BY <2>1 DEF PAYLOAD
  <2> HIDE DEF U, b
  <2>3. MmFree(heap, b + PAYLOAD).brk = heap.brk
    BY <2>1, MmFreeIs
  <2> QED
    BY <1>1, <2>2, <2>3
<1>5. blocks' \in [Ids -> Addresses \cup {NULL}] /\ ranges' \subseteq [lo : Addresses, hi : Nat]
  BY <1>1, <1>2 DEF Remember, RemoveRange
<1>6. CASE pass # "util"
  <2>1. total_size' = total_size /\ max_total_size' = max_total_size
    BY <1>6 DEF Free, utilvars
  <2> QED
    BY <1>1, <1>2, <1>5, <1>6, <2>1 DEF Tallies
<1>7. CASE pass = "util"
  <2>1. IsFiniteSet(Live)
    BY <1>3, LiveFinite
  <2>2. \A j \in Ids : j # i => blocks'[j] = blocks[j] /\ block_sizes'[j] = block_sizes[j]
    BY <1>1, <1>2 DEF Remember
  <2>3. Live' = Live \ {i}
    <3>1. blocks'[i] = NULL
      BY <1>1, <1>2 DEF Remember
    <3> QED
      BY <2>2, <3>1 DEF Live
  <2>4. /\ Total(block_sizes, Live) \in Nat /\ Total(block_sizes', Live \ {i}) \in Nat
        /\ Total(block_sizes', Live \ {i}) + block_sizes[i] = Total(block_sizes, Live)
    BY <1>1, <1>2, <1>3, <2>1, <2>2, TotalMore
  <2>5. /\ total_size = Total(block_sizes, Live) /\ total_size <= max_total_size
        /\ max_total_size <= heap.brk - HeapLo
    BY <1>3, <1>7 DEF Tallies
  <2>6. Account(i, 0)
    BY <1>7 DEF Free
  <2>7. total_size' = total_size + 0 - block_sizes[i]
        /\ max_total_size' = IF total_size' > max_total_size THEN total_size' ELSE max_total_size
    BY <2>6 DEF Account
  <2> DEFINE T == Total(block_sizes', Live')
  <2>8. T \in Nat /\ T + block_sizes[i] = total_size /\ block_sizes[i] \in Nat
    BY <1>1, <1>2, <2>3, <2>4, <2>5
  <2> HIDE DEF T
  <2>9. total_size' = T /\ T <= max_total_size
    BY <1>2, <2>5, <2>7, <2>8
  <2>a. max_total_size' = max_total_size
    BY <1>2, <2>7, <2>8, <2>9
  <2>b. /\ total_size' \in Nat /\ max_total_size' \in Nat /\ total_size' <= max_total_size'
        /\ max_total_size' <= heap'.brk - HeapLo
    BY <1>2, <1>4, <2>5, <2>8, <2>9, <2>a
  <2> QED
    BY <1>1, <1>2, <1>5, <2>9, <2>b DEF Tallies, T
<1> QED
  BY <1>6, <1>7

\* A pass that begins has nothing to count.
Uncounted ==
  /\ blocks = [i \in Ids |-> NULL] /\ block_sizes = [i \in Ids |-> 0]
  /\ total_size = 0 /\ max_total_size = 0 /\ verdict = "ok"
  /\ ranges \subseteq [lo : Addresses, hi : Nat]

\* So its tallies are right.
LEMMA PassTallies == Uncounted /\ HeapInv => Tallies
<1> SUFFICES ASSUME Uncounted, HeapInv PROVE Tallies
  OBVIOUS
<1> USE DEF Uncounted
<1>1. Live = {}
  BY DEF Live
<1>2. Total(block_sizes, {}) = 0
  <2>1. IsFiniteSet({}) /\ \A x \in {} : block_sizes[x] \in Nat
    BY FS_EmptySet
  <2> QED
    BY <2>1, TotalNat
<1>3. heap.brk \in Nat /\ 28 <= heap.brk
  BY BrkIs DEF HeapInv, Whole
<1>4. 0 <= heap.brk - HeapLo
  BY <1>3 DEF HeapLo
<1>5. blocks \in [Ids -> Addresses \cup {NULL}] /\ total_size \in Nat /\ max_total_size \in Nat
  OBVIOUS
<1> QED
  BY <1>1, <1>2, <1>4, <1>5 DEF Tallies

\* The tallies of every step.
LEMMA NextTallies == ~ResizeLast /\ HeapInv /\ Tallies /\ [Next]_vars /\ HeapInv' => Tallies'
<1> SUFFICES ASSUME ~ResizeLast, HeapInv, Tallies, [Next]_vars, HeapInv' PROVE Tallies'
  OBVIOUS
<1>1. ASSUME NEW i \in Ids, NEW size \in Sizes, Malloc(i, size) PROVE Tallies'
  BY <1>1, MallocTallies
<1>2. ASSUME NEW i \in Ids, NEW size \in Resizes, Realloc(i, size) PROVE Tallies'
  BY <1>2, ReallocTallies
<1>3. ASSUME NEW i \in Ids, Free(i) PROVE Tallies'
  BY <1>3, FreeTallies
<1>4. ASSUME NEW next, BeginPass(next) PROVE Tallies'
  <2>1. Uncounted'
    BY <1>4 DEF BeginPass, ClearRanges, Tallies, Uncounted
  <2>2. Uncounted' /\ HeapInv' => Tallies'
    BY PassTallies, PTL
  <2> QED
    BY <2>1, <2>2
<1>5. CASE EndPass
  BY <1>4, <1>5 DEF EndPass
<1>6. CASE TimeAgain
  BY <1>4, <1>6 DEF TimeAgain
<1>7. CASE UNCHANGED vars
  <2>1. /\ heap' = heap /\ blocks' = blocks /\ block_sizes' = block_sizes /\ Live' = Live
        /\ pass' = pass /\ verdict' = verdict /\ ranges' = ranges
        /\ total_size' = total_size /\ max_total_size' = max_total_size
    BY <1>7 DEF vars, tracevars, utilvars, Live
  <2> QED
    BY <2>1 DEF Tallies
<1> QED
  BY <1>1, <1>2, <1>3, <1>5, <1>6, <1>7 DEF Next

\* Heap and tallies together always hold.
LEMMA TalliesHold == ~ResizeLast /\ Spec => [](HeapInv /\ Tallies)
<1>1. ~ResizeLast /\ HeapInv /\ Tallies /\ [Next]_vars => HeapInv' /\ Tallies'
  BY NextInv, NextTallies
<1>2. Init => HeapInv /\ Tallies
  <2>1. Init => HeapInv
    BY InitInv
  <2>2. ASSUME Init, HeapInv PROVE Tallies
    BY <2>2, PassTallies DEF Init, Uncounted
  <2> QED
    BY <2>1, <2>2
<1>3. CASE ResizeLast
  BY <1>3
<1>4. CASE ~ResizeLast
  <2>1. (HeapInv /\ Tallies) /\ [Next]_vars => (HeapInv /\ Tallies)'
    BY <1>1, <1>4
  <2>2. Spec => [](HeapInv /\ Tallies)
    BY <1>2, <2>1, PTL DEF Spec
  <2> QED
    BY <2>2
<1> QED
  BY <1>3, <1>4

\* The variables have their types (TypeOK): an address of the heap for each block in use, ranges
\* of addresses, and sums that never turn negative although sizes are taken off.
THEOREM TypeCorrect == ~ResizeLast /\ Spec => []TypeOK
<1>1. HeapInv /\ Tallies => TypeOK
  <2> SUFFICES ASSUME HeapInv, Tallies PROVE TypeOK
    OBVIOUS
  <2>1. PICK U : HeapOf(heap, U)
    BY DEF HeapInv, Whole
  <2>2. heap.brk \in Addresses
    BY <2>1, BrkIs
  <2>3. heap \in [mem : [Addresses -> Nat], brk : Nat, exited : BOOLEAN]
    BY <2>1 DEF HeapOf, Heaps
  <2>4. heap \in [mem : [Addresses -> Nat], brk : Addresses, exited : BOOLEAN]
    BY <2>2, <2>3
  <2> QED
    BY <2>4 DEF TypeOK, HeapInv, Tables, Tallies
<1>2. ~ResizeLast /\ Spec => [](HeapInv /\ Tallies)
  BY TalliesHold
<1>3. [](HeapInv /\ Tallies) => []TypeOK
  BY <1>1, PTL
<1> QED
  BY <1>2, <1>3

\* In eval_mm_util() the sum kept by differences is that of the sizes of the blocks in use, and
\* the high water mark of the blocks never exceeds the heap (UtilFits).
THEOREM UtilizationFits == ~ResizeLast /\ Spec => []UtilFits
<1>1. HeapInv /\ Tallies => UtilFits
  BY DEF Tallies, UtilFits, Total
<1>2. ~ResizeLast /\ Spec => [](HeapInv /\ Tallies)
  BY TalliesHold
<1>3. [](HeapInv /\ Tallies) => []UtilFits
  BY <1>1, PTL
<1> QED
  BY <1>2, <1>3
=============================================================================
