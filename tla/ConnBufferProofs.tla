------------------------- MODULE ConnBufferProofs -------------------------
(***************************************************************************)
(* Proofs about the connection buffer, for any number of threads, any size *)
(* of the ring and any number of connections.                              *)
(***************************************************************************)
EXTENDS ConnBuffer, Sequences, FiniteSetTheorems, TLAPS

USE ThreadsAssumption, SizeAssumption, BoundAssumption
    DEF ThreadsAssumption, SizeAssumption, BoundAssumption

-----------------------------------------------------------------------------
(* Remainders: two positions of a window no longer than the ring are stored  *)
(* at different places.                                                      *)

LEMMA DivMod ==
  ASSUME NEW n \in Nat \ {0}, NEW a \in Int
  PROVE  /\ a = n * (a \div n) + (a % n)
         /\ a \div n \in Int
         /\ a % n \in 0 .. n - 1
OBVIOUS

LEMMA Multiple ==
  ASSUME NEW n \in Nat \ {0}, NEW k \in Int, 0 < n * k
  PROVE  n * k >= n
<1>1. k >= 1
  OBVIOUS
<1> QED
  BY <1>1

LEMMA ModDiffers ==
  ASSUME NEW n \in Nat \ {0}, NEW a \in Int, NEW b \in Int, b < a, a - b < n
  PROVE  a % n # b % n
<1> SUFFICES ASSUME a % n = b % n PROVE FALSE
  OBVIOUS
<1> DEFINE p == a \div n
           q == b \div n
           r == a % n
<1>1. a = n * p + r /\ b = n * q + r /\ p \in Int /\ q \in Int /\ r \in Int
  BY DivMod
<1> HIDE DEF p, q, r
<1>2. n * (p - q) = n * p - n * q
  BY <1>1
<1>3. a - b = n * (p - q) /\ p - q \in Int
  BY <1>1, <1>2
<1>4. n * (p - q) >= n
  BY <1>3, Multiple
<1> QED
  BY <1>3, <1>4

-----------------------------------------------------------------------------
(* Sets of threads are finite, and a thread that enters or leaves one changes *)
(* its cardinality by one.                                                    *)

LEMMA ThreadSet ==
  ASSUME NEW S \in SUBSET Threads
  PROVE  IsFiniteSet(S) /\ Cardinality(S) \in Nat
BY FS_Subset, FS_CardinalityType

LEMMA Enter ==
  ASSUME NEW S \in SUBSET Threads, NEW t \in Threads, t \notin S
  PROVE  Cardinality(S \cup {t}) = Cardinality(S) + 1
BY ThreadSet, FS_AddElement

LEMMA Leave ==
  ASSUME NEW S \in SUBSET Threads, NEW t \in S
  PROVE  Cardinality(S \ {t}) = Cardinality(S) - 1
BY ThreadSet, FS_RemoveElement

\* The counters of threads are natural numbers.
LEMMA Counts ==
  /\ Reserved \in SUBSET Threads /\ Cardinality(Reserved) \in Nat
  /\ Owing \in SUBSET Threads /\ Cardinality(Owing) \in Nat
<1>1. Reserved \in SUBSET Threads /\ Owing \in SUBSET Threads
  BY DEF Reserved, Owing
<1> QED
  BY <1>1, ThreadSet

\* A step of main changes neither set.
LEMMA MainKeepsCounts ==
  ASSUME TypeOK, NEW l, Goto(Main, l)
  PROVE  Reserved' = Reserved /\ Owing' = Owing
BY DEF TypeOK, Goto, Reserved, Owing, Procs

\* A step of a thread to label l.
LEMMA ThreadMoves ==
  ASSUME TypeOK, NEW t \in Threads, NEW l, Goto(t, l)
  PROVE  /\ pc' \in [Procs -> {pc[p] : p \in Procs} \cup {l}]
         /\ pc'[t] = l /\ pc'[Main] = pc[Main]
         /\ \A u \in Threads \ {t} : pc'[u] = pc[u]
         /\ Reserved' = IF l \in {"lock", "load", "fetch"} THEN Reserved \cup {t} ELSE Reserved \ {t}
         /\ Owing' = IF l \in {"unlock", "post"} THEN Owing \cup {t} ELSE Owing \ {t}
BY DEF TypeOK, Goto, Reserved, Owing, Procs

-----------------------------------------------------------------------------
LEMMA InitInv == Init => IInv
<1> SUFFICES ASSUME Init PROVE IInv
  OBVIOUS
<1>1. Reserved = {} /\ Owing = {}
  BY DEF Init, Reserved, Owing, Procs
<1>2. Cardinality(Reserved) = 0 /\ Cardinality(Owing) = 0
  BY <1>1, FS_EmptySet
<1>3. TypeOK
  <2>1. pc \in [Procs -> MainLabels \cup ThreadLabels] /\ pc[Main] = "accept"
        /\ \A t \in Threads : pc[t] = "items"
    BY DEF Init, Procs, MainLabels, ThreadLabels
  <2>2. "accept" \in MainLabels /\ "items" \in ThreadLabels
    BY DEF MainLabels, ThreadLabels
  <2>3. 0 \in 0 .. MaxConn /\ BUFFER_SIZE \in 0 .. BUFFER_SIZE /\ 0 \in 0 .. BUFFER_SIZE
    OBVIOUS
  <2>4. data \in [0 .. BUFFER_SIZE - 1 -> 0 .. MaxConn]
    BY <2>3 DEF Init
  <2>5. reg \in [Threads -> 0 .. MaxConn] /\ conn \in [Procs -> 0 .. MaxConn]
    BY <2>3 DEF Init
  <2>6. /\ front \in 0 .. MaxConn /\ tail \in 0 .. MaxConn /\ accepted \in 0 .. MaxConn
        /\ mutex \in 0 .. 1 /\ slots \in 0 .. BUFFER_SIZE /\ items \in 0 .. BUFFER_SIZE
        /\ closed \subseteq 1 .. MaxConn
    BY <2>3 DEF Init
  <2>7. exited \in BOOLEAN
    BY DEF Init
  <2> QED
    BY <2>1, <2>2, <2>4, <2>5, <2>6, <2>7 DEF TypeOK
<1>4. Stored = 0 /\ Window = {}
  BY DEF Init, Stored, Window, Procs
<1>5. LockInv
  BY DEF Init, LockInv, InCS, MutualExclusion, Procs
<1>6. ItemsInv /\ SlotsInv
  BY <1>2, <1>4 DEF Init, ItemsInv, SlotsInv, One, Procs
<1>7. MainInv /\ ContentInv /\ RegInv /\ OwnInv
  BY <1>4 DEF Init, MainInv, ContentInv, RegInv, OwnInv, Procs
<1> QED
  BY <1>3, <1>5, <1>6, <1>7 DEF IInv

LEMMA AcceptInv == IInv /\ Accept => IInv'
<1> SUFFICES ASSUME IInv, Accept PROVE IInv'
  OBVIOUS
<1>1. Reserved' = Reserved /\ Owing' = Owing
  BY MainKeepsCounts DEF IInv, Accept
<1>2. pc'[Main] = "slots" /\ \A t \in Threads : pc'[t] = pc[t]
  BY DEF IInv, TypeOK, Accept, Goto, Procs
<1>3. TypeOK'
  <2>1. /\ pc' \in [Procs -> MainLabels \cup ThreadLabels]
        /\ pc'[Main] \in MainLabels /\ \A u \in Threads : pc'[u] \in ThreadLabels
    BY <1>2 DEF IInv, TypeOK, Accept, Goto, Procs, MainLabels
  <2>2. /\ data' \in [0 .. BUFFER_SIZE - 1 -> 0 .. MaxConn]
        /\ reg' \in [Threads -> 0 .. MaxConn] /\ conn' \in [Procs -> 0 .. MaxConn]
    BY <1>2 DEF IInv, TypeOK, Accept, Procs, MainInv, Stored
  <2>3. mutex' \in 0 .. 1 /\ slots' \in 0 .. BUFFER_SIZE /\ items' \in 0 .. BUFFER_SIZE
    BY Counts, <1>2 DEF IInv, TypeOK, Accept, LockInv, ItemsInv, SlotsInv, InCS, Stored, One, Procs
  <2>4. /\ front' \in 0 .. MaxConn /\ tail' \in 0 .. MaxConn /\ accepted' \in 0 .. MaxConn
        /\ closed' \subseteq 1 .. MaxConn
    BY Counts, <1>2 DEF IInv, TypeOK, Accept, MainInv, RegInv, ItemsInv, OwnInv, Stored, One
  <2>5. exited' \in BOOLEAN
    BY DEF IInv, TypeOK, Accept
  <2> QED
    BY <2>1, <2>2, <2>3, <2>4, <2>5 DEF TypeOK
<1>4. LockInv'
  BY <1>2 DEF IInv, TypeOK, Accept, LockInv, MutualExclusion, InCS, Procs
<1>5. ItemsInv' /\ SlotsInv'
  BY <1>1, <1>2, Counts DEF IInv, TypeOK, Accept, ItemsInv, SlotsInv, One, Stored
<1>6. MainInv'
  BY <1>2 DEF IInv, TypeOK, Accept, MainInv, Stored, Procs
<1>7. ContentInv'
  BY <1>2 DEF IInv, TypeOK, Accept, ContentInv, Window, Stored
<1>8. RegInv'
  BY <1>2 DEF IInv, Accept, RegInv
<1>9. OwnInv'
  BY <1>2 DEF IInv, TypeOK, Accept, OwnInv, Procs
<1> QED
  BY <1>3, <1>4, <1>5, <1>6, <1>7, <1>8, <1>9 DEF IInv

LEMMA ProduceWaitSlotInv == IInv /\ ProduceWaitSlot => IInv'
<1> SUFFICES ASSUME IInv, ProduceWaitSlot PROVE IInv'
  OBVIOUS
<1>1. Reserved' = Reserved /\ Owing' = Owing
  BY MainKeepsCounts DEF IInv, ProduceWaitSlot
<1>2. pc'[Main] = "lock" /\ \A t \in Threads : pc'[t] = pc[t]
  BY DEF IInv, TypeOK, ProduceWaitSlot, Goto, Procs
<1>3. TypeOK'
  <2>1. /\ pc' \in [Procs -> MainLabels \cup ThreadLabels]
        /\ pc'[Main] \in MainLabels /\ \A u \in Threads : pc'[u] \in ThreadLabels
    BY <1>2 DEF IInv, TypeOK, ProduceWaitSlot, Goto, Procs, MainLabels
  <2>2. /\ data' \in [0 .. BUFFER_SIZE - 1 -> 0 .. MaxConn]
        /\ reg' \in [Threads -> 0 .. MaxConn] /\ conn' \in [Procs -> 0 .. MaxConn]
    BY <1>2 DEF IInv, TypeOK, ProduceWaitSlot, Procs, MainInv, Stored
  <2>3. mutex' \in 0 .. 1 /\ slots' \in 0 .. BUFFER_SIZE /\ items' \in 0 .. BUFFER_SIZE
    BY Counts, <1>2 DEF IInv, TypeOK, ProduceWaitSlot, LockInv, ItemsInv, SlotsInv, InCS, Stored, One, Procs
  <2>4. /\ front' \in 0 .. MaxConn /\ tail' \in 0 .. MaxConn /\ accepted' \in 0 .. MaxConn
        /\ closed' \subseteq 1 .. MaxConn
    BY Counts, <1>2 DEF IInv, TypeOK, ProduceWaitSlot, MainInv, RegInv, ItemsInv, OwnInv, Stored, One
  <2>5. exited' \in BOOLEAN
    BY DEF IInv, TypeOK, ProduceWaitSlot
  <2> QED
    BY <2>1, <2>2, <2>3, <2>4, <2>5 DEF TypeOK
<1>4. LockInv'
  BY <1>2 DEF IInv, TypeOK, ProduceWaitSlot, LockInv, MutualExclusion, InCS, Procs
<1>5. ItemsInv' /\ SlotsInv'
  BY <1>1, <1>2, Counts DEF IInv, TypeOK, ProduceWaitSlot, ItemsInv, SlotsInv, One, Stored
<1>6. MainInv'
  BY <1>2 DEF IInv, TypeOK, ProduceWaitSlot, MainInv, Stored, Procs
<1>7. ContentInv'
  BY <1>2 DEF IInv, TypeOK, ProduceWaitSlot, ContentInv, Window, Stored
<1>8. RegInv'
  BY <1>2 DEF IInv, ProduceWaitSlot, RegInv
<1>9. OwnInv'
  BY <1>2 DEF IInv, TypeOK, ProduceWaitSlot, OwnInv, Procs
<1> QED
  BY <1>3, <1>4, <1>5, <1>6, <1>7, <1>8, <1>9 DEF IInv

LEMMA ProduceLockInv == IInv /\ ProduceLock => IInv'
<1> SUFFICES ASSUME IInv, ProduceLock PROVE IInv'
  OBVIOUS
<1>1. Reserved' = Reserved /\ Owing' = Owing
  BY MainKeepsCounts DEF IInv, ProduceLock
<1>2. pc'[Main] = "bump" /\ \A t \in Threads : pc'[t] = pc[t]
  BY DEF IInv, TypeOK, ProduceLock, Goto, Procs
<1>3. TypeOK'
  <2>1. /\ pc' \in [Procs -> MainLabels \cup ThreadLabels]
        /\ pc'[Main] \in MainLabels /\ \A u \in Threads : pc'[u] \in ThreadLabels
    BY <1>2 DEF IInv, TypeOK, ProduceLock, Goto, Procs, MainLabels
  <2>2. /\ data' \in [0 .. BUFFER_SIZE - 1 -> 0 .. MaxConn]
        /\ reg' \in [Threads -> 0 .. MaxConn] /\ conn' \in [Procs -> 0 .. MaxConn]
    BY <1>2 DEF IInv, TypeOK, ProduceLock, Procs, MainInv, Stored
  <2>3. mutex' \in 0 .. 1 /\ slots' \in 0 .. BUFFER_SIZE /\ items' \in 0 .. BUFFER_SIZE
    BY Counts, <1>2 DEF IInv, TypeOK, ProduceLock, LockInv, ItemsInv, SlotsInv, InCS, Stored, One, Procs
  <2>4. /\ front' \in 0 .. MaxConn /\ tail' \in 0 .. MaxConn /\ accepted' \in 0 .. MaxConn
        /\ closed' \subseteq 1 .. MaxConn
    BY Counts, <1>2 DEF IInv, TypeOK, ProduceLock, MainInv, RegInv, ItemsInv, OwnInv, Stored, One
  <2>5. exited' \in BOOLEAN
    BY DEF IInv, TypeOK, ProduceLock
  <2> QED
    BY <2>1, <2>2, <2>3, <2>4, <2>5 DEF TypeOK
<1>4. LockInv'
  BY <1>2 DEF IInv, TypeOK, ProduceLock, LockInv, MutualExclusion, InCS, Procs
<1>5. ItemsInv' /\ SlotsInv'
  BY <1>1, <1>2, Counts DEF IInv, TypeOK, ProduceLock, ItemsInv, SlotsInv, One, Stored
<1>6. MainInv'
  BY <1>2 DEF IInv, TypeOK, ProduceLock, MainInv, Stored, Procs
<1>7. ContentInv'
  BY <1>2 DEF IInv, TypeOK, ProduceLock, ContentInv, Window, Stored
<1>8. RegInv'
  BY <1>2 DEF IInv, ProduceLock, RegInv
<1>9. OwnInv'
  BY <1>2 DEF IInv, TypeOK, ProduceLock, OwnInv, Procs
<1> QED
  BY <1>3, <1>4, <1>5, <1>6, <1>7, <1>8, <1>9 DEF IInv

LEMMA ProduceBumpInv == IInv /\ ProduceBump => IInv'
<1> SUFFICES ASSUME IInv, ProduceBump PROVE IInv'
  OBVIOUS
<1>1. Reserved' = Reserved /\ Owing' = Owing
  BY MainKeepsCounts DEF IInv, ProduceBump
<1>2. pc'[Main] = "store" /\ \A t \in Threads : pc'[t] = pc[t]
  BY DEF IInv, TypeOK, ProduceBump, Goto, Procs
<1>3. TypeOK'
  BY Counts, <1>2 DEF IInv, TypeOK, ProduceBump, Goto, Procs, MainLabels, LockInv, ItemsInv, SlotsInv, MainInv, InCS, Stored, One
<1>4. LockInv'
  BY <1>2 DEF IInv, TypeOK, ProduceBump, LockInv, MutualExclusion, InCS, Procs
<1>5. ItemsInv' /\ SlotsInv'
  BY <1>1, <1>2, Counts DEF IInv, TypeOK, ProduceBump, ItemsInv, SlotsInv, One, Stored
<1>6. MainInv'
  BY <1>2 DEF IInv, TypeOK, ProduceBump, MainInv, Stored, Procs
<1>7. ContentInv'
  <2>1. Window' = Window
    BY <1>2 DEF IInv, TypeOK, ProduceBump, Window, Stored
  <2> QED
    BY <2>1 DEF IInv, ProduceBump, ContentInv
<1>8. RegInv'
  BY <1>2 DEF IInv, ProduceBump, RegInv
<1>9. OwnInv'
  BY <1>2 DEF IInv, TypeOK, ProduceBump, OwnInv, Procs
<1> QED
  BY <1>3, <1>4, <1>5, <1>6, <1>7, <1>8, <1>9 DEF IInv

LEMMA ProduceStoreInv == IInv /\ ProduceStore => IInv'
<1> SUFFICES ASSUME IInv, ProduceStore PROVE IInv'
  OBVIOUS
<1>1. Reserved' = Reserved /\ Owing' = Owing
  BY MainKeepsCounts DEF IInv, ProduceStore
<1>2. pc'[Main] = "unlock" /\ \A t \in Threads : pc'[t] = pc[t]
  BY DEF IInv, TypeOK, ProduceStore, Goto, Procs
<1>3. TypeOK'
  <2>1. /\ pc' \in [Procs -> MainLabels \cup ThreadLabels]
        /\ pc'[Main] \in MainLabels /\ \A u \in Threads : pc'[u] \in ThreadLabels
    BY <1>2 DEF IInv, TypeOK, ProduceStore, Goto, Procs, MainLabels
  <2>2. /\ data' \in [0 .. BUFFER_SIZE - 1 -> 0 .. MaxConn]
        /\ reg' \in [Threads -> 0 .. MaxConn] /\ conn' \in [Procs -> 0 .. MaxConn]
    BY <1>2 DEF IInv, TypeOK, ProduceStore, Procs, MainInv, Stored
  <2>3. mutex' \in 0 .. 1 /\ slots' \in 0 .. BUFFER_SIZE /\ items' \in 0 .. BUFFER_SIZE
    BY Counts, <1>2 DEF IInv, TypeOK, ProduceStore, LockInv, ItemsInv, SlotsInv, InCS, Stored, One, Procs
  <2>4. /\ front' \in 0 .. MaxConn /\ tail' \in 0 .. MaxConn /\ accepted' \in 0 .. MaxConn
        /\ closed' \subseteq 1 .. MaxConn
    BY Counts, <1>2 DEF IInv, TypeOK, ProduceStore, MainInv, RegInv, ItemsInv, OwnInv, Stored, One
  <2>5. exited' \in BOOLEAN
    BY DEF IInv, TypeOK, ProduceStore
  <2> QED
    BY <2>1, <2>2, <2>3, <2>4, <2>5 DEF TypeOK
<1>4. LockInv'
  BY <1>2 DEF IInv, TypeOK, ProduceStore, LockInv, MutualExclusion, InCS, Procs
<1>5. ItemsInv' /\ SlotsInv'
  BY <1>1, <1>2, Counts DEF IInv, TypeOK, ProduceStore, ItemsInv, SlotsInv, One, Stored
<1>6. MainInv'
  BY <1>2 DEF IInv, TypeOK, ProduceStore, MainInv, Stored, Procs
<1>7. ContentInv'
  <2> SUFFICES ASSUME NEW i \in front + 1 .. tail PROVE data'[i % BUFFER_SIZE] = i
    BY <1>2 DEF ContentInv, Window, Stored, ProduceStore
  <2>1. front \in Nat /\ tail \in Nat /\ i \in Int /\ tail - front <= BUFFER_SIZE
    BY Counts DEF IInv, TypeOK, SlotsInv, One, ProduceStore
  <2>2. tail % BUFFER_SIZE \in 0 .. BUFFER_SIZE - 1 /\ conn[Main] = tail
    BY DivMod, <2>1 DEF IInv, MainInv, Stored, ProduceStore
  <2>3. data' = [data EXCEPT ![tail % BUFFER_SIZE] = conn[Main]]
    BY DEF ProduceStore
  <2>4. CASE i = tail
    BY <2>2, <2>3, <2>4 DEF IInv, TypeOK
  <2>5. CASE i < tail
    <3>1. tail % BUFFER_SIZE # i % BUFFER_SIZE
      <4>1. tail \in Int /\ i < tail /\ tail - i < BUFFER_SIZE
        BY <2>1, <2>5
      <4> QED
        BY <2>1, <4>1, ModDiffers
    <3>2. data[i % BUFFER_SIZE] = i
      BY <2>1, <2>5 DEF IInv, ContentInv, Window, Stored, ProduceStore
    <3>3. i % BUFFER_SIZE \in 0 .. BUFFER_SIZE - 1
      BY <2>1, DivMod
    <3> QED
      BY <2>2, <2>3, <3>1, <3>2, <3>3 DEF IInv, TypeOK
  <2> QED
    BY <2>1, <2>4, <2>5
<1>8. RegInv'
  BY <1>2 DEF IInv, ProduceStore, RegInv
<1>9. OwnInv'
  BY <1>2 DEF IInv, TypeOK, ProduceStore, OwnInv, Procs
<1> QED
  BY <1>3, <1>4, <1>5, <1>6, <1>7, <1>8, <1>9 DEF IInv

LEMMA ProduceUnlockInv == IInv /\ ProduceUnlock => IInv'
<1> SUFFICES ASSUME IInv, ProduceUnlock PROVE IInv'
  OBVIOUS
<1>1. Reserved' = Reserved /\ Owing' = Owing
  BY MainKeepsCounts DEF IInv, ProduceUnlock
<1>2. pc'[Main] = "post" /\ \A t \in Threads : pc'[t] = pc[t]
  BY DEF IInv, TypeOK, ProduceUnlock, Goto, Procs
<1>3. TypeOK'
  <2>1. /\ pc' \in [Procs -> MainLabels \cup ThreadLabels]
        /\ pc'[Main] \in MainLabels /\ \A u \in Threads : pc'[u] \in ThreadLabels
    BY <1>2 DEF IInv, TypeOK, ProduceUnlock, Goto, Procs, MainLabels
  <2>2. /\ data' \in [0 .. BUFFER_SIZE - 1 -> 0 .. MaxConn]
        /\ reg' \in [Threads -> 0 .. MaxConn] /\ conn' \in [Procs -> 0 .. MaxConn]
    BY <1>2 DEF IInv, TypeOK, ProduceUnlock, Procs, MainInv, Stored
  <2>3. mutex' \in 0 .. 1 /\ slots' \in 0 .. BUFFER_SIZE /\ items' \in 0 .. BUFFER_SIZE
    BY Counts, <1>2 DEF IInv, TypeOK, ProduceUnlock, LockInv, ItemsInv, SlotsInv, InCS, Stored, One, Procs
  <2>4. /\ front' \in 0 .. MaxConn /\ tail' \in 0 .. MaxConn /\ accepted' \in 0 .. MaxConn
        /\ closed' \subseteq 1 .. MaxConn
    BY Counts, <1>2 DEF IInv, TypeOK, ProduceUnlock, MainInv, RegInv, ItemsInv, OwnInv, Stored, One
  <2>5. exited' \in BOOLEAN
    BY DEF IInv, TypeOK, ProduceUnlock
  <2> QED
    BY <2>1, <2>2, <2>3, <2>4, <2>5 DEF TypeOK
<1>4. LockInv'
  BY <1>2 DEF IInv, TypeOK, ProduceUnlock, LockInv, MutualExclusion, InCS, Procs
<1>5. ItemsInv' /\ SlotsInv'
  BY <1>1, <1>2, Counts DEF IInv, TypeOK, ProduceUnlock, ItemsInv, SlotsInv, One, Stored
<1>6. MainInv'
  BY <1>2 DEF IInv, TypeOK, ProduceUnlock, MainInv, Stored, Procs
<1>7. ContentInv'
  BY <1>2 DEF IInv, TypeOK, ProduceUnlock, ContentInv, Window, Stored
<1>8. RegInv'
  BY <1>2 DEF IInv, ProduceUnlock, RegInv
<1>9. OwnInv'
  BY <1>2 DEF IInv, TypeOK, ProduceUnlock, OwnInv, Procs
<1> QED
  BY <1>3, <1>4, <1>5, <1>6, <1>7, <1>8, <1>9 DEF IInv

LEMMA ProducePostInv == IInv /\ ProducePost => IInv'
<1> SUFFICES ASSUME IInv, ProducePost PROVE IInv'
  OBVIOUS
<1>1. Reserved' = Reserved /\ Owing' = Owing
  BY MainKeepsCounts DEF IInv, ProducePost
<1>2. pc'[Main] = "accept" /\ \A t \in Threads : pc'[t] = pc[t]
  BY DEF IInv, TypeOK, ProducePost, Goto, Procs
<1>3. TypeOK'
  <2>1. /\ pc' \in [Procs -> MainLabels \cup ThreadLabels]
        /\ pc'[Main] \in MainLabels /\ \A u \in Threads : pc'[u] \in ThreadLabels
    BY <1>2 DEF IInv, TypeOK, ProducePost, Goto, Procs, MainLabels
  <2>2. /\ data' \in [0 .. BUFFER_SIZE - 1 -> 0 .. MaxConn]
        /\ reg' \in [Threads -> 0 .. MaxConn] /\ conn' \in [Procs -> 0 .. MaxConn]
    BY <1>2 DEF IInv, TypeOK, ProducePost, Procs, MainInv, Stored
  <2>3. mutex' \in 0 .. 1 /\ slots' \in 0 .. BUFFER_SIZE /\ items' \in 0 .. BUFFER_SIZE
    BY SMTT(60), Counts, <1>2 DEF IInv, TypeOK, ProducePost, LockInv, ItemsInv, SlotsInv, InCS, Stored, One, Procs
  <2>4. /\ front' \in 0 .. MaxConn /\ tail' \in 0 .. MaxConn /\ accepted' \in 0 .. MaxConn
        /\ closed' \subseteq 1 .. MaxConn
    BY Counts, <1>2 DEF IInv, TypeOK, ProducePost, MainInv, RegInv, ItemsInv, OwnInv, Stored, One
  <2>5. exited' \in BOOLEAN
    BY DEF IInv, TypeOK, ProducePost
  <2> QED
    BY <2>1, <2>2, <2>3, <2>4, <2>5 DEF TypeOK
<1>4. LockInv'
  BY <1>2 DEF IInv, TypeOK, ProducePost, LockInv, MutualExclusion, InCS, Procs
<1>5. ItemsInv' /\ SlotsInv'
  BY <1>1, <1>2, Counts DEF IInv, TypeOK, ProducePost, ItemsInv, SlotsInv, One, Stored
<1>6. MainInv'
  BY <1>2 DEF IInv, TypeOK, ProducePost, MainInv, Stored, Procs
<1>7. ContentInv'
  BY <1>2 DEF IInv, TypeOK, ProducePost, ContentInv, Window, Stored
<1>8. RegInv'
  BY <1>2 DEF IInv, ProducePost, RegInv
<1>9. OwnInv'
  BY <1>2 DEF IInv, TypeOK, ProducePost, OwnInv, Procs
<1> QED
  BY <1>3, <1>4, <1>5, <1>6, <1>7, <1>8, <1>9 DEF IInv

LEMMA ConsumeWaitItemInv == IInv /\ (\E t \in Threads : ConsumeWaitItem(t)) => IInv'
<1> SUFFICES ASSUME IInv, NEW t \in Threads, ConsumeWaitItem(t) PROVE IInv'
  OBVIOUS
<1>1. /\ pc'[t] = "lock" /\ pc'[Main] = pc[Main] /\ \A u \in Threads \ {t} : pc'[u] = pc[u]
      /\ pc' \in [Procs -> MainLabels \cup ThreadLabels]
  BY ThreadMoves DEF IInv, TypeOK, ConsumeWaitItem, Goto, Procs, ThreadLabels
<1>2. /\ Cardinality(Reserved') = Cardinality(Reserved) + 1
      /\ Cardinality(Owing') = Cardinality(Owing)
  <2>1. t \notin Reserved /\ t \notin Owing
    BY DEF ConsumeWaitItem, Reserved, Owing
  <2>2. Reserved' = Reserved \cup {t} /\ Owing' = Owing \ {t}
    BY ThreadMoves DEF IInv, ConsumeWaitItem
  <2>3. Owing' = Owing
    BY <2>1, <2>2
  <2> QED
    BY <2>1, <2>2, <2>3, Counts, Enter
<1>3. TypeOK'
  <2>1. /\ pc' \in [Procs -> MainLabels \cup ThreadLabels]
        /\ pc'[Main] \in MainLabels /\ \A u \in Threads : pc'[u] \in ThreadLabels
    BY <1>1 DEF IInv, TypeOK, ConsumeWaitItem, ThreadLabels, Procs
  <2>2. /\ data' \in [0 .. BUFFER_SIZE - 1 -> 0 .. MaxConn]
        /\ reg' \in [Threads -> 0 .. MaxConn] /\ conn' \in [Procs -> 0 .. MaxConn]
    BY <1>1 DEF IInv, TypeOK, ConsumeWaitItem, Procs, MainInv, Stored
  <2>3. mutex' \in 0 .. 1 /\ slots' \in 0 .. BUFFER_SIZE /\ items' \in 0 .. BUFFER_SIZE
    BY Counts, <1>1 DEF IInv, TypeOK, ConsumeWaitItem, LockInv, ItemsInv, SlotsInv, InCS, Stored, One, Procs
  <2>4. /\ front' \in 0 .. MaxConn /\ tail' \in 0 .. MaxConn /\ accepted' \in 0 .. MaxConn
        /\ closed' \subseteq 1 .. MaxConn
    BY Counts, <1>1 DEF IInv, TypeOK, ConsumeWaitItem, MainInv, RegInv, ItemsInv, OwnInv, Stored, One
  <2>5. exited' \in BOOLEAN
    BY DEF IInv, TypeOK, ConsumeWaitItem
  <2> QED
    BY <2>1, <2>2, <2>3, <2>4, <2>5 DEF TypeOK
<1>4. LockInv'
  BY <1>1 DEF IInv, TypeOK, ConsumeWaitItem, LockInv, MutualExclusion, InCS, Procs
<1>5. ItemsInv' /\ SlotsInv'
  BY <1>1, <1>2, Counts DEF IInv, TypeOK, ConsumeWaitItem, ItemsInv, SlotsInv, One, Stored
<1>6. MainInv'
  BY <1>1 DEF IInv, TypeOK, ConsumeWaitItem, MainInv, Stored, Procs
<1>7. ContentInv'
  BY <1>1 DEF IInv, TypeOK, ConsumeWaitItem, ContentInv, Window, Stored
<1>8. RegInv'
  BY <1>1 DEF IInv, TypeOK, ConsumeWaitItem, RegInv
<1>9. OwnInv'
  BY <1>1 DEF IInv, TypeOK, ConsumeWaitItem, OwnInv, Procs
<1> QED
  BY <1>3, <1>4, <1>5, <1>6, <1>7, <1>8, <1>9 DEF IInv

LEMMA ConsumeLockInv == IInv /\ (\E t \in Threads : ConsumeLock(t)) => IInv'
<1> SUFFICES ASSUME IInv, NEW t \in Threads, ConsumeLock(t) PROVE IInv'
  OBVIOUS
<1>1. /\ pc'[t] = "load" /\ pc'[Main] = pc[Main] /\ \A u \in Threads \ {t} : pc'[u] = pc[u]
      /\ pc' \in [Procs -> MainLabels \cup ThreadLabels]
  BY ThreadMoves DEF IInv, TypeOK, ConsumeLock, Goto, Procs, ThreadLabels
<1>2. /\ Cardinality(Reserved') = Cardinality(Reserved)
      /\ Cardinality(Owing') = Cardinality(Owing)
  BY <1>1 DEF IInv, TypeOK, ConsumeLock, Reserved, Owing
<1>3. TypeOK'
  <2>1. /\ pc' \in [Procs -> MainLabels \cup ThreadLabels]
        /\ pc'[Main] \in MainLabels /\ \A u \in Threads : pc'[u] \in ThreadLabels
    BY <1>1 DEF IInv, TypeOK, ConsumeLock, ThreadLabels, Procs
  <2>2. /\ data' \in [0 .. BUFFER_SIZE - 1 -> 0 .. MaxConn]
        /\ reg' \in [Threads -> 0 .. MaxConn] /\ conn' \in [Procs -> 0 .. MaxConn]
    BY <1>1 DEF IInv, TypeOK, ConsumeLock, Procs, MainInv, Stored
  <2>3. mutex' \in 0 .. 1 /\ slots' \in 0 .. BUFFER_SIZE /\ items' \in 0 .. BUFFER_SIZE
    BY Counts, <1>1 DEF IInv, TypeOK, ConsumeLock, LockInv, ItemsInv, SlotsInv, InCS, Stored, One, Procs
  <2>4. /\ front' \in 0 .. MaxConn /\ tail' \in 0 .. MaxConn /\ accepted' \in 0 .. MaxConn
        /\ closed' \subseteq 1 .. MaxConn
    BY Counts, <1>1 DEF IInv, TypeOK, ConsumeLock, MainInv, RegInv, ItemsInv, OwnInv, Stored, One
  <2>5. exited' \in BOOLEAN
    BY DEF IInv, TypeOK, ConsumeLock
  <2> QED
    BY <2>1, <2>2, <2>3, <2>4, <2>5 DEF TypeOK
<1>4. LockInv'
  BY <1>1 DEF IInv, TypeOK, ConsumeLock, LockInv, MutualExclusion, InCS, Procs
<1>5. ItemsInv' /\ SlotsInv'
  BY <1>1, <1>2, Counts DEF IInv, TypeOK, ConsumeLock, ItemsInv, SlotsInv, One, Stored
<1>6. MainInv'
  BY <1>1 DEF IInv, TypeOK, ConsumeLock, MainInv, Stored, Procs
<1>7. ContentInv'
  BY <1>1 DEF IInv, TypeOK, ConsumeLock, ContentInv, Window, Stored
<1>8. RegInv'
  BY <1>1 DEF IInv, TypeOK, ConsumeLock, RegInv
<1>9. OwnInv'
  BY <1>1 DEF IInv, TypeOK, ConsumeLock, OwnInv, Procs
<1> QED
  BY <1>3, <1>4, <1>5, <1>6, <1>7, <1>8, <1>9 DEF IInv

LEMMA ConsumeLoadInv == IInv /\ (\E t \in Threads : ConsumeLoad(t)) => IInv'
<1> SUFFICES ASSUME IInv, NEW t \in Threads, ConsumeLoad(t) PROVE IInv'
  OBVIOUS
<1>1. /\ pc'[t] = "fetch" /\ pc'[Main] = pc[Main] /\ \A u \in Threads \ {t} : pc'[u] = pc[u]
      /\ pc' \in [Procs -> MainLabels \cup ThreadLabels]
  BY ThreadMoves DEF IInv, TypeOK, ConsumeLoad, Goto, Procs, ThreadLabels
<1>2. /\ Cardinality(Reserved') = Cardinality(Reserved)
      /\ Cardinality(Owing') = Cardinality(Owing)
  BY <1>1 DEF IInv, TypeOK, ConsumeLoad, Reserved, Owing
<1>3. TypeOK'
  BY Counts, <1>1, <1>2 DEF IInv, TypeOK, ConsumeLoad, ThreadLabels, LockInv, ItemsInv, SlotsInv, InCS, Stored, One, Procs
<1>4. LockInv'
  BY <1>1 DEF IInv, TypeOK, ConsumeLoad, LockInv, MutualExclusion, InCS, Procs
<1>5. ItemsInv' /\ SlotsInv'
  BY <1>1, <1>2, Counts DEF IInv, TypeOK, ConsumeLoad, ItemsInv, SlotsInv, One, Stored
<1>6. MainInv'
  BY <1>1 DEF IInv, TypeOK, ConsumeLoad, MainInv, Stored, Procs
<1>7. ContentInv'
  BY <1>1 DEF IInv, TypeOK, ConsumeLoad, ContentInv, Window, Stored
<1>8. RegInv'
  BY <1>1 DEF IInv, TypeOK, ConsumeLoad, RegInv
<1>9. OwnInv'
  BY <1>1 DEF IInv, TypeOK, ConsumeLoad, OwnInv, Procs
<1> QED
  BY <1>3, <1>4, <1>5, <1>6, <1>7, <1>8, <1>9 DEF IInv

LEMMA ConsumeFetchInv == IInv /\ (\E t \in Threads : ConsumeFetch(t)) => IInv'
<1> SUFFICES ASSUME IInv, NEW t \in Threads, ConsumeFetch(t) PROVE IInv'
  OBVIOUS
<1>1. /\ pc'[t] = "unlock" /\ pc'[Main] = pc[Main] /\ \A u \in Threads \ {t} : pc'[u] = pc[u]
      /\ pc' \in [Procs -> MainLabels \cup ThreadLabels]
  BY ThreadMoves DEF IInv, TypeOK, ConsumeFetch, Goto, Procs, ThreadLabels
<1>2. /\ Cardinality(Reserved') = Cardinality(Reserved) - 1
      /\ Cardinality(Owing') = Cardinality(Owing) + 1
      /\ t \in Reserved /\ Cardinality(Reserved') \in Nat
  <2>1. t \in Reserved /\ t \notin Owing
    BY DEF ConsumeFetch, Reserved, Owing
  <2>2. Reserved' = Reserved \ {t} /\ Owing' = Owing \cup {t}
    BY ThreadMoves DEF IInv, ConsumeFetch
  <2>3. Reserved \ {t} \in SUBSET Threads
    BY Counts
  <2> QED
    BY <2>1, <2>2, <2>3, Counts, Enter, Leave, ThreadSet
<1>2a. /\ front' = front + 1 /\ front + 1 \in Window /\ Stored' = Stored /\ Stored \in Int
      /\ conn' = [conn EXCEPT ![t] = front + 1]
  <2>1. front' = front + 1 /\ reg[t] = front
    BY DEF IInv, RegInv, ConsumeFetch
  <2>2. front + 1 <= Stored /\ front \in Nat /\ Stored \in Int
    BY Counts, <1>2 DEF IInv, TypeOK, ItemsInv, One, Stored
  <2>3. front + 1 \in Window
    BY <2>2 DEF Window
  <2>4. Stored' = Stored
    BY <1>1 DEF Stored, ConsumeFetch
  <2> QED
    BY <2>1, <2>2, <2>3, <2>4 DEF IInv, ContentInv, ConsumeFetch
<1>3. TypeOK'
  <2>1. /\ pc' \in [Procs -> MainLabels \cup ThreadLabels]
        /\ pc'[Main] \in MainLabels /\ \A u \in Threads : pc'[u] \in ThreadLabels
    BY <1>1 DEF IInv, TypeOK, ConsumeFetch, ThreadLabels, Procs
  <2>2. /\ data' \in [0 .. BUFFER_SIZE - 1 -> 0 .. MaxConn]
        /\ reg' \in [Threads -> 0 .. MaxConn] /\ conn' \in [Procs -> 0 .. MaxConn]
    <3>1. front + 1 \in 0 .. MaxConn
      BY <1>2a DEF IInv, TypeOK, Window, Stored
    <3> QED
      BY <3>1, <1>2a DEF IInv, TypeOK, ConsumeFetch, Procs
  <2>3. mutex' \in 0 .. 1 /\ slots' \in 0 .. BUFFER_SIZE /\ items' \in 0 .. BUFFER_SIZE
    BY Counts, <1>1 DEF IInv, TypeOK, ConsumeFetch, LockInv, ItemsInv, SlotsInv, InCS, Stored, One, Procs
  <2>4. /\ front' \in 0 .. MaxConn /\ tail' \in 0 .. MaxConn /\ accepted' \in 0 .. MaxConn
        /\ closed' \subseteq 1 .. MaxConn
    BY <1>2a DEF IInv, TypeOK, ConsumeFetch, MainInv, Stored, Window
  <2>5. exited' \in BOOLEAN
    BY DEF IInv, TypeOK, ConsumeFetch
  <2> QED
    BY <2>1, <2>2, <2>3, <2>4, <2>5 DEF TypeOK
<1>4. LockInv'
  BY <1>1 DEF IInv, TypeOK, ConsumeFetch, LockInv, MutualExclusion, InCS, Procs
<1>5. ItemsInv' /\ SlotsInv'
  <2>1. items' = items /\ slots' = slots /\ tail' = tail
    BY DEF ConsumeFetch
  <2>2. front \in Nat /\ tail \in Nat /\ items \in Nat /\ slots \in Nat
    BY DEF IInv, TypeOK
  <2>3. ItemsInv'
    BY <1>1, <1>2, <1>2a, <2>1, <2>2, Counts DEF IInv, ItemsInv, One
  <2>4. SlotsInv'
    BY <1>1, <1>2, <1>2a, <2>1, <2>2, Counts DEF IInv, SlotsInv, One
  <2> QED
    BY <2>3, <2>4
<1>6. MainInv'
  BY <1>1 DEF IInv, TypeOK, ConsumeFetch, MainInv, Stored, Procs
<1>7. ContentInv'
  <2>1. Window' \subseteq Window
    BY <1>2a DEF Window, IInv, TypeOK
  <2> QED
    BY <2>1 DEF IInv, ContentInv, ConsumeFetch
<1>8. RegInv'
  <2>1. \A u \in Threads \ {t} : pc[u] # "fetch"
    BY DEF IInv, LockInv, MutualExclusion, InCS, Procs, ConsumeFetch
  <2> QED
    BY <1>1, <2>1 DEF RegInv
<1>9. OwnInv'
  <2>1. conn'[t] = front + 1 /\ \A u \in Threads \ {t} : conn'[u] = conn[u]
    BY <1>2a DEF IInv, TypeOK, Procs
  <2>2. closed' = closed /\ front \in Nat
    BY DEF IInv, TypeOK, ConsumeFetch
  <2>3. \A u \in Threads \ {t} : conn[u] # front + 1
    BY <2>2 DEF IInv, OwnInv
  <2>4. \A u \in Threads : IF pc'[u] \in {"unlock", "post", "doit", "close"}
                            THEN conn'[u] \in 1 .. front' ELSE conn'[u] = 0
    BY <1>1, <1>2a, <2>1, <2>2 DEF IInv, OwnInv
  <2>5. \A u, v \in Threads : conn'[u] = conn'[v] /\ conn'[u] # 0 => u = v
    BY <2>1, <2>3 DEF IInv, OwnInv
  <2>6. (\A u \in Threads : conn'[u] \notin closed') /\ closed' \subseteq 1 .. front'
    BY <1>2a, <2>1, <2>2 DEF IInv, OwnInv
  <2>7. \A c \in 1 .. front' : c \in closed' \/ \E u \in Threads : conn'[u] = c
    <3> SUFFICES ASSUME NEW c \in 1 .. front + 1
                 PROVE  c \in closed \/ \E u \in Threads : conn'[u] = c
      BY <1>2a, <2>2
    <3>1. CASE c = front + 1
      BY <2>1, <3>1
    <3>2. CASE c \in 1 .. front
      <4>1. c \in closed \/ \E u \in Threads : conn[u] = c
        BY <3>2 DEF IInv, OwnInv
      <4>2. conn[t] = 0
        BY DEF IInv, OwnInv, ConsumeFetch
      <4> QED
        BY <2>1, <3>2, <4>1, <4>2
    <3> QED
      BY <2>2, <3>1, <3>2
  <2> QED
    BY <2>4, <2>5, <2>6, <2>7 DEF OwnInv
<1> QED
  BY <1>3, <1>4, <1>5, <1>6, <1>7, <1>8, <1>9 DEF IInv

LEMMA ConsumeUnlockInv == IInv /\ (\E t \in Threads : ConsumeUnlock(t)) => IInv'
<1> SUFFICES ASSUME IInv, NEW t \in Threads, ConsumeUnlock(t) PROVE IInv'
  OBVIOUS
<1>1. /\ pc'[t] = "post" /\ pc'[Main] = pc[Main] /\ \A u \in Threads \ {t} : pc'[u] = pc[u]
      /\ pc' \in [Procs -> MainLabels \cup ThreadLabels]
  BY ThreadMoves DEF IInv, TypeOK, ConsumeUnlock, Goto, Procs, ThreadLabels
<1>2. /\ Cardinality(Reserved') = Cardinality(Reserved)
      /\ Cardinality(Owing') = Cardinality(Owing)
  BY <1>1 DEF IInv, TypeOK, ConsumeUnlock, Reserved, Owing
<1>3. TypeOK'
  <2>1. /\ pc' \in [Procs -> MainLabels \cup ThreadLabels]
        /\ pc'[Main] \in MainLabels /\ \A u \in Threads : pc'[u] \in ThreadLabels
    BY <1>1 DEF IInv, TypeOK, ConsumeUnlock, ThreadLabels, Procs
  <2>2. /\ data' \in [0 .. BUFFER_SIZE - 1 -> 0 .. MaxConn]
        /\ reg' \in [Threads -> 0 .. MaxConn] /\ conn' \in [Procs -> 0 .. MaxConn]
    BY <1>1 DEF IInv, TypeOK, ConsumeUnlock, Procs, MainInv, Stored
  <2>3. mutex' \in 0 .. 1 /\ slots' \in 0 .. BUFFER_SIZE /\ items' \in 0 .. BUFFER_SIZE
    BY Counts, <1>1 DEF IInv, TypeOK, ConsumeUnlock, LockInv, ItemsInv, SlotsInv, InCS, Stored, One, Procs
  <2>4. /\ front' \in 0 .. MaxConn /\ tail' \in 0 .. MaxConn /\ accepted' \in 0 .. MaxConn
        /\ closed' \subseteq 1 .. MaxConn
    BY Counts, <1>1 DEF IInv, TypeOK, ConsumeUnlock, MainInv, RegInv, ItemsInv, OwnInv, Stored, One
  <2>5. exited' \in BOOLEAN
    BY DEF IInv, TypeOK, ConsumeUnlock
  <2> QED
    BY <2>1, <2>2, <2>3, <2>4, <2>5 DEF TypeOK
<1>4. LockInv'
  BY <1>1 DEF IInv, TypeOK, ConsumeUnlock, LockInv, MutualExclusion, InCS, Procs
<1>5. ItemsInv' /\ SlotsInv'
  BY <1>1, <1>2, Counts DEF IInv, TypeOK, ConsumeUnlock, ItemsInv, SlotsInv, One, Stored
<1>6. MainInv'
  BY <1>1 DEF IInv, TypeOK, ConsumeUnlock, MainInv, Stored, Procs
<1>7. ContentInv'
  BY <1>1 DEF IInv, TypeOK, ConsumeUnlock, ContentInv, Window, Stored
<1>8. RegInv'
  BY <1>1 DEF IInv, TypeOK, ConsumeUnlock, RegInv
<1>9. OwnInv'
  BY <1>1 DEF IInv, TypeOK, ConsumeUnlock, OwnInv, Procs
<1> QED
  BY <1>3, <1>4, <1>5, <1>6, <1>7, <1>8, <1>9 DEF IInv

LEMMA ConsumePostInv == IInv /\ (\E t \in Threads : ConsumePost(t)) => IInv'
<1> SUFFICES ASSUME IInv, NEW t \in Threads, ConsumePost(t) PROVE IInv'
  OBVIOUS
<1>1. /\ pc'[t] = "doit" /\ pc'[Main] = pc[Main] /\ \A u \in Threads \ {t} : pc'[u] = pc[u]
      /\ pc' \in [Procs -> MainLabels \cup ThreadLabels]
  BY ThreadMoves DEF IInv, TypeOK, ConsumePost, Goto, Procs, ThreadLabels
<1>2. /\ Cardinality(Reserved') = Cardinality(Reserved)
      /\ Cardinality(Owing') = Cardinality(Owing) - 1
      /\ Cardinality(Owing') \in Nat
  <2>1. t \notin Reserved /\ t \in Owing
    BY DEF ConsumePost, Reserved, Owing
  <2>2. Reserved' = Reserved \ {t} /\ Owing' = Owing \ {t}
    BY ThreadMoves DEF IInv, ConsumePost
  <2>3. Reserved' = Reserved
    BY <2>1, <2>2
  <2>4. Owing \ {t} \in SUBSET Threads
    BY Counts
  <2> QED
    BY <2>1, <2>2, <2>3, <2>4, Counts, Leave, ThreadSet
<1>3. TypeOK'
  <2>1. /\ pc' \in [Procs -> MainLabels \cup ThreadLabels]
        /\ pc'[Main] \in MainLabels /\ \A u \in Threads : pc'[u] \in ThreadLabels
    BY <1>1 DEF IInv, TypeOK, ConsumePost, ThreadLabels, Procs
  <2>2. /\ data' \in [0 .. BUFFER_SIZE - 1 -> 0 .. MaxConn]
        /\ reg' \in [Threads -> 0 .. MaxConn] /\ conn' \in [Procs -> 0 .. MaxConn]
    BY <1>1 DEF IInv, TypeOK, ConsumePost, Procs, MainInv, Stored
  <2>3. mutex' \in 0 .. 1 /\ slots' \in 0 .. BUFFER_SIZE /\ items' \in 0 .. BUFFER_SIZE
    <3>1. Stored - front >= 0 /\ tail >= Stored
      BY Counts DEF IInv, TypeOK, ItemsInv, Stored, One
    <3>2. slots + 1 <= BUFFER_SIZE
      BY SMTT(60), <1>2, <3>1, Counts DEF IInv, TypeOK, SlotsInv, One, Stored
    <3> QED
      BY <3>2 DEF IInv, TypeOK, ConsumePost
  <2>4. /\ front' \in 0 .. MaxConn /\ tail' \in 0 .. MaxConn /\ accepted' \in 0 .. MaxConn
        /\ closed' \subseteq 1 .. MaxConn
    BY Counts, <1>1 DEF IInv, TypeOK, ConsumePost, MainInv, RegInv, ItemsInv, OwnInv, Stored, One
  <2>5. exited' \in BOOLEAN
    BY DEF IInv, TypeOK, ConsumePost
  <2> QED
    BY <2>1, <2>2, <2>3, <2>4, <2>5 DEF TypeOK
<1>4. LockInv'
  BY <1>1 DEF IInv, TypeOK, ConsumePost, LockInv, MutualExclusion, InCS, Procs
<1>5. ItemsInv' /\ SlotsInv'
  BY <1>1, <1>2, Counts DEF IInv, TypeOK, ConsumePost, ItemsInv, SlotsInv, One, Stored
<1>6. MainInv'
  BY <1>1 DEF IInv, TypeOK, ConsumePost, MainInv, Stored, Procs
<1>7. ContentInv'
  BY <1>1 DEF IInv, TypeOK, ConsumePost, ContentInv, Window, Stored
<1>8. RegInv'
  BY <1>1 DEF IInv, TypeOK, ConsumePost, RegInv
<1>9. OwnInv'
  BY <1>1 DEF IInv, TypeOK, ConsumePost, OwnInv, Procs
<1> QED
  BY <1>3, <1>4, <1>5, <1>6, <1>7, <1>8, <1>9 DEF IInv

LEMMA DoitInv == IInv /\ (\E t \in Threads : Doit(t)) => IInv'
<1> SUFFICES ASSUME IInv, NEW t \in Threads, Doit(t) PROVE IInv'
  OBVIOUS
<1>1. /\ pc'[t] = "close" /\ pc'[Main] = pc[Main] /\ \A u \in Threads \ {t} : pc'[u] = pc[u]
      /\ pc' \in [Procs -> MainLabels \cup ThreadLabels]
  BY ThreadMoves DEF IInv, TypeOK, Doit, Goto, Procs, ThreadLabels
<1>2. /\ Cardinality(Reserved') = Cardinality(Reserved)
      /\ Cardinality(Owing') = Cardinality(Owing)
  BY <1>1 DEF IInv, TypeOK, Doit, Reserved, Owing
<1>3. TypeOK'
  BY Counts, <1>1, <1>2 DEF IInv, TypeOK, Doit, ThreadLabels, LockInv, ItemsInv, SlotsInv, InCS, Stored, One, Procs
<1>4. LockInv'
  BY <1>1 DEF IInv, TypeOK, Doit, LockInv, MutualExclusion, InCS, Procs
<1>5. ItemsInv' /\ SlotsInv'
  BY <1>1, <1>2, Counts DEF IInv, TypeOK, Doit, ItemsInv, SlotsInv, One, Stored
<1>6. MainInv'
  BY <1>1 DEF IInv, TypeOK, Doit, MainInv, Stored, Procs
<1>7. ContentInv'
  BY <1>1 DEF IInv, TypeOK, Doit, ContentInv, Window, Stored
<1>8. RegInv'
  BY <1>1 DEF IInv, TypeOK, Doit, RegInv
<1>9. OwnInv'
  BY <1>1 DEF IInv, TypeOK, Doit, OwnInv, Procs
<1> QED
  BY <1>3, <1>4, <1>5, <1>6, <1>7, <1>8, <1>9 DEF IInv

LEMMA CloseConnInv == IInv /\ (\E t \in Threads : CloseConn(t)) => IInv'
<1> SUFFICES ASSUME IInv, NEW t \in Threads, CloseConn(t) PROVE IInv'
  OBVIOUS
<1>1. /\ pc'[t] = "items" /\ pc'[Main] = pc[Main] /\ \A u \in Threads \ {t} : pc'[u] = pc[u]
      /\ pc' \in [Procs -> MainLabels \cup ThreadLabels]
  BY ThreadMoves DEF IInv, TypeOK, CloseConn, Goto, Procs, ThreadLabels
<1>2. /\ Cardinality(Reserved') = Cardinality(Reserved)
      /\ Cardinality(Owing') = Cardinality(Owing)
  BY <1>1 DEF IInv, TypeOK, CloseConn, Reserved, Owing
<1>3. TypeOK'
  <2>1. /\ pc' \in [Procs -> MainLabels \cup ThreadLabels]
        /\ pc'[Main] \in MainLabels /\ \A u \in Threads : pc'[u] \in ThreadLabels
    BY <1>1 DEF IInv, TypeOK, CloseConn, ThreadLabels, Procs
  <2>2. /\ data' \in [0 .. BUFFER_SIZE - 1 -> 0 .. MaxConn]
        /\ reg' \in [Threads -> 0 .. MaxConn] /\ conn' \in [Procs -> 0 .. MaxConn]
    BY <1>1 DEF IInv, TypeOK, CloseConn, Procs, MainInv, Stored
  <2>3. mutex' \in 0 .. 1 /\ slots' \in 0 .. BUFFER_SIZE /\ items' \in 0 .. BUFFER_SIZE
    BY Counts, <1>1 DEF IInv, TypeOK, CloseConn, LockInv, ItemsInv, SlotsInv, InCS, Stored, One, Procs
  <2>4. /\ front' \in 0 .. MaxConn /\ tail' \in 0 .. MaxConn /\ accepted' \in 0 .. MaxConn
        /\ closed' \subseteq 1 .. MaxConn
    <3>1. conn[t] \in 1 .. front /\ closed' = closed \cup {conn[t]}
      BY DEF IInv, OwnInv, CloseConn
    <3>2. 1 .. front \subseteq 1 .. MaxConn
      BY DEF IInv, TypeOK
    <3> QED
      BY <3>1, <3>2 DEF IInv, TypeOK, CloseConn
  <2>5. exited' \in BOOLEAN
    BY DEF IInv, TypeOK, CloseConn
  <2> QED
    BY <2>1, <2>2, <2>3, <2>4, <2>5 DEF TypeOK
<1>4. LockInv'
  BY <1>1 DEF IInv, TypeOK, CloseConn, LockInv, MutualExclusion, InCS, Procs
<1>5. ItemsInv' /\ SlotsInv'
  BY <1>1, <1>2, Counts DEF IInv, TypeOK, CloseConn, ItemsInv, SlotsInv, One, Stored
<1>6. MainInv'
  BY <1>1 DEF IInv, TypeOK, CloseConn, MainInv, Stored, Procs
<1>7. ContentInv'
  BY <1>1 DEF IInv, TypeOK, CloseConn, ContentInv, Window, Stored
<1>8. RegInv'
  BY <1>1 DEF IInv, TypeOK, CloseConn, RegInv
<1>9. OwnInv'
  <2>1. /\ closed' = closed \cup {conn[t]} /\ front' = front
        /\ conn'[t] = 0 /\ \A u \in Threads \ {t} : conn'[u] = conn[u]
    BY DEF IInv, TypeOK, Procs, CloseConn
  <2>2. conn[t] \in 1 .. front /\ front \in Nat
    BY DEF IInv, TypeOK, OwnInv, CloseConn
  <2>3. \A u \in Threads : IF pc'[u] \in {"unlock", "post", "doit", "close"}
                            THEN conn'[u] \in 1 .. front' ELSE conn'[u] = 0
    BY <1>1, <2>1 DEF IInv, OwnInv
  <2>4. \A u, v \in Threads : conn'[u] = conn'[v] /\ conn'[u] # 0 => u = v
    BY <2>1 DEF IInv, OwnInv
  <2>5. closed' \subseteq 1 .. front'
    BY <2>1, <2>2 DEF IInv, OwnInv
  <2>6. \A u \in Threads : conn'[u] \notin closed'
    BY <2>1, <2>2, <2>5 DEF IInv, OwnInv
  <2>7. \A c \in 1 .. front' : c \in closed' \/ \E u \in Threads : conn'[u] = c
    BY <2>1 DEF IInv, OwnInv
  <2> QED
    BY <2>3, <2>4, <2>5, <2>6, <2>7 DEF OwnInv
<1> QED
  BY <1>3, <1>4, <1>5, <1>6, <1>7, <1>8, <1>9 DEF IInv

LEMMA UnixErrorInv == IInv /\ (\E p \in Procs : UnixError(p)) => IInv'
<1> SUFFICES ASSUME IInv, NEW p \in Procs, UnixError(p) PROVE IInv'
  OBVIOUS
<1>1. exited' \in BOOLEAN
  BY DEF UnixError
<1>2. UNCHANGED <<data, front, tail, mutex, slots, items, pc, reg, conn, accepted, closed>>
  BY DEF UnixError
<1>3. TypeOK'
  BY <1>1, <1>2 DEF IInv, TypeOK
<1>4. Reserved' = Reserved /\ Owing' = Owing /\ Stored' = Stored /\ Window' = Window
  BY <1>2 DEF Reserved, Owing, Stored, Window
<1>5. LockInv' /\ RegInv' /\ OwnInv'
  BY <1>2 DEF IInv, LockInv, MutualExclusion, InCS, RegInv, OwnInv
<1>6. ItemsInv' /\ SlotsInv' /\ MainInv' /\ ContentInv'
  BY <1>2, <1>4 DEF IInv, ItemsInv, SlotsInv, MainInv, ContentInv
<1> QED
  BY <1>3, <1>5, <1>6 DEF IInv

LEMMA NextInv == IInv /\ [Next]_vars => IInv'
<1> SUFFICES ASSUME IInv, [Next]_vars PROVE IInv'
  OBVIOUS
<1>1. CASE UNCHANGED vars
  BY <1>1 DEF vars, IInv, TypeOK, LockInv, MutualExclusion, InCS, ItemsInv, SlotsInv, MainInv,
              ContentInv, RegInv, OwnInv, Reserved, Owing, Stored, Window
<1>2. CASE Accept
  BY <1>2, AcceptInv
<1>3. CASE Produce
  BY <1>3, ProduceWaitSlotInv, ProduceLockInv, ProduceBumpInv, ProduceStoreInv,
     ProduceUnlockInv, ProducePostInv DEF Produce
<1>4. CASE \E t \in Threads : Consume(t) \/ Doit(t) \/ CloseConn(t)
  BY <1>4, ConsumeWaitItemInv, ConsumeLockInv, ConsumeLoadInv, ConsumeFetchInv,
     ConsumeUnlockInv, ConsumePostInv, DoitInv, CloseConnInv DEF Consume
<1>5. CASE \E p \in Procs : UnixError(p)
  BY <1>5, UnixErrorInv
<1> QED
  BY <1>1, <1>2, <1>3, <1>4, <1>5 DEF Next

\* The inductive invariant: semaphores count what the indices say, main and the threads
\* exclude each other, and the window of the ring holds the connections in order.
THEOREM Inductive == Spec => []IInv
<1> QED
  BY InitInv, NextInv, PTL DEF Spec

\* Types: in particular tail and front never leave 0 .. MaxConn and a semaphore never
\* exceeds the size of the ring.
THEOREM TypeCorrect == Spec => []TypeOK
<1>1. IInv => TypeOK
  BY DEF IInv
<1> QED
  BY <1>1, Inductive, PTL

\* produce() and consume() exclude each other and themselves.
THEOREM Exclusion == Spec => []MutualExclusion
<1>1. IInv => MutualExclusion
  BY DEF IInv, LockInv
<1> QED
  BY <1>1, Inductive, PTL

-----------------------------------------------------------------------------
(* OneOwner: a connection is held by main, at one place of the ring, held by *)
(* one thread, or closed.                                                    *)

LEMMA CountOne == \A x : Cardinality({x}) = 1
BY FS_Singleton

LEMMA CountNone == Cardinality({}) = 0
BY FS_EmptySet

LEMMA OwnerCount == IInv => OneOwner
<1> SUFFICES ASSUME IInv, NEW c \in 1 .. accepted
             PROVE  Cardinality({p \in Procs : conn[p] = c})
                    + Cardinality({i \in Window : data[i % BUFFER_SIZE] = c})
                    + (IF c \in closed THEN 1 ELSE 0) = 1
  BY DEF OneOwner
<1> DEFINE holders == {p \in Procs : conn[p] = c}
           places  == {i \in Window : data[i % BUFFER_SIZE] = c}
<1>1. /\ front \in Nat /\ Stored \in Int /\ accepted \in Nat /\ c \in Nat \ {0}
      /\ front <= Stored /\ Stored <= accepted /\ accepted <= Stored + 1
  BY Counts DEF IInv, TypeOK, Stored, ItemsInv, MainInv, One
<1>2. places = {i \in Window : i = c}
  BY DEF IInv, ContentInv
<1>3. /\ conn[Main] = c <=> c = Stored + 1
  BY <1>1 DEF IInv, MainInv, Stored
<1>4. CASE c = Stored + 1
  <2>1. holders = {Main}
    <3>1. \A t \in Threads : conn[t] # c
      BY <1>1, <1>4 DEF IInv, OwnInv
    <3> QED
      BY <1>3, <1>4, <3>1 DEF Procs
  <2>2. places = {}
    BY <1>1, <1>2, <1>4 DEF Window
  <2>3. c \notin closed
    BY <1>1, <1>4 DEF IInv, OwnInv
  <2>4. Cardinality(holders) = 1 /\ Cardinality(places) = 0
    BY <2>1, <2>2, CountOne, CountNone
  <2> QED
    BY <2>3, <2>4
<1>5. CASE c \in front + 1 .. Stored
  <2>1. holders = {}
    <3>1. \A t \in Threads : conn[t] # c
      BY <1>1, <1>5 DEF IInv, OwnInv
    <3> QED
      BY <1>1, <1>3, <1>5, <3>1 DEF Procs
  <2>2. places = {c}
    BY <1>2, <1>5 DEF Window
  <2>3. c \notin closed
    BY <1>1, <1>5 DEF IInv, OwnInv
  <2>4. Cardinality(holders) = 0 /\ Cardinality(places) = 1
    BY <2>1, <2>2, CountOne, CountNone
  <2> QED
    BY <2>3, <2>4
<1>6. CASE c \in 1 .. front
  <2>1. places = {}
    BY <1>1, <1>2, <1>6 DEF Window
  <2>2. conn[Main] # c
    BY <1>1, <1>3, <1>6
  <2>3. CASE c \in closed
    <3>1. holders = {}
      BY <2>2, <2>3 DEF IInv, OwnInv, Procs
    <3>2. Cardinality(holders) = 0 /\ Cardinality(places) = 0
      BY <2>1, <3>1, CountNone
    <3> QED
      BY <2>3, <3>2
  <2>4. CASE c \notin closed
    <3>1. PICK t \in Threads : conn[t] = c
      BY <1>6, <2>4 DEF IInv, OwnInv
    <3>2. holders = {t}
      BY <1>1, <2>2, <3>1 DEF IInv, OwnInv, Procs
    <3>3. Cardinality(holders) = 1 /\ Cardinality(places) = 0
      BY <2>1, <3>2, CountOne, CountNone
    <3> QED
      BY <2>4, <3>3
  <2> QED
    BY <2>3, <2>4
<1> QED
  BY <1>1, <1>4, <1>5, <1>6

\* No connection is lost, overwritten while it waits, or served twice.
THEOREM OwnerUnique == Spec => []OneOwner
<1> QED
  BY OwnerCount, Inductive, PTL

-----------------------------------------------------------------------------
(* Main and the threads never all sleep while a connection waits.            *)

\* A semaphore mutex that is taken has somebody between its P and its V.
Held == mutex = 0 => \E p \in Procs : InCS(p)

LEMMA HeldStep == IInv /\ Held /\ [Next]_vars => Held'
<1> SUFFICES ASSUME IInv, Held, [Next]_vars, mutex' = 0
             PROVE  \E p \in Procs : InCS(p)'
  BY DEF Held
<1>1. /\ mutex \in {0, 1} /\ pc \in [Procs -> MainLabels \cup ThreadLabels]
      /\ \A t \in Threads : t \in Procs /\ t # Main
      /\ Main \in Procs
  BY DEF IInv, TypeOK, Procs
\* A step that leaves the mutex alone leaves it to the one who has it.
<1>2. ASSUME mutex' = mutex, NEW p \in Procs, NEW l, Goto(p, l), InCS(p) => InCS(p)'
      PROVE  \E q \in Procs : InCS(q)'
  <2>1. PICK q \in Procs : InCS(q)
    BY <1>2 DEF Held
  <2>2. CASE q = p
    BY <1>2, <2>1, <2>2
  <2>3. CASE q # p
    BY <1>1, <1>2, <2>1, <2>3 DEF Goto, InCS
  <2> QED
    BY <2>2, <2>3
<1>3. CASE UNCHANGED vars \/ \E p \in Procs : UnixError(p)
  BY <1>3 DEF vars, UnixError, Held, InCS
<1>4. CASE Accept \/ ProduceWaitSlot
  BY <1>1, <1>2, <1>4 DEF Accept, ProduceWaitSlot, InCS
<1>5. CASE ProduceLock
  <2>1. InCS(Main)'
    BY <1>1, <1>5 DEF ProduceLock, Goto, InCS
  <2> QED
    BY <1>1, <2>1
<1>6. CASE ProduceBump
  <2>1. InCS(Main)'
    BY <1>1, <1>6 DEF ProduceBump, Goto, InCS
  <2> QED
    BY <1>1, <2>1
<1>7. CASE ProduceStore
  <2>1. InCS(Main)'
    BY <1>1, <1>7 DEF ProduceStore, Goto, InCS
  <2> QED
    BY <1>1, <2>1
<1>8. CASE ProduceUnlock
  BY <1>1, <1>8, SMT DEF ProduceUnlock, IInv, LockInv, TypeOK
<1>9. CASE ProducePost
  BY <1>1, <1>2, <1>9 DEF ProducePost, InCS
<1>10. ASSUME NEW t \in Threads, ConsumeWaitItem(t) \/ ConsumePost(t) \/ Doit(t) \/ CloseConn(t)
       PROVE  \E q \in Procs : InCS(q)'
  BY <1>1, <1>2, <1>10 DEF ConsumeWaitItem, ConsumePost, Doit, CloseConn, InCS
<1>11. ASSUME NEW t \in Threads, ConsumeLock(t) \/ ConsumeLoad(t) \/ ConsumeFetch(t)
       PROVE  \E q \in Procs : InCS(q)'
  <2>1. t \in Procs /\ InCS(t)'
    BY <1>1, <1>11 DEF ConsumeLock, ConsumeLoad, ConsumeFetch, Goto, InCS
  <2> QED
    BY <2>1
<1>12. ASSUME NEW t \in Threads, ConsumeUnlock(t)
       PROVE  \E q \in Procs : InCS(q)'
  BY <1>1, <1>12, SMT DEF ConsumeUnlock, IInv, LockInv, TypeOK
<1> QED
  BY <1>3, <1>4, <1>5, <1>6, <1>7, <1>8, <1>9, <1>10, <1>11, <1>12 DEF Next, Produce, Consume

\* Processes that P(slots), P(items) or P(mutex) puts to sleep.
Asleep(p) == \/ p = Main /\ pc[p] = "slots" /\ slots = 0
             \/ p # Main /\ pc[p] = "items" /\ items = 0
             \/ pc[p] = "lock" /\ mutex = 0

\* Whoever sleeps on the mutex waits for a process that has it and is awake; while main sleeps,
\* some thread is awake; and when all the threads sleep and main is back at Accept, no connection
\* waits: all that were accepted are closed.
NoneStranded ==
  /\ \A p \in Procs : pc[p] = "lock" /\ Asleep(p) => \E q \in Procs : InCS(q) /\ ~Asleep(q)
  /\ Asleep(Main) => \E t \in Threads : ~Asleep(t)
  /\ (\A t \in Threads : Asleep(t)) /\ pc[Main] = "accept" => closed = 1 .. accepted

\* produce() and consume() never put everybody to sleep with work left: no V is lost, and no
\* process takes the mutex before it has what it waits for.
THEOREM NoDeadlock == Spec => []NoneStranded
<1>1. ASSUME IInv, Held PROVE NoneStranded
  <2>1. /\ mutex \in {0, 1} /\ \A t \in Threads : t \in Procs /\ t # Main
        /\ Main \in Procs /\ \A p \in Procs : p = Main \/ p \in Threads
    BY <1>1 DEF IInv, TypeOK, Procs
  <2>2. \A p \in Procs : InCS(p) => ~Asleep(p)
    BY DEF InCS, Asleep
  <2>3. mutex = 0 => \E q \in Procs : InCS(q) /\ ~Asleep(q)
    BY <1>1, <2>2 DEF Held
  <2>4. ASSUME \A t \in Threads : Asleep(t), pc[Main] \in {"slots", "accept"}
        PROVE  /\ items = 0 /\ \A t \in Threads : pc[t] = "items"
               /\ Reserved = {} /\ Owing = {}
    <3>1. mutex = 1
      BY <2>1, <2>3, <2>4 DEF InCS
    <3>2. \A t \in Threads : pc[t] = "items" /\ items = 0
      BY <2>1, <2>4, <3>1 DEF Asleep
    <3> QED
      BY <3>2 DEF Reserved, Owing
  <2>5. ASSUME \A t \in Threads : Asleep(t), pc[Main] \in {"slots", "accept"}
        PROVE  /\ slots = BUFFER_SIZE /\ tail = front /\ front \in Nat
               /\ \A t \in Threads : pc[t] = "items"
    <3>1. Cardinality(Reserved) = 0 /\ Cardinality(Owing) = 0
      BY <2>4, <2>5, FS_EmptySet
    <3>2. Stored = tail /\ tail \in Nat /\ front \in Nat /\ slots \in Nat
      BY <1>1, <2>5 DEF Stored, IInv, TypeOK
    <3>3. tail - front = 0
      BY <1>1, <2>4, <2>5, <3>1, <3>2 DEF IInv, ItemsInv, One
    <3>4. slots + (tail - front) = BUFFER_SIZE
      BY <1>1, <2>5, <3>1, <3>2 DEF IInv, SlotsInv, One
    <3> QED
      BY <2>4, <2>5, <3>2, <3>3, <3>4
  <2>6. ASSUME Asleep(Main), \A t \in Threads : Asleep(t) PROVE FALSE
    <3>1. CASE pc[Main] = "slots"
      BY <2>5, <2>6, <3>1 DEF Asleep
    <3>2. CASE pc[Main] # "slots"
      <4>1. pc[Main] = "lock" /\ mutex = 0
        BY <2>6, <3>2 DEF Asleep
      <4> QED
        BY <2>1, <2>3, <2>6, <4>1
    <3> QED
      BY <3>1, <3>2
  <2>7. ASSUME \A t \in Threads : Asleep(t), pc[Main] = "accept" PROVE closed = 1 .. accepted
    <3>1. accepted = front
      BY <1>1, <2>5, <2>7 DEF IInv, MainInv
    <3>2. \A t \in Threads : conn[t] = 0
      BY <1>1, <2>5, <2>7 DEF IInv, OwnInv
    <3>3. \A c \in 1 .. front : c \in closed
      BY <1>1, <2>5, <2>7, <3>2 DEF IInv, OwnInv
    <3> QED
      BY <1>1, <3>1, <3>3 DEF IInv, OwnInv
  <2> QED
    BY <2>1, <2>3, <2>6, <2>7 DEF NoneStranded, Asleep
<1>2. Init => Held
  BY DEF Init, Held
<1>3. IInv /\ Held => NoneStranded
  BY <1>1
<1> QED
  BY <1>2, <1>3, HeldStep, Inductive, PTL DEF Spec

-----------------------------------------------------------------------------
(* The ring implements a bounded FIFO queue.                                 *)

\* What waits in the ring are the next connections in the order of their acceptance.
WaitingInv == /\ Stored - front \in Nat /\ front \in Nat /\ Stored \in Int
              /\ Stored - front <= BUFFER_SIZE
              /\ Waiting = [i \in 1 .. Stored - front |-> front + i]
              /\ Waiting \in Seq(Int) /\ Len(Waiting) = Stored - front

LEMMA WaitingIs == IInv => WaitingInv
<1> SUFFICES ASSUME IInv PROVE WaitingInv
  OBVIOUS
<1>1. Stored - front \in Nat /\ front \in Nat /\ Stored \in Int
  BY Counts DEF IInv, TypeOK, ItemsInv, Stored, One
<1>2. Stored - front <= BUFFER_SIZE
  BY Counts DEF IInv, TypeOK, SlotsInv, Stored, One
<1>3. Waiting = [i \in 1 .. Stored - front |-> front + i]
  <2>1. ASSUME NEW i \in 1 .. Stored - front
        PROVE  data[(front + i) % BUFFER_SIZE] = front + i
    <3>1. front + i \in Window
      BY <1>1 DEF Window
    <3> QED
      BY <3>1 DEF IInv, ContentInv
  <2> QED
    BY <2>1 DEF Waiting
<1>4. Waiting \in Seq(Int) /\ Len(Waiting) = Stored - front
  BY <1>1, <1>3
<1> QED
  BY <1>1, <1>2, <1>3, <1>4 DEF WaitingInv

\* ProduceStore appends to the queue.
LEMMA StoreIsPut == IInv /\ IInv' /\ ProduceStore => Queue!Put
<1> SUFFICES ASSUME IInv, IInv', ProduceStore PROVE Queue!Put
  OBVIOUS
<1>1. Stored = tail - 1 /\ Stored' = tail /\ front' = front /\ tail \in Nat
  BY DEF IInv, TypeOK, ProduceStore, Stored, Goto, Procs
<1>2. conn[Main] = tail /\ conn[Main] # 0 /\ conn[Main] = Stored + 1
  BY <1>1, WaitingIs DEF WaitingInv, IInv, MainInv, ProduceStore
<1>3. Stored' - front' <= BUFFER_SIZE /\ Waiting' = [i \in 1 .. Stored' - front' |-> front' + i]
  <2>1. WaitingInv'
    BY WaitingIs, PTL
  <2> QED
    BY <2>1 DEF WaitingInv
<1>4. Len(Waiting) < BUFFER_SIZE
  BY <1>1, <1>3, WaitingIs DEF WaitingInv
<1>5. Waiting' = Append(Waiting, conn[Main])
  <2> DEFINE n == Stored - front
  <2>1. n \in Nat /\ Waiting = [i \in 1 .. n |-> front + i]
        /\ Waiting' = [i \in 1 .. n + 1 |-> front + i] /\ conn[Main] = front + (n + 1)
    BY <1>1, <1>2, <1>3, WaitingIs DEF WaitingInv
  <2>2. Len(Waiting) = n /\ Waiting \in Seq(Int)
    BY WaitingIs DEF WaitingInv
  <2>3. front \in Nat
    BY WaitingIs DEF WaitingInv
  <2> HIDE DEF n
  <2>4. Append(Waiting, conn[Main]) = [i \in 1 .. n + 1 |-> IF i <= n THEN Waiting[i] ELSE conn[Main]]
    BY <2>1, <2>2, <2>3
  <2> QED
    BY <2>1, <2>3, <2>4
<1>6. conn'[Main] = 0 /\ \A t \in Threads : conn'[t] = conn[t]
  BY DEF IInv, TypeOK, ProduceStore, Procs
<1> QED
  BY <1>2, <1>4, <1>5, <1>6 DEF Queue!Put, ProduceStore

\* ConsumeFetch takes the head of the queue.
LEMMA FetchIsTake == ASSUME NEW t \in Threads
                     PROVE  IInv /\ IInv' /\ ConsumeFetch(t) => Queue!Take(t)
<1> SUFFICES ASSUME IInv, IInv', ConsumeFetch(t) PROVE Queue!Take(t)
  OBVIOUS
<1>1. front' = front + 1 /\ Stored' = Stored
  BY DEF IInv, TypeOK, RegInv, ConsumeFetch, Stored, Goto, Procs
<1>2. /\ Stored' - front' \in Nat
      /\ Waiting' = [i \in 1 .. Stored' - front' |-> front' + i]
  <2>1. WaitingInv'
    BY WaitingIs, PTL
  <2> QED
    BY <2>1 DEF WaitingInv
<1> DEFINE n == Stored - front
<1>3. /\ n \in Nat \ {0} /\ front \in Nat
      /\ Waiting = [i \in 1 .. n |-> front + i]
      /\ Waiting' = [i \in 1 .. n - 1 |-> front + 1 + i]
  BY <1>1, <1>2, WaitingIs DEF WaitingInv
<1>4. Waiting \in Seq(Int) /\ Len(Waiting) = n
  BY WaitingIs DEF WaitingInv
<1> HIDE DEF n
<1>5. Waiting # <<>> /\ Head(Waiting) = front + 1
  BY <1>3, <1>4
<1>6. Tail(Waiting) = [i \in 1 .. n - 1 |-> Waiting[i + 1]]
  BY <1>3, <1>4
<1>7. Waiting' = Tail(Waiting)
  BY <1>3, <1>6
<1>8. conn[t] = 0 /\ conn' = [conn EXCEPT ![t] = front + 1]
  <2>1. data[(front + 1) % BUFFER_SIZE] = front + 1
    <3>1. front + 1 \in Window
      BY <1>3, WaitingIs DEF WaitingInv, Window, n
    <3> QED
      BY <3>1 DEF IInv, ContentInv
  <2> QED
    BY <2>1 DEF IInv, OwnInv, RegInv, ConsumeFetch
<1>9. /\ [u \in Threads |-> conn'[u]] = [[u \in Threads |-> conn[u]] EXCEPT ![t] = front + 1]
      /\ conn'[Main] = conn[Main]
  BY <1>8 DEF IInv, TypeOK, Procs
<1> QED
  BY <1>5, <1>7, <1>8, <1>9 DEF Queue!Take, ConsumeFetch
\* Every other step of main or of a thread that moves no connection is invisible.
Silent == \/ ProduceWaitSlot \/ ProduceLock \/ ProduceBump \/ ProduceUnlock \/ ProducePost
          \/ \E t \in Threads : \/ ConsumeWaitItem(t) \/ ConsumeLock(t) \/ ConsumeLoad(t)
                                \/ ConsumeUnlock(t) \/ ConsumePost(t) \/ Doit(t)

LEMMA SilentStutters == IInv /\ Silent => UNCHANGED Queue!qvars
<1> SUFFICES ASSUME IInv, Silent PROVE UNCHANGED Queue!qvars
  OBVIOUS
<1>1. /\ front' = front /\ data' = data /\ conn' = conn
      /\ accepted' = accepted /\ closed' = closed /\ exited' = exited
  BY DEF Silent, ProduceWaitSlot, ProduceLock, ProduceBump, ProduceUnlock, ProducePost,
         ConsumeWaitItem, ConsumeLock, ConsumeLoad, ConsumeUnlock, ConsumePost, Doit
<1>2. Stored' = Stored
  <2>1. CASE ProduceWaitSlot \/ ProduceLock \/ ProduceBump \/ ProduceUnlock \/ ProducePost
    BY SMTT(60), <2>1 DEF IInv, TypeOK, Stored, Goto, Procs,
                ProduceWaitSlot, ProduceLock, ProduceBump, ProduceUnlock, ProducePost
  <2>2. ASSUME NEW t \in Threads,
               \/ ConsumeWaitItem(t) \/ ConsumeLock(t) \/ ConsumeLoad(t)
               \/ ConsumeUnlock(t) \/ ConsumePost(t) \/ Doit(t)
        PROVE  Stored' = Stored
    BY <2>2 DEF IInv, TypeOK, Stored, Goto, Procs,
                ConsumeWaitItem, ConsumeLock, ConsumeLoad, ConsumeUnlock, ConsumePost, Doit
  <2> QED
    BY <2>1, <2>2 DEF Silent
<1>3. Waiting' = Waiting
  BY <1>1, <1>2 DEF Waiting
<1> QED
  BY <1>1, <1>3 DEF Queue!qvars

LEMMA InitRefines == Init => Queue!Init
<1> SUFFICES ASSUME Init PROVE Queue!Init
  OBVIOUS
<1>1. Waiting = <<>>
  BY DEF Init, Waiting, Stored, Procs
<1> QED
  BY <1>1 DEF Init, Queue!Init, Procs

\* An unmoved ring is an unmoved queue.
LEMMA RingKept ==
  ASSUME UNCHANGED <<front, data, tail>>, pc[Main] # "store", pc'[Main] # "store"
  PROVE  Waiting' = Waiting
BY DEF Waiting, Stored

LEMMA StepRefines == IInv /\ IInv' /\ [Next]_vars => [Queue!Next]_Queue!qvars
<1> SUFFICES ASSUME IInv, IInv', [Next]_vars PROVE [Queue!Next]_Queue!qvars
  OBVIOUS
<1>1. CASE UNCHANGED vars
  BY <1>1 DEF vars, Queue!qvars, Waiting, Stored
<1>2. CASE Silent
  BY <1>2, SilentStutters
<1>3. CASE ~exited /\ Accept
  <2>1. Waiting' = Waiting
    BY <1>3, RingKept DEF Accept, Goto, IInv, TypeOK, Procs
  <2>2. conn[Main] = 0 /\ conn'[Main] = accepted + 1 /\ \A t \in Threads : conn'[t] = conn[t]
    BY <1>3 DEF Accept, IInv, TypeOK, MainInv, Procs
  <2>3. Queue!Offer
    BY <1>3, <2>1, <2>2 DEF Accept, Queue!Offer
  <2> QED
    BY <1>3, <2>3 DEF Queue!Next
<1>4. CASE ~exited /\ ProduceStore
  BY <1>4, StoreIsPut DEF Queue!Next
<1>5. CASE ~exited /\ \E t \in Threads : ConsumeFetch(t)
  BY <1>5, FetchIsTake DEF Queue!Next
<1>6. ASSUME ~exited, NEW t \in Threads, CloseConn(t) PROVE [Queue!Next]_Queue!qvars
  <2>1. Waiting' = Waiting
    BY <1>6 DEF CloseConn, Goto, IInv, TypeOK, Procs, Waiting, Stored
  <2>2. conn[t] # 0 /\ conn' = [conn EXCEPT ![t] = 0] /\ conn'[Main] = conn[Main]
    BY <1>6 DEF CloseConn, IInv, TypeOK, OwnInv, Procs
  <2>3. [u \in Threads |-> conn'[u]] = [[u \in Threads |-> conn[u]] EXCEPT ![t] = 0]
    BY <2>2 DEF IInv, TypeOK, Procs
  <2>4. Queue!Finish(t)
    BY <1>6, <2>1, <2>2, <2>3 DEF CloseConn, Queue!Finish
  <2> QED
    BY <1>6, <2>4 DEF Queue!Next
<1>7. ASSUME ~exited, NEW p \in Procs, UnixError(p) PROVE [Queue!Next]_Queue!qvars
  <2>1. Waiting' = Waiting
    BY <1>7 DEF UnixError, Waiting, Stored
  <2>2. Queue!Stop
    BY <1>7, <2>1 DEF UnixError, Queue!Stop
  <2> QED
    BY <1>7, <2>2 DEF Queue!Next
<1> QED
  BY <1>1, <1>2, <1>3, <1>4, <1>5, <1>6, <1>7 DEF Next, Produce, Consume, Silent

\* Connections are fetched in the order of their acceptance, each once, and at most
\* BUFFER_SIZE of them wait: the semaphores and the ring implement a bounded FIFO queue.
THEOREM Refinement == Spec => ImplementsQueue
<1> QED
  BY Inductive, InitRefines, StepRefines, PTL DEF Spec, ImplementsQueue, Queue!Spec
=============================================================================
