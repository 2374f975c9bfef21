-------------------------- MODULE ProxyCacheProofs --------------------------
(***************************************************************************)
(* Proofs about the object cache, for any number of threads, lines, urls   *)
(* and requests: first its readers-writer lock, then the lines it guards,  *)
(* then the proxy that main(), the buffer and the threads make of it.      *)
(***************************************************************************)
EXTENDS Proxy, FiniteSetTheorems, SequenceTheorems, TLAPS

-----------------------------------------------------------------------------
(* The inductive invariant of the lock.                                      *)

\* Threads that readcnt counts, and of these the ones on whose behalf writer is held.
Readers   == {t \in Threads : pc[t] \in {"rwriter", "runlock", "send", "send2", "xlock", "xcount"}}
InGroup(t) == pc[t] \in {"runlock", "send", "send2", "xlock", "xcount"}

\* Threads between P(mutex) and V(mutex).
Counting(t) == pc[t] \in {"rcount", "rwriter", "runlock", "xcount", "xwriter", "xunlock"}

LockTypes ==
  /\ pc \in [Threads -> Labels]
  /\ readcnt \in Nat /\ mutex \in {0, 1} /\ writer \in {0, 1}

MutexInv ==
  /\ \A t, u \in Threads : Counting(t) /\ Counting(u) => t = u
  /\ mutex = 0 <=> \E t \in Threads : Counting(t)

CountInv == readcnt = Cardinality(Readers)

\* writer is held by the group of readers, by the last of them on its way out, or by one writer;
\* the first reader waits for it, and the last gives it back, when no other reader is in the group.
WriterInv ==
  /\ writer = 0 <=> \E t \in Threads : InGroup(t) \/ pc[t] = "xwriter" \/ Writing(t)
  /\ \A t, u \in Threads :
       /\ Writing(t) => ~InGroup(u) /\ pc[u] # "xwriter"
       /\ Writing(t) /\ Writing(u) => t = u
       /\ pc[t] \in {"rwriter", "xwriter"} => ~InGroup(u)

LockInv == LockTypes /\ MutexInv /\ CountInv /\ WriterInv

-----------------------------------------------------------------------------
LEMMA ReadersFinite == /\ IsFiniteSet(Readers) /\ Cardinality(Readers) \in Nat
                       /\ Cardinality(Readers) = 0 <=> Readers = {}
BY ThreadsAssumption, FS_Subset, FS_CardinalityType, FS_EmptySet DEF Readers, ThreadsAssumption

LEMMA LockInit == Init => LockInv
<1> SUFFICES ASSUME Init PROVE LockInv
  OBVIOUS
<1>1. Readers = {}
  BY DEF Init, Readers
<1> QED
  BY <1>1, FS_EmptySet
  DEF Init, LockInv, LockTypes, MutexInv, CountInv, WriterInv, Labels, InGroup, Counting, Writing

\* A step of t that leaves every lock variable alone and moves it between labels that the
\* invariant does not tell apart.
Same(l, m) ==
  /\ l \in Labels /\ m \in Labels
  /\ \/ {l, m} \subseteq {"request", "find", "rlock", "fetch", "free", "lru", "wlock"}
     \/ {l, m} \subseteq {"send", "send2", "xlock"}
     \/ {l, m} \subseteq {"copy", "name", "time", "valid", "wunlock"}

LEMMA Indifferent ==
  ASSUME LockInv, NEW t \in Threads, NEW l, Same(pc[t], l),
         pc' = [pc EXCEPT ![t] = l], UNCHANGED lockvars
  PROVE  LockInv'
<1>1. LockTypes'
  BY DEF LockInv, LockTypes, Same, lockvars
<1>2. /\ pc'[t] = l /\ \A u \in Threads \ {t} : pc'[u] = pc[u]
  BY DEF LockInv, LockTypes
<1>3. \A u \in Threads : /\ InGroup(u)' = InGroup(u) /\ Writing(u)' = Writing(u)
                         /\ Counting(u)' = Counting(u)
                         /\ (pc'[u] \in {"rwriter", "xwriter"}) = (pc[u] \in {"rwriter", "xwriter"})
                         /\ (pc'[u] = "xwriter") = (pc[u] = "xwriter")
  BY <1>2 DEF InGroup, Writing, Counting, Same
<1>4. Readers' = Readers
  BY <1>2 DEF Readers, Same
<1>5. MutexInv'
  BY <1>3 DEF LockInv, MutexInv, lockvars
<1>6. CountInv'
  BY <1>4 DEF LockInv, CountInv, lockvars
<1>7. WriterInv'
  BY <1>3 DEF LockInv, WriterInv, lockvars
<1> QED
  BY <1>1, <1>5, <1>6, <1>7 DEF LockInv

\* A step of t to label l.
LEMMA Moves ==
  ASSUME LockInv, NEW t \in Threads, NEW l \in Labels, Goto(t, l)
  PROVE  /\ pc' \in [Threads -> Labels]
         /\ pc'[t] = l /\ \A u \in Threads \ {t} : pc'[u] = pc[u]
         /\ Readers' = IF l \in {"rwriter", "runlock", "send", "send2", "xlock", "xcount"}
                       THEN Readers \cup {t} ELSE Readers \ {t}
BY DEF LockInv, LockTypes, Goto, Readers

LEMMA LockMutexStep ==
  ASSUME LockInv, NEW t \in Threads, LockMutex(t)
  PROVE  LockInv'
<1> DEFINE l == IF pc[t] = "rlock" THEN "rcount" ELSE "xcount"
<1>1. l \in Labels /\ Goto(t, l) /\ pc[t] \in {"rlock", "xlock"} /\ mutex = 1 /\ mutex' = 0
      /\ readcnt' = readcnt /\ writer' = writer
  BY DEF LockMutex, Labels, LockInv, LockTypes
<1>2. /\ pc' \in [Threads -> Labels] /\ pc'[t] = l /\ \A u \in Threads \ {t} : pc'[u] = pc[u]
      /\ Readers' = Readers
  BY <1>1, Moves DEF Readers
<1>3. MutexInv'
  BY <1>1, <1>2 DEF LockInv, MutexInv, Counting
<1>4. WriterInv'
  BY <1>1, <1>2 DEF LockInv, MutexInv, WriterInv, InGroup, Writing, Counting
<1> QED
  BY <1>1, <1>2, <1>3, <1>4 DEF LockInv, LockTypes, CountInv

LEMMA UnlockMutexStep ==
  ASSUME LockInv, NEW t \in Threads, UnlockMutex(t)
  PROVE  LockInv'
<1> DEFINE l == IF pc[t] = "runlock" THEN "send" ELSE "request"
<1>1. l \in Labels /\ Goto(t, l) /\ pc[t] \in {"runlock", "xunlock"} /\ mutex = 0 /\ mutex' = 1
      /\ readcnt' = readcnt /\ writer' = writer
  BY DEF UnlockMutex, Labels, LockInv, LockTypes, MutexInv, Counting
<1>2. /\ pc' \in [Threads -> Labels] /\ pc'[t] = l /\ \A u \in Threads \ {t} : pc'[u] = pc[u]
      /\ Readers' = Readers
  BY <1>1, Moves DEF Readers
<1>3. MutexInv'
  BY <1>1, <1>2 DEF LockInv, MutexInv, Counting
<1>4. WriterInv'
  BY <1>1, <1>2 DEF LockInv, WriterInv, InGroup, Writing
<1> QED
  BY <1>1, <1>2, <1>3, <1>4 DEF LockInv, LockTypes, CountInv

\* The first reader finds nobody in the group; a later one finds somebody, as no other thread is
\* at rwriter.
LEMMA ReaderEnterStep ==
  ASSUME LockInv, NEW t \in Threads, ReaderEnter(t)
  PROVE  LockInv'
<1> DEFINE l == IF readcnt' = 1 THEN "rwriter" ELSE "runlock"
<1>1. l \in Labels /\ Goto(t, l) /\ pc[t] = "rcount" /\ readcnt' = readcnt + 1
      /\ mutex' = mutex /\ writer' = writer
  BY DEF ReaderEnter, Labels
<1>2. /\ pc' \in [Threads -> Labels] /\ pc'[t] = l /\ \A u \in Threads \ {t} : pc'[u] = pc[u]
      /\ Readers' = Readers \cup {t} /\ t \notin Readers
  BY <1>1, Moves DEF Readers
<1>3. CountInv'
  BY <1>1, <1>2, ReadersFinite, FS_AddElement DEF LockInv, CountInv
<1>4. MutexInv'
  BY <1>1, <1>2 DEF LockInv, MutexInv, Counting
<1>5. /\ l = "rwriter" => \A u \in Threads : ~InGroup(u)
      /\ l = "runlock" => \E u \in Threads \ {t} : InGroup(u)
  <2>1. readcnt' = 1 <=> Readers = {}
    BY <1>1, ReadersFinite DEF LockInv, LockTypes, CountInv
  <2>2. \A u \in Readers : u \in Threads \ {t} /\ InGroup(u)
    BY <1>1 DEF Readers, LockInv, MutexInv, Counting, InGroup
  <2>3. \A u \in Threads : InGroup(u) => u \in Readers
    BY DEF Readers, InGroup
  <2> QED
    BY <2>1, <2>2, <2>3
<1>6. WriterInv'
  <2>1. \A u \in Threads \ {t} : /\ InGroup(u)' = InGroup(u) /\ Writing(u)' = Writing(u)
                                 /\ pc'[u] = pc[u] /\ pc[u] \notin {"rwriter", "xwriter"}
    BY <1>1, <1>2 DEF InGroup, Writing, LockInv, MutexInv, Counting
  <2>2. ~InGroup(t) /\ ~Writing(t) /\ ~Writing(t)' /\ pc'[t] # "xwriter" /\ pc[t] # "xwriter"
    BY <1>1, <1>2 DEF InGroup, Writing
  <2>3. CASE l = "rwriter"
    <3>1. ~InGroup(t)' /\ pc'[t] = "rwriter"
      BY <1>2, <2>3 DEF InGroup
    <3> QED
      BY <1>1, <1>5, <2>1, <2>2, <2>3, <3>1 DEF LockInv, WriterInv
  <2>4. CASE l = "runlock"
    <3>1. InGroup(t)' /\ pc'[t] = "runlock"
      BY <1>2, <2>4 DEF InGroup
    <3>2. writer = 0 /\ \A u \in Threads : ~Writing(u) /\ pc[u] # "xwriter"
      BY <1>5, <2>4, <2>1, <2>2 DEF LockInv, WriterInv
    <3> QED
      BY <1>1, <2>1, <2>2, <3>1, <3>2 DEF LockInv, WriterInv
  <2> QED
    BY <2>3, <2>4
<1> QED
  BY <1>1, <1>2, <1>3, <1>4, <1>6 DEF LockInv, LockTypes

\* The last reader leaves nobody in the group; an earlier one leaves somebody.
LEMMA ReaderLeaveStep ==
  ASSUME LockInv, NEW t \in Threads, ReaderLeave(t)
  PROVE  LockInv'
<1> DEFINE l == IF readcnt' = 0 THEN "xwriter" ELSE "xunlock"
<1>1. l \in Labels /\ Goto(t, l) /\ pc[t] = "xcount" /\ readcnt' = readcnt - 1
      /\ mutex' = mutex /\ writer' = writer
  BY DEF ReaderLeave, Labels
<1>2. /\ pc' \in [Threads -> Labels] /\ pc'[t] = l /\ \A u \in Threads \ {t} : pc'[u] = pc[u]
      /\ Readers' = Readers \ {t} /\ t \in Readers
  BY <1>1, Moves DEF Readers
<1>3. CountInv' /\ IsFiniteSet(Readers') /\ Cardinality(Readers') \in Nat
      /\ (Cardinality(Readers') = 0 <=> Readers' = {})
  BY SMTT(60), <1>1, <1>2, ReadersFinite, FS_RemoveElement, FS_EmptySet DEF LockInv, CountInv
<1>4. MutexInv'
  BY <1>1, <1>2 DEF LockInv, MutexInv, Counting
<1>5. /\ l = "xwriter" => \A u \in Threads \ {t} : ~InGroup(u)
      /\ l = "xunlock" => \E u \in Threads \ {t} : InGroup(u)
  <2>1. readcnt' = 0 <=> Readers' = {}
    BY <1>3 DEF CountInv
  <2>2. \A u \in Readers' : u \in Threads \ {t} /\ InGroup(u)
    BY <1>1, <1>2 DEF Readers, LockInv, MutexInv, Counting, InGroup
  <2>3. \A u \in Threads \ {t} : InGroup(u) => u \in Readers'
    BY <1>2 DEF Readers, InGroup
  <2> QED
    BY <2>1, <2>2, <2>3
<1>6. WriterInv'
  <2>1. \A u \in Threads \ {t} : /\ InGroup(u)' = InGroup(u) /\ Writing(u)' = Writing(u)
                                 /\ pc'[u] = pc[u] /\ pc[u] \notin {"rwriter", "xwriter"}
    BY <1>1, <1>2 DEF InGroup, Writing, LockInv, MutexInv, Counting
  <2>2. InGroup(t) /\ ~InGroup(t)' /\ ~Writing(t)' /\ pc'[t] # "rwriter"
    BY <1>1, <1>2 DEF InGroup, Writing
  <2>3. writer = 0 /\ \A u \in Threads : ~Writing(u)
    BY <2>2 DEF LockInv, WriterInv
  <2> QED
    BY <1>1, <1>2, <1>5, <2>1, <2>2, <2>3 DEF WriterInv
<1> QED
  BY <1>1, <1>2, <1>3, <1>4, <1>6 DEF LockInv, LockTypes, CountInv

LEMMA LockWriterStep ==
  ASSUME LockInv, NEW t \in Threads, LockWriter(t)
  PROVE  LockInv'
<1> DEFINE l == IF pc[t] = "rwriter" THEN "runlock" ELSE "copy"
<1>1. l \in Labels /\ Goto(t, l) /\ pc[t] \in {"rwriter", "wlock"} /\ writer = 1 /\ writer' = 0
      /\ readcnt' = readcnt /\ mutex' = mutex
  BY DEF LockWriter, Labels, LockInv, LockTypes
<1>2. /\ pc' \in [Threads -> Labels] /\ pc'[t] = l /\ \A u \in Threads \ {t} : pc'[u] = pc[u]
      /\ Readers' = Readers
  BY <1>1, Moves DEF Readers
<1>3. MutexInv'
  BY <1>1, <1>2 DEF LockInv, MutexInv, Counting
<1>4. \A u \in Threads : ~InGroup(u) /\ pc[u] # "xwriter" /\ ~Writing(u)
  BY <1>1 DEF LockInv, WriterInv
<1>5. \A u \in Threads \ {t} : ~InGroup(u)' /\ pc'[u] # "xwriter" /\ ~Writing(u)'
  BY <1>2, <1>4 DEF InGroup, Writing
<1>6. WriterInv'
  <2>1. CASE pc[t] = "rwriter"
    <3>1. pc'[t] = "runlock" /\ \A u \in Threads \ {t} : pc'[u] # "rwriter"
      BY <1>2, <2>1 DEF LockInv, MutexInv, Counting
    <3> QED
      BY <1>1, <1>5, <3>1 DEF WriterInv, InGroup, Writing
  <2>2. CASE pc[t] = "wlock"
    <3>1. pc'[t] = "copy"
      BY <1>2, <2>2
    <3> QED
      BY <1>1, <1>5, <3>1 DEF WriterInv, InGroup, Writing
  <2> QED
    BY <1>1, <2>1, <2>2
<1> QED
  BY <1>1, <1>2, <1>3, <1>6 DEF LockInv, LockTypes, CountInv

LEMMA UnlockWriterStep ==
  ASSUME LockInv, NEW t \in Threads, UnlockWriter(t)
  PROVE  LockInv'
<1> DEFINE l == IF pc[t] = "xwriter" THEN "xunlock" ELSE "request"
<1>1. l \in Labels /\ Goto(t, l) /\ pc[t] \in {"xwriter", "wunlock"} /\ writer = 0 /\ writer' = 1
      /\ readcnt' = readcnt /\ mutex' = mutex
  BY DEF UnlockWriter, Labels, LockInv, LockTypes, WriterInv, Writing
<1>2. /\ pc' \in [Threads -> Labels] /\ pc'[t] = l /\ \A u \in Threads \ {t} : pc'[u] = pc[u]
      /\ Readers' = Readers
  BY <1>1, Moves DEF Readers
<1>3. MutexInv'
  BY <1>1, <1>2 DEF LockInv, MutexInv, Counting
<1>4. \A u \in Threads \ {t} : ~InGroup(u) /\ pc[u] # "xwriter" /\ ~Writing(u)
  BY <1>1 DEF LockInv, WriterInv, MutexInv, Counting, Writing
<1>5. \A u \in Threads : ~InGroup(u)' /\ pc'[u] # "xwriter" /\ ~Writing(u)'
  BY <1>1, <1>2, <1>4 DEF InGroup, Writing
<1>6. WriterInv'
  BY <1>1, <1>5 DEF WriterInv
<1> QED
  BY <1>1, <1>2, <1>3, <1>6 DEF LockInv, LockTypes, CountInv

-----------------------------------------------------------------------------
\* Steps that do not use the lock.
Elsewhere(t) ==
  \/ Begin(t) \/ BeginOther(t) \/ FindStep(t) \/ FindEnd(t) \/ Fetch(t)
  \/ FreeStep(t) \/ FreeEnd(t) \/ LruStep(t) \/ LruEnd(t)
  \/ SendFirst(t) \/ SendRest(t)
  \/ WriteBuf(t) \/ WriteOutside(t) \/ WriteUrl(t) \/ WriteTime(t) \/ WriteValid(t)
  \/ UnixError(t)

LEMMA ElsewhereStep ==
  ASSUME LockInv, NEW t \in Threads, Elsewhere(t)
  PROVE  LockInv'
<1>1. UNCHANGED lockvars
  BY DEF Elsewhere, Begin, BeginOther, FindStep, FindEnd, Fetch, FreeStep, FreeEnd, LruStep, LruEnd,
         SendFirst, SendRest, WriteBuf, WriteOutside, WriteUrl, WriteTime, WriteValid, UnixError,
         lockvars
<1>2. \/ pc' = pc
      \/ \E l \in Labels : Same(pc[t], l) /\ Goto(t, l)
  BY DEF Elsewhere, Begin, BeginOther, FindStep, FindEnd, Fetch, FreeStep, FreeEnd, LruStep, LruEnd,
         SendFirst, SendRest, WriteBuf, WriteOutside, WriteUrl, WriteTime, WriteValid, UnixError,
         Same, Labels
<1>3. CASE pc' = pc
  BY <1>1, <1>3 DEF LockInv, LockTypes, MutexInv, CountInv, WriterInv, Readers, InGroup, Writing,
                    Counting, lockvars
<1>4. CASE \E l \in Labels : Same(pc[t], l) /\ Goto(t, l)
  BY <1>1, <1>4, Indifferent DEF Goto
<1> QED
  BY <1>2, <1>3, <1>4

LEMMA StepCases ==
  ASSUME NEW t \in Threads, Step(t)
  PROVE  \/ Elsewhere(t) \/ LockMutex(t) \/ UnlockMutex(t) \/ ReaderEnter(t) \/ ReaderLeave(t)
         \/ LockWriter(t) \/ UnlockWriter(t)
BY DEF Step, CacheStep, NetworkStep, Elsewhere

\* The lock keeps its invariant under every step of every thread of doit() and write_cache().
THEOREM LockCorrect == Spec => []LockInv
<1>1. LockInv /\ [Next]_vars => LockInv'
  <2> SUFFICES ASSUME LockInv, [Next]_vars PROVE LockInv'
    OBVIOUS
  <2>1. CASE UNCHANGED vars
    BY <2>1 DEF LockInv, LockTypes, MutexInv, CountInv, WriterInv, Readers, InGroup, Writing,
                Counting, lockvars, vars
  <2>2. ASSUME NEW t \in Threads, Step(t) PROVE LockInv'
    BY <2>2, StepCases, ElsewhereStep, LockMutexStep, UnlockMutexStep, ReaderEnterStep,
       ReaderLeaveStep, LockWriterStep, UnlockWriterStep
  <2> QED
    BY <2>1, <2>2 DEF Next
<1> QED
  BY <1>1, LockInit, PTL DEF Spec

\* proxy.c:228: no thread sends from a line while another writes one, and one thread at most
\* writes, however many threads there are.
THEOREM Exclusion == Spec => []ReadersExcludeWriters
<1>1. LockInv => ReadersExcludeWriters
  BY DEF LockInv, WriterInv, ReadersExcludeWriters, Sending, InGroup
<1> QED
  BY <1>1, LockCorrect, PTL

\* readcnt counts the readers, and with no thread in doit()'s or write_cache()'s locked parts both
\* semaphores are free again.
THEOREM Balance == Spec => []LocksBalanced
<1>1. LockInv => LocksBalanced
  <2> SUFFICES ASSUME LockInv PROVE LocksBalanced
    OBVIOUS
  <2>1. readcnt = Cardinality({t \in Threads : pc[t] \in {"rwriter", "runlock", "send", "send2",
                                                           "xlock", "xcount"}})
    BY DEF LockInv, CountInv, Readers
  <2>2. ASSUME \A t \in Threads : pc[t] \in {"request", "find", "fetch", "free", "lru", "wlock",
                                             "rlock"}
        PROVE  mutex = 1 /\ writer = 1
    <3>1. \A t \in Threads : ~Counting(t) /\ ~InGroup(t) /\ pc[t] # "xwriter" /\ ~Writing(t)
      BY <2>2 DEF Counting, InGroup, Writing
    <3> QED
      BY <3>1 DEF LockInv, LockTypes, MutexInv, WriterInv
  <2> QED
    BY <2>1, <2>2 DEF LocksBalanced
<1> QED
  BY <1>1, LockCorrect, PTL

\* Threads that P(mutex) or P(writer) puts to sleep.
Asleep(t) == \/ pc[t] \in {"rlock", "xlock"} /\ mutex = 0
             \/ pc[t] \in {"rwriter", "wlock"} /\ writer = 0

\* Whoever sleeps waits, directly or through the first reader, for a thread that holds one of the
\* two semaphores and is awake.
HolderAwake ==
  \A t \in Threads : Asleep(t) =>
    \E u \in Threads : ~Asleep(u) /\ (Counting(u) \/ InGroup(u) \/ Writing(u))

\* doit() and write_cache() never put each other to sleep for good, although the first reader
\* waits for writer with the mutex held and the last reader needs that mutex to give writer back.
THEOREM NoDeadlock == Spec => []HolderAwake
<1>1. ASSUME LockInv, NEW t \in Threads, Asleep(t)
      PROVE  \E u \in Threads : ~Asleep(u) /\ (Counting(u) \/ InGroup(u) \/ Writing(u))
  <2>1. ASSUME NEW w \in Threads, Writing(w) PROVE ~Asleep(w)
    BY <2>1 DEF Writing, Asleep
  <2>2. ASSUME NEW u \in Threads, Counting(u)
        PROVE  ~Asleep(u) \/ \E w \in Threads : Writing(w)
    \* A holder of the mutex sleeps at rwriter only, and then no reader is in the group.
    <3>1. CASE pc[u] = "rwriter" /\ writer = 0
      <4>1. PICK w \in Threads : InGroup(w) \/ pc[w] = "xwriter" \/ Writing(w)
        BY <1>1, <3>1 DEF LockInv, WriterInv
      <4>2. ~InGroup(w)
        BY <1>1, <3>1 DEF LockInv, WriterInv
      <4>3. pc[w] # "xwriter"
        BY <1>1, <2>2, <3>1 DEF LockInv, MutexInv, Counting
      <4> QED
        BY <4>1, <4>2, <4>3
    <3>2. CASE ~(pc[u] = "rwriter" /\ writer = 0)
      BY <2>2, <3>2 DEF Counting, Asleep
    <3> QED
      BY <3>1, <3>2
  <2>3. CASE mutex = 0
    BY <1>1, <2>1, <2>2, <2>3 DEF LockInv, MutexInv
  <2>4. CASE mutex # 0
    <3>1. writer = 0
      BY <1>1, <2>4 DEF Asleep
    <3>2. PICK w \in Threads : InGroup(w) \/ pc[w] = "xwriter" \/ Writing(w)
      BY <1>1, <3>1 DEF LockInv, WriterInv
    <3>3. ~Asleep(w)
      BY <2>4, <3>2 DEF InGroup, Writing, Asleep
    <3> QED
      BY <3>2, <3>3 DEF Counting
  <2> QED
    BY <2>3, <2>4
<1>2. LockInv => HolderAwake
  BY <1>1 DEF HolderAwake
<1> QED
  BY <1>2, LockCorrect, PTL

-----------------------------------------------------------------------------
(* The inductive invariant of the lines and of what the threads know of them. *)

LineType == [buf : UrlOrNone, url : UrlOrNone, size : UrlOrNone, valid : BOOLEAN, timestamp : Nat]

DataTypes ==
  /\ line \in [Lines -> LineType] /\ current_time \in Nat
  /\ url \in [Threads -> UrlOrNone]
  /\ i \in [Threads -> 0 .. CACHE_LINE]
  /\ idx \in [Threads -> -1 .. CACHE_LINE - 1]
  /\ max_time \in [Threads -> Nat]
  /\ sent \in [Threads -> UrlOrNone \X UrlOrNone]
  /\ requests \in 0 .. MaxReq
  /\ exited \in BOOLEAN

\* A thread between its look-up and its answer has the index of a valid line, one that writes has
\* the index of a line.
IndexInv ==
  \A t \in Threads :
    /\ pc[t] # "request" => url[t] \in Urls
    /\ \/ pc[t] = "find" /\ idx[t] # -1
       \/ pc[t] \in {"rlock", "rcount", "rwriter", "runlock", "send", "send2"}
       => idx[t] \in Lines /\ line[idx[t]].valid
    /\ pc[t] \in {"name", "time", "valid"} => idx[t] \in Lines

Whole(l) == line[l].buf = line[l].url /\ line[l].size = line[l].url

\* A valid line is whole, or a writer has overwritten its object and not yet its name.
LinesInv ==
  /\ \A l \in Lines :
       /\ line[l].timestamp <= current_time
       /\ line[l].valid => /\ line[l].buf \in Urls /\ line[l].timestamp >= 1
                           /\ Whole(l) \/ \E t \in Threads : pc[t] = "name" /\ idx[t] = l
  /\ \A l, m \in Lines : l # m /\ line[l].timestamp = line[m].timestamp => line[l].timestamp = 0

WriteInv ==
  \A t \in Threads :
    /\ pc[t] \in {"name", "time", "valid"} => line[idx[t]].buf = url[t]
    /\ pc[t] \in {"time", "valid"} => Whole(idx[t])
    /\ pc[t] = "valid" => line[idx[t]].timestamp >= 1

SendInv ==
  \A t \in Threads : /\ pc[t] = "send2" => sent[t][1] = line[idx[t]].buf
                     /\ pc[t] = "xlock" => sent[t][1] = sent[t][2] /\ sent[t][1] # None

DataInv == DataTypes /\ IndexInv /\ LinesInv /\ WriteInv /\ SendInv

LEMMA DataInit == Init => DataInv
<1> SUFFICES ASSUME Init PROVE DataInv
  OBVIOUS
<1>1. DataTypes
  <2>1. /\ 0 \in 0 .. CACHE_LINE /\ -1 \in -1 .. CACHE_LINE - 1 /\ 0 \in 0 .. MaxReq
        /\ None \in UrlOrNone
    BY BoundAssumption, LinesAssumption DEF UrlOrNone, BoundAssumption, LinesAssumption
  <2>2. line \in [Lines -> LineType] /\ current_time \in Nat
    BY <2>1 DEF Init, LineType
  <2>3. sent \in [Threads -> UrlOrNone \X UrlOrNone]
    BY <2>1 DEF Init
  <2> QED
    BY <2>1, <2>2, <2>3 DEF Init, DataTypes
<1>2. IndexInv
  BY DEF Init, IndexInv
<1>3. LinesInv
  BY DEF Init, LinesInv, Whole
<1>4. WriteInv /\ SendInv
  BY DEF Init, WriteInv, SendInv
<1> QED
  BY <1>1, <1>2, <1>3, <1>4 DEF DataInv

\* A step of t to label l that leaves the lines and the locals alone.
HitLabels == {"rlock", "rcount", "rwriter", "runlock", "send"}

Quiet(t, l) ==
  /\ l \in Labels \ {"find", "name", "time", "valid", "send2", "xlock"}
  /\ l \in HitLabels => pc[t] \in HitLabels \/ (pc[t] = "find" /\ idx[t] # -1)
  /\ pc[t] \notin {"request", "name"}
  /\ Goto(t, l) /\ UNCHANGED <<cachevars, localvars, requests, exited>>

LEMMA QuietStep ==
  ASSUME LockTypes, DataInv, NEW t \in Threads, NEW l, Quiet(t, l)
  PROVE  DataInv'
<1> USE DEF Quiet, HitLabels
<1>1. /\ pc'[t] = l /\ \A u \in Threads \ {t} : pc'[u] = pc[u]
      /\ line' = line /\ current_time' = current_time /\ url' = url /\ i' = i /\ idx' = idx
      /\ max_time' = max_time /\ sent' = sent /\ requests' = requests /\ exited' = exited
  BY DEF LockTypes, Goto, cachevars, localvars
<1>2. DataTypes'
  BY <1>1 DEF DataInv, DataTypes
<1>3. IndexInv'
  BY <1>1 DEF DataInv, IndexInv
<1>4. LinesInv'
  BY <1>1 DEF DataInv, LinesInv, Whole
<1>5. WriteInv'
  BY <1>1 DEF DataInv, WriteInv, Whole
<1>6. SendInv'
  BY <1>1 DEF DataInv, SendInv
<1> QED
  BY <1>2, <1>3, <1>4, <1>5, <1>6 DEF DataInv

LEMMA QuietCases ==
  ASSUME LockTypes, NEW t \in Threads,
         \/ FindEnd(t) \/ LruEnd(t) \/ LockMutex(t) \/ UnlockMutex(t) \/ ReaderEnter(t)
         \/ ReaderLeave(t) \/ LockWriter(t) \/ UnlockWriter(t)
  PROVE  \E l : Quiet(t, l)
<1>1. FindEnd(t) => Quiet(t, IF idx[t] # -1 THEN "rlock" ELSE "fetch")
  BY DEF FindEnd, Quiet, HitLabels, Labels, lockvars
<1>2. LruEnd(t) => Quiet(t, "wlock")
  BY DEF LruEnd, Quiet, HitLabels, Labels, lockvars
<1>3. LockMutex(t) => Quiet(t, IF pc[t] = "rlock" THEN "rcount" ELSE "xcount")
  BY DEF LockMutex, Quiet, HitLabels, Labels
<1>4. UnlockMutex(t) => Quiet(t, IF pc[t] = "runlock" THEN "send" ELSE "request")
  BY DEF UnlockMutex, Quiet, HitLabels, Labels
<1>5. ReaderEnter(t) => Quiet(t, IF readcnt' = 1 THEN "rwriter" ELSE "runlock")
  BY DEF ReaderEnter, Quiet, HitLabels, Labels
<1>6. ReaderLeave(t) => Quiet(t, IF readcnt' = 0 THEN "xwriter" ELSE "xunlock")
  BY DEF ReaderLeave, Quiet, HitLabels, Labels
<1>7. LockWriter(t) => Quiet(t, IF pc[t] = "rwriter" THEN "runlock" ELSE "copy")
  BY DEF LockWriter, Quiet, HitLabels, Labels
<1>8. UnlockWriter(t) => Quiet(t, IF pc[t] = "xwriter" THEN "xunlock" ELSE "request")
  BY DEF UnlockWriter, Quiet, HitLabels, Labels
<1> QED
  BY <1>1, <1>2, <1>3, <1>4, <1>5, <1>6, <1>7, <1>8

\* A step of t that changes none of the lines and keeps what it knows of them true.
LEMMA LocalStep ==
  ASSUME LockTypes, DataInv, NEW t \in Threads, DataTypes',
         UNCHANGED cachevars,
         pc[t] \notin {"name", "time", "valid"}, pc'[t] \notin {"name", "time", "valid"},
         \A u \in Threads \ {t} : /\ pc'[u] = pc[u] /\ url'[u] = url[u]
                                  /\ idx'[u] = idx[u] /\ sent'[u] = sent[u],
         pc'[t] # "request" => url'[t] \in Urls,
         \/ pc'[t] = "find" /\ idx'[t] # -1
         \/ pc'[t] \in {"rlock", "rcount", "rwriter", "runlock", "send", "send2"}
         => idx'[t] \in Lines /\ line[idx'[t]].valid,
         pc'[t] = "send2" => sent'[t][1] = line[idx'[t]].buf,
         pc'[t] = "xlock" => sent'[t][1] = sent'[t][2] /\ sent'[t][1] # None
  PROVE  DataInv'
<1>1. line' = line /\ current_time' = current_time
  BY DEF cachevars
<1>2. IndexInv'
  BY <1>1 DEF DataInv, IndexInv
<1>3. LinesInv'
  BY <1>1 DEF DataInv, LinesInv, Whole
<1>4. WriteInv'
  BY <1>1 DEF DataInv, WriteInv, Whole
<1>5. SendInv'
  BY <1>1 DEF DataInv, SendInv
<1> QED
  BY <1>2, <1>3, <1>4, <1>5 DEF DataInv

\* The other steps of doit() and write_cache() that change no line, but locals of t.
Local(t) == \/ Begin(t) \/ FindStep(t) \/ Fetch(t) \/ FreeStep(t) \/ FreeEnd(t) \/ LruStep(t)
            \/ SendFirst(t) \/ SendRest(t)

LEMMA LocalTypes ==
  ASSUME LockTypes, DataInv, NEW t \in Threads, Local(t)
  PROVE  DataTypes'
<1> USE DEF cachevars, lockvars, DataInv, DataTypes
<1>1. Begin(t) => DataTypes'
  <2>1. 0 \in 0 .. CACHE_LINE /\ -1 \in -1 .. CACHE_LINE - 1 /\ None \in UrlOrNone
        /\ Urls \subseteq UrlOrNone
    BY LinesAssumption DEF UrlOrNone, LinesAssumption
  <2>2. <<None, None>> \in UrlOrNone \X UrlOrNone
    BY <2>1
  <2> QED
    BY <2>1, <2>2, BoundAssumption DEF Begin, BoundAssumption
<1>2. FindStep(t) => DataTypes'
  BY LinesAssumption DEF FindStep, LinesAssumption
<1>3. Fetch(t) => DataTypes'
  <2>1. <<url[t], url[t]>> \in UrlOrNone \X UrlOrNone /\ 0 \in 0 .. CACHE_LINE
    BY LinesAssumption DEF LinesAssumption
  <2> QED
    BY <2>1 DEF Fetch
<1>4. FreeStep(t) => DataTypes'
  <2>1. FreeStep(t) => i[t] \in -1 .. CACHE_LINE - 1 /\ i[t] + 1 \in 0 .. CACHE_LINE
    BY LinesAssumption DEF FreeStep, LinesAssumption
  <2> QED
    BY <2>1 DEF FreeStep
<1>5. FreeEnd(t) => DataTypes'
  BY LinesAssumption DEF FreeEnd, LinesAssumption
<1>6. LruStep(t) => DataTypes'
  <2>1. LruStep(t) => i[t] \in Lines /\ i[t] \in -1 .. CACHE_LINE - 1 /\ i[t] + 1 \in 0 .. CACHE_LINE
    BY LinesAssumption DEF LruStep, Lines, LinesAssumption
  <2>2. i[t] \in Lines => Age(i[t]) \in Int
    BY DEF Age, LineType
  <2>3. LruStep(t) /\ Age(i[t]) > max_time[t] => Age(i[t]) \in Nat
    BY <2>1, <2>2
  <2> QED
    BY <2>1, <2>3 DEF LruStep
<1>7. SendFirst(t) => DataTypes'
  <2>1. SendFirst(t) => <<line[idx[t]].buf, None>> \in UrlOrNone \X UrlOrNone
    BY DEF SendFirst, IndexInv, LineType, UrlOrNone
  <2> QED
    BY <2>1 DEF SendFirst
<1>8. SendRest(t) => DataTypes'
  <2>1. SendRest(t) => line[idx[t]].buf \in UrlOrNone
    BY DEF SendRest, IndexInv, LineType, UrlOrNone
  <2>2. [sent[t] EXCEPT ![2] = line[idx[t]].buf] = <<sent[t][1], line[idx[t]].buf>>
    OBVIOUS
  <2>3. sent[t][1] \in UrlOrNone
    OBVIOUS
  <2>4. SendRest(t) => sent' = [sent EXCEPT ![t] = <<sent[t][1], line[idx[t]].buf>>]
    BY <2>2 DEF SendRest
  <2> QED
    BY <2>1, <2>3, <2>4 DEF SendRest
<1> QED
  BY <1>1, <1>2, <1>3, <1>4, <1>5, <1>6, <1>7, <1>8 DEF Local

LEMMA LocalData ==
  ASSUME LockTypes, DataInv, NEW t \in Threads, Local(t)
  PROVE  DataInv'
<1> USE DEF Local, Begin, FindStep, Fetch, FreeStep, FreeEnd, LruStep, SendFirst, SendRest,
            cachevars, lockvars, LockTypes, Goto, DataInv, DataTypes
<1>1. /\ UNCHANGED cachevars
      /\ pc[t] \notin {"name", "time", "valid"} /\ pc'[t] \notin {"name", "time", "valid"}
  OBVIOUS
<1>2. \A u \in Threads \ {t} : /\ pc'[u] = pc[u] /\ url'[u] = url[u]
                               /\ idx'[u] = idx[u] /\ sent'[u] = sent[u]
  OBVIOUS
<1>3. pc'[t] # "request" => url'[t] \in Urls
  BY DEF IndexInv
<1>4. \/ pc'[t] = "find" /\ idx'[t] # -1
      \/ pc'[t] \in {"rlock", "rcount", "rwriter", "runlock", "send", "send2"}
      => idx'[t] \in Lines /\ line[idx'[t]].valid
  <2>1. FindStep(t) => i[t] \in Lines /\ idx' \in [Threads -> -1 .. CACHE_LINE - 1]
                       /\ pc'[t] = "find" /\ idx'[t] = IF Hits(t, i[t]) THEN i[t] ELSE idx[t]
    BY LinesAssumption, LocalTypes DEF Lines, LinesAssumption
  <2>2. pc[t] = "find" /\ idx[t] # -1 => idx[t] \in Lines /\ line[idx[t]].valid
    BY DEF IndexInv
  <2>3. CASE FindStep(t)
    BY <2>1, <2>2, <2>3 DEF Hits
  <2>4. CASE ~FindStep(t)
    BY <2>4 DEF IndexInv
  <2> QED
    BY <2>3, <2>4
<1>5. /\ pc'[t] = "send2" => sent'[t][1] = line[idx'[t]].buf
      /\ pc'[t] = "xlock" => sent'[t][1] = sent'[t][2] /\ sent'[t][1] # None
  BY UrlsAssumption DEF IndexInv, SendInv, LinesInv, UrlsAssumption
<1>6. DataTypes'
  BY LocalTypes
<1> QED
  BY <1>1, <1>2, <1>3, <1>4, <1>5, <1>6, LocalStep

\* A writer is alone: what a thread knows of a line that it sends stays true.
LEMMA Alone ==
  ASSUME LockInv, NEW t \in Threads, Writing(t)
  PROVE  \A u \in Threads \ {t} :
           pc[u] \notin {"send", "send2", "xlock", "copy", "name", "time", "valid", "wunlock"}
BY DEF LockInv, WriterInv, Writing, InGroup

\* The steps of a writer t to label l: line idx[t] gets the value new, and the others stay.
Writes(t, l, new) ==
  /\ Writing(t) /\ idx[t] \in Lines /\ new \in LineType
  /\ line' = [line EXCEPT ![idx[t]] = new]
  /\ l \in {"name", "time", "valid", "wunlock"} /\ Goto(t, l)
  /\ current_time' \in Nat /\ current_time' >= current_time
  /\ UNCHANGED <<localvars, requests, exited>>
  /\ new.buf = url[t]
  /\ \/ new.timestamp = line[idx[t]].timestamp
     \/ new.timestamp = current_time' /\ current_time' > current_time
  /\ l # "name" => new.buf = new.url /\ new.size = new.url
  /\ line[idx[t]].valid => new.valid
  /\ l = "valid" \/ (new.valid /\ ~line[idx[t]].valid) => new.timestamp >= 1

LEMMA WriteStep ==
  ASSUME LockInv, DataInv, NEW t \in Threads, NEW l, NEW new, Writes(t, l, new)
  PROVE  DataInv'
<1> USE DEF Writes
<1> USE DEF DataInv
<1>1. /\ pc'[t] = l /\ \A u \in Threads \ {t} : pc'[u] = pc[u]
      /\ line'[idx[t]] = new /\ \A k \in Lines \ {idx[t]} : line'[k] = line[k]
      /\ url' = url /\ i' = i /\ idx' = idx /\ max_time' = max_time /\ sent' = sent
      /\ requests' = requests /\ exited' = exited
  BY DEF LockInv, LockTypes, Goto, DataTypes, localvars
<1>2. DataTypes'
  BY <1>1 DEF DataTypes
<1>3. url[t] \in Urls
  BY DEF IndexInv, Writing
<1>4. IndexInv'
  BY <1>1, <1>3 DEF IndexInv, DataTypes
<1>5. \A u \in Threads \ {t} :
        pc[u] \notin {"send", "send2", "xlock", "copy", "name", "time", "valid", "wunlock"}
  BY Alone
<1>6. LinesInv'
  <2>1. \A k \in Lines : line[k].timestamp \in Nat /\ line'[k].timestamp \in Nat
    BY <1>2 DEF DataTypes, LineType
  <2>2. current_time \in Nat /\ \A k \in Lines : line[k].timestamp <= current_time
    BY DEF DataTypes, LinesInv
  <2>3. \A k \in Lines : line'[k].timestamp <= current_time'
    BY <1>1, <2>1, <2>2
  <2>4. \A k, m \in Lines : k # m /\ line'[k].timestamp = line'[m].timestamp
                              => line'[k].timestamp = 0
    BY <1>1, <2>1, <2>2 DEF LinesInv
  <2>5. ASSUME NEW k \in Lines, line'[k].valid
        PROVE  /\ line'[k].buf \in Urls /\ line'[k].timestamp >= 1
               /\ Whole(k)' \/ \E u \in Threads : pc'[u] = "name" /\ idx'[u] = k
    <3>1. CASE k = idx[t]
      <4>1. line'[k].timestamp >= 1
        BY <1>1, <2>1, <2>2, <2>5, <3>1 DEF LinesInv
      <4> QED
        BY <1>1, <1>3, <3>1, <4>1 DEF Whole
    <3>2. CASE k # idx[t]
      <4>1. line'[k] = line[k] /\ line[k].valid
        BY <1>1, <2>5, <3>2
      <4>2. Whole(k)
        BY <1>5, <3>2, <4>1 DEF LinesInv
      <4> QED
        BY <4>1, <4>2 DEF LinesInv, Whole
    <3> QED
      BY <3>1, <3>2
  <2> QED
    BY <2>3, <2>4, <2>5 DEF LinesInv
<1>7. WriteInv'
  <2>1. \A u \in Threads \ {t} : pc'[u] \notin {"name", "time", "valid"}
    BY <1>1, <1>5
  <2>2. /\ line'[idx'[t]].buf = url'[t]
        /\ pc'[t] \in {"time", "valid"} => Whole(idx[t])'
        /\ pc'[t] = "valid" => line'[idx'[t]].timestamp >= 1
    BY <1>1 DEF Whole
  <2> QED
    BY <1>1, <2>1, <2>2 DEF WriteInv, Whole
<1>8. SendInv'
  BY <1>1, <1>5 DEF SendInv
<1> QED
  BY <1>2, <1>4, <1>6, <1>7, <1>8

LEMMA WriterData ==
  ASSUME LockInv, DataInv, NEW t \in Threads,
         WriteBuf(t) \/ WriteUrl(t) \/ WriteTime(t) \/ WriteValid(t)
  PROVE  DataInv'
<1> DEFINE old == line[idx[t]]
<1> USE DEF DataInv
<1>1. idx[t] \in Lines /\ url[t] \in Urls /\ Writing(t)
  BY DEF IndexInv, Writing, WriteBuf, WriteUrl, WriteTime, WriteValid
<1>2. old \in LineType /\ old.timestamp \in Nat /\ current_time \in Nat /\ url[t] \in UrlOrNone
      /\ None \in UrlOrNone /\ (old.valid => old.timestamp >= 1)
  BY <1>1 DEF DataTypes, LineType, UrlOrNone, LinesInv
<1>3. CASE WriteBuf(t)
  <2> DEFINE new == [old EXCEPT !.buf = url[t], !.url = None]
  <2>1. new \in LineType /\ new.buf = url[t] /\ new.timestamp = old.timestamp
        /\ new.valid = old.valid
    BY <1>2 DEF LineType
  <2>2. line' = [line EXCEPT ![idx[t]] = new]
    BY <1>1, <1>3 DEF WriteBuf, DataTypes, LineType
  <2>3. Goto(t, "name") /\ UNCHANGED <<localvars, requests, exited>> /\ current_time' = current_time
    BY <1>3 DEF WriteBuf
  <2>4. Writes(t, "name", new)
    BY <1>1, <1>2, <2>1, <2>2, <2>3 DEF Writes
  <2> QED
    BY <2>4, WriteStep
<1>4. CASE WriteUrl(t)
  <2> DEFINE new == [old EXCEPT !.url = url[t], !.size = url[t]]
  <2>1. new \in LineType /\ new.buf = url[t] /\ new.url = new.buf /\ new.size = new.url
        /\ new.timestamp = old.timestamp /\ new.valid = old.valid
    BY <1>2, <1>4 DEF LineType, WriteInv, WriteUrl
  <2>2. line' = [line EXCEPT ![idx[t]] = new]
    BY <1>1, <1>4 DEF WriteUrl, DataTypes, LineType
  <2>3. Goto(t, "time") /\ UNCHANGED <<localvars, requests, exited>> /\ current_time' = current_time
    BY <1>4 DEF WriteUrl
  <2>4. Writes(t, "time", new)
    BY <1>1, <1>2, <2>1, <2>2, <2>3 DEF Writes
  <2> QED
    BY <2>4, WriteStep
<1>5. CASE WriteTime(t)
  <2> DEFINE new == [old EXCEPT !.timestamp = current_time']
  <2>1. Goto(t, "valid") /\ UNCHANGED <<localvars, requests, exited>>
        /\ current_time' = current_time + 1 /\ pc[t] = "time"
    BY <1>5 DEF WriteTime
  <2>2. new \in LineType /\ new.buf = url[t] /\ new.url = new.buf /\ new.size = new.url
        /\ new.timestamp = current_time' /\ new.valid = old.valid
    BY <1>2, <2>1 DEF LineType, WriteInv, Whole
  <2>3. line' = [line EXCEPT ![idx[t]] = new]
    BY <1>1, <1>5 DEF WriteTime, DataTypes, LineType
  <2>4. Writes(t, "valid", new)
    BY <1>1, <1>2, <2>1, <2>2, <2>3 DEF Writes
  <2> QED
    BY <2>4, WriteStep
<1>6. CASE WriteValid(t)
  <2> DEFINE new == [old EXCEPT !.valid = TRUE]
  <2>1. Goto(t, "wunlock") /\ UNCHANGED <<localvars, requests, exited>>
        /\ current_time' = current_time /\ pc[t] = "valid"
    BY <1>6 DEF WriteValid
  <2>2. new \in LineType /\ new.buf = url[t] /\ new.url = new.buf /\ new.size = new.url
        /\ new.timestamp = old.timestamp /\ new.valid /\ new.timestamp >= 1
    BY <1>2, <2>1 DEF LineType, WriteInv, Whole
  <2>3. line' = [line EXCEPT ![idx[t]] = new]
    BY <1>1, <1>6 DEF WriteValid, DataTypes, LineType
  <2>4. Writes(t, "wunlock", new)
    BY <1>1, <1>2, <2>1, <2>2, <2>3 DEF Writes
  <2> QED
    BY <2>4, WriteStep
<1> QED
  BY <1>3, <1>4, <1>5, <1>6

\* Steps that end the process, or answer a request that doit() does not serve.
LEMMA OtherData ==
  ASSUME LockTypes, DataInv, NEW t \in Threads, BeginOther(t) \/ WriteOutside(t) \/ UnixError(t)
  PROVE  DataInv'
<1>1. UNCHANGED <<cachevars, localvars, pc>>
  BY DEF BeginOther, WriteOutside, UnixError
<1>2. requests \in 0 .. MaxReq /\ exited \in BOOLEAN
  BY DEF DataInv, DataTypes
<1>3. requests' \in 0 .. MaxReq /\ exited' \in BOOLEAN
  <2>1. CASE BeginOther(t)
    BY <1>2, <2>1, BoundAssumption DEF BeginOther
  <2>2. CASE WriteOutside(t) \/ UnixError(t)
    BY <1>2, <2>2 DEF WriteOutside, UnixError
  <2> QED
    BY <2>1, <2>2
<1> QED
  BY <1>1, <1>3
  DEF DataInv, DataTypes, IndexInv, LinesInv, WriteInv, SendInv, Whole, cachevars, localvars

LEMMA DataCases ==
  ASSUME NEW t \in Threads, Step(t)
  PROVE  \/ Local(t)
         \/ BeginOther(t) \/ WriteOutside(t) \/ UnixError(t)
         \/ WriteBuf(t) \/ WriteUrl(t) \/ WriteTime(t) \/ WriteValid(t)
         \/ FindEnd(t) \/ LruEnd(t) \/ LockMutex(t) \/ UnlockMutex(t) \/ ReaderEnter(t)
         \/ ReaderLeave(t) \/ LockWriter(t) \/ UnlockWriter(t)
BY DEF Step, CacheStep, NetworkStep, Local

\* Under the lock, the lines and what the threads know of them keep their invariant.
THEOREM DataCorrect == Spec => [](LockInv /\ DataInv)
<1>1. LockInv /\ DataInv /\ [Next]_vars => DataInv'
  <2> SUFFICES ASSUME LockInv, DataInv, [Next]_vars PROVE DataInv'
    OBVIOUS
  <2>1. LockTypes
    BY DEF LockInv
  <2>2. CASE UNCHANGED vars
    BY <2>2 DEF DataInv, DataTypes, IndexInv, LinesInv, WriteInv, SendInv, Whole,
                cachevars, localvars, vars
  <2>3. ASSUME NEW t \in Threads, Step(t) PROVE DataInv'
    BY <2>1, <2>3, DataCases, LocalData, OtherData, WriterData, QuietCases, QuietStep
  <2> QED
    BY <2>2, <2>3 DEF Next
<1> QED
  BY <1>1, DataInit, LockCorrect, PTL DEF Spec

\* Types and bounds: readcnt is never negative, and every index is -1 or a line of the array.
THEOREM TypeCorrect == Spec => []TypeOK
<1>1. LockInv /\ DataInv => TypeOK
  BY DEF LockInv, LockTypes, DataInv, DataTypes, LineType, TypeOK
<1> QED
  BY <1>1, DataCorrect, PTL

\* While nobody writes, a valid line is the whole object of the url it is named after, and the
\* times of two lines differ.
THEOREM Consistency == Spec => []LineConsistent
<1>1. LockInv /\ DataInv => LineConsistent
  BY DEF DataInv, DataTypes, LinesInv, Whole, Writing, LineConsistent
<1> QED
  BY <1>1, DataCorrect, PTL

\* What a client is sent from the cache is one object.
THEOREM NoTear == Spec => []NoTornAnswer
<1>1. LockInv /\ DataInv => NoTornAnswer
  BY DEF DataInv, SendInv, NoTornAnswer
<1> QED
  BY <1>1, DataCorrect, PTL

-----------------------------------------------------------------------------
(* The proxy: doit() as the threads call it is the cache's doit().           *)

\* Where a connection is: main() holds it, it waits in the buffer, a thread serves it, or it is
\* closed; those that doit() has returned from are being served still or closed.
PlaceTypes ==
  /\ pc \in [Threads -> Labels] /\ listenfd \in {"none", "open"}
  /\ count \in Nat /\ offered \in 0 .. count
  /\ queue \in Seq(Nat) /\ \A k \in 1 .. Len(queue) : queue[k] \in 1 .. count
  /\ serving \in [Threads -> Nat] /\ \A t \in Threads : serving[t] <= count
  /\ done \subseteq answered /\ answered \subseteq 1 .. count

ListenInv ==
  listenfd = "none" => count = 0 /\ \A t \in Threads : pc[t] = "request"

QueuedInv ==
  /\ \A k \in 1 .. Len(queue) :
       /\ queue[k] # offered /\ queue[k] \notin answered
       /\ \A t \in Threads : queue[k] # serving[t]
       /\ \A j \in 1 .. Len(queue) : queue[j] = queue[k] => j = k
  /\ offered \notin answered /\ \A t \in Threads : serving[t] = offered => offered = 0

ServingInv ==
  /\ \A t, u \in Threads : serving[t] # 0 /\ serving[t] = serving[u] => t = u
  /\ \A t \in Threads : /\ pc[t] # "request" => serving[t] \notin answered \cup {0}
                        /\ serving[t] \notin done

PlaceInv == PlaceTypes /\ ListenInv /\ QueuedInv /\ ServingInv

LEMMA PlaceInit == ProxyInit => PlaceInv
BY DEF ProxyInit, Init, Buffer!Init, Labels, PlaceInv, PlaceTypes, ListenInv, QueuedInv, ServingInv

LEMMA MainSteps ==
  ASSUME PlaceInv, Listen \/ ListenFails \/ AcceptConn \/ Produce
  PROVE  PlaceInv'
<1>1. CASE Listen
  BY <1>1 DEF Listen, vars, queuevars, PlaceInv, PlaceTypes, ListenInv, QueuedInv, ServingInv
<1>2. CASE ListenFails
  BY <1>2 DEF ListenFails, queuevars, PlaceInv, PlaceTypes, ListenInv, QueuedInv, ServingInv
<1>3. CASE AcceptConn
  BY <1>3 DEF AcceptConn, Buffer!Offer, vars, PlaceInv, PlaceTypes, ListenInv, QueuedInv, ServingInv
<1>4. CASE Produce
  <2>1. /\ queue' = Append(queue, offered) /\ offered # 0 /\ offered' = 0
        /\ UNCHANGED <<pc, listenfd, count, serving, done, answered>>
    BY <1>4 DEF Produce, Buffer!Put, vars
  <2>2. /\ queue' \in Seq(Nat) /\ Len(queue') = Len(queue) + 1
        /\ \A k \in 1 .. Len(queue') : queue'[k] = IF k <= Len(queue) THEN queue[k] ELSE offered
    BY <2>1, AppendProperties DEF PlaceInv, PlaceTypes
  <2> QED
    BY <2>1, <2>2 DEF PlaceInv, PlaceTypes, ListenInv, QueuedInv, ServingInv
<1> QED
  BY <1>1, <1>2, <1>3, <1>4

LEMMA ConsumeStep ==
  ASSUME PlaceInv, NEW t \in Threads, Consume(t)
  PROVE  PlaceInv'
<1>1. /\ serving[t] = 0 /\ queue # <<>> /\ queue' = Tail(queue)
      /\ serving' = [serving EXCEPT ![t] = Head(queue)]
      /\ UNCHANGED <<pc, listenfd, offered, count, done, answered>>
  BY DEF Consume, Buffer!Take, vars
<1>2. /\ queue' \in Seq(Nat) /\ Len(queue') = Len(queue) - 1 /\ Len(queue) > 0
      /\ \A k \in 1 .. Len(queue') : queue'[k] = queue[k + 1]
      /\ Head(queue) = queue[1]
  BY <1>1, HeadTailProperties, EmptySeq DEF PlaceInv, PlaceTypes
<1>3. queue[1] \in 1 .. count /\ listenfd = "open"
  BY <1>2 DEF PlaceInv, PlaceTypes, ListenInv
<1>4. serving' \in [Threads -> Nat] /\ serving'[t] = queue[1]
      /\ \A u \in Threads \ {t} : serving'[u] = serving[u]
  BY <1>1, <1>2, <1>3 DEF PlaceInv, PlaceTypes
<1>5. PlaceTypes' /\ ListenInv'
  BY <1>1, <1>2, <1>3, <1>4 DEF PlaceInv, PlaceTypes, ListenInv
<1>6. QueuedInv'
  BY <1>1, <1>2, <1>3, <1>4 DEF PlaceInv, PlaceTypes, QueuedInv
<1>7. ServingInv'
  BY <1>1, <1>2, <1>3, <1>4 DEF PlaceInv, PlaceTypes, QueuedInv, ServingInv
<1> QED
  BY <1>5, <1>6, <1>7 DEF PlaceInv

LEMMA CloseStep ==
  ASSUME PlaceInv, NEW t \in Threads, CloseConn(t)
  PROVE  PlaceInv'
<1>1. /\ serving[t] \in answered /\ done' = done \cup {serving[t]}
      /\ serving' = [serving EXCEPT ![t] = 0]
      /\ UNCHANGED <<pc, listenfd, offered, count, queue, answered>>
  BY DEF CloseConn, Buffer!Finish, vars
<1>2. /\ serving' \in [Threads -> Nat]
      /\ serving'[t] = 0 /\ \A u \in Threads \ {t} : serving'[u] = serving[u]
  BY <1>1 DEF PlaceInv, PlaceTypes
<1>3. PlaceTypes' /\ ListenInv'
  <2>1. done' \subseteq answered'
    BY <1>1 DEF PlaceInv, PlaceTypes
  <2>2. \A u \in Threads : serving'[u] <= count'
    BY <1>1, <1>2 DEF PlaceInv, PlaceTypes
  <2> QED
    BY <1>1, <1>2, <2>1, <2>2 DEF PlaceInv, PlaceTypes, ListenInv
<1>4. QueuedInv'
  BY <1>1, <1>2 DEF PlaceInv, PlaceTypes, QueuedInv
<1>5. ServingInv'
  <2>1. serving[t] # 0 /\ pc[t] = "request"
    BY <1>1 DEF PlaceInv, PlaceTypes, ServingInv
  <2> QED
    BY <1>1, <1>2, <2>1 DEF PlaceInv, PlaceTypes, ServingInv
<1> QED
  BY <1>3, <1>4, <1>5 DEF PlaceInv

\* doit() moves the counter of its own thread, and what it does to exited ends the process.
LEMMA DoitMoves ==
  ASSUME PlaceTypes, NEW t \in Threads, CacheStep(t) \/ NetworkStep(t)
  PROVE  /\ pc[t] # "request" /\ exited' \in {exited, TRUE}
         /\ pc' \in [Threads -> Labels] /\ \A u \in Threads \ {t} : pc'[u] = pc[u]
<1>1. CASE NetworkStep(t)
  BY <1>1 DEF PlaceTypes, NetworkStep, SendFirst, SendRest, Fetch, Goto, Labels
<1>2. CASE CacheStep(t)
  <2>1. CASE \/ FindStep(t) \/ FindEnd(t) \/ LockMutex(t) \/ UnlockMutex(t) \/ ReaderEnter(t)
             \/ ReaderLeave(t) \/ LockWriter(t) \/ UnlockWriter(t)
    BY <2>1 DEF PlaceTypes, Goto, Labels, FindStep, FindEnd, LockMutex, UnlockMutex, ReaderEnter,
                ReaderLeave, LockWriter, UnlockWriter
  <2>2. CASE FreeStep(t) \/ FreeEnd(t) \/ LruStep(t) \/ LruEnd(t)
    BY <2>2 DEF PlaceTypes, Goto, Labels, FreeStep, FreeEnd, LruStep, LruEnd
  <2>3. CASE WriteBuf(t) \/ WriteOutside(t) \/ WriteUrl(t) \/ WriteTime(t) \/ WriteValid(t)
    BY <2>3 DEF PlaceTypes, Goto, Labels, WriteBuf, WriteOutside, WriteUrl, WriteTime, WriteValid
  <2> QED
    BY <1>2, <2>1, <2>2, <2>3 DEF CacheStep
<1> QED
  BY <1>1, <1>2

LEMMA ServeStep ==
  ASSUME PlaceInv, NEW t \in Threads, Enter(t) \/ Serve(t) \/ Fail(t)
  PROVE  PlaceInv'
<1>1. CASE Enter(t) /\ Begin(t)
  <2>1. /\ pc[t] = "request" /\ pc' = [pc EXCEPT ![t] = "find"]
        /\ serving[t] \notin answered \cup {0}
        /\ UNCHANGED <<listenfd, queue, offered, serving, count, done>>
    BY <1>1 DEF Enter, Begin, Goto, queuevars
  <2>2. answered' = answered \/ answered' = answered \cup {serving[t]}
    BY <1>1 DEF Enter
  <2>3. ~BeginOther(t)
    BY <1>1, <2>1 DEF BeginOther, PlaceInv, PlaceTypes
  <2>4. answered' = answered
    BY <1>1, <2>3 DEF Enter
  <2> QED
    BY <2>1, <2>4 DEF Labels, PlaceInv, PlaceTypes, ListenInv, QueuedInv, ServingInv
<1>2. CASE Enter(t) /\ BeginOther(t)
  <2>1. /\ pc[t] = "request" /\ UNCHANGED pc
        /\ serving[t] \notin answered \cup {0}
        /\ answered' \in {answered, answered \cup {serving[t]}}
        /\ UNCHANGED <<listenfd, queue, offered, serving, count, done>>
    BY <1>2 DEF Enter, BeginOther, queuevars
  <2>2. serving[t] \in 1 .. count
    BY <2>1 DEF PlaceInv, PlaceTypes
  <2>3. PlaceTypes' /\ ListenInv'
    BY <2>1, <2>2 DEF PlaceInv, PlaceTypes, ListenInv
  <2>4. QueuedInv'
    BY <2>1, <2>2 DEF PlaceInv, PlaceTypes, QueuedInv
  <2>5. ServingInv'
    BY <2>1, <2>2 DEF PlaceInv, PlaceTypes, ServingInv
  <2> QED
    BY <2>3, <2>4, <2>5 DEF PlaceInv
<1>3. CASE Serve(t)
  <2>1. /\ pc[t] # "request" /\ pc' \in [Threads -> Labels]
        /\ \A u \in Threads \ {t} : pc'[u] = pc[u]
        /\ answered' = IF pc'[t] = "request" THEN answered \cup {serving[t]} ELSE answered
        /\ UNCHANGED <<listenfd, queue, offered, serving, count, done>>
    BY <1>3, DoitMoves DEF Serve, Return, queuevars, PlaceInv
  <2>2. serving[t] \in 1 .. count /\ serving[t] \notin answered
    BY <2>1 DEF PlaceInv, PlaceTypes, ServingInv
  <2> QED
    BY <2>1, <2>2 DEF PlaceInv, PlaceTypes, ListenInv, QueuedInv, ServingInv
<1>4. CASE Fail(t)
  BY <1>4 DEF Fail, UnixError, queuevars, PlaceInv, PlaceTypes, ListenInv, QueuedInv, ServingInv
<1> QED
  BY <1>1, <1>2, <1>3, <1>4 DEF Enter

\* The inductive invariant of the proxy.
THEOREM Placement == ProxySpec => []PlaceInv
<1>1. PlaceInv /\ [ProxyNext]_proxyvars => PlaceInv'
  <2> SUFFICES ASSUME PlaceInv, [ProxyNext]_proxyvars PROVE PlaceInv'
    OBVIOUS
  <2>1. CASE UNCHANGED proxyvars
    BY <2>1 DEF proxyvars, vars, queuevars, PlaceInv, PlaceTypes, ListenInv, QueuedInv, ServingInv
  <2>2. ASSUME NEW t \in Threads, Thread(t) \/ Fail(t) PROVE PlaceInv'
    BY <2>2, ConsumeStep, CloseStep, ServeStep DEF Thread
  <2> QED
    BY <2>1, <2>2, MainSteps DEF ProxyNext
<1> QED
  BY <1>1, PlaceInit, PTL DEF ProxySpec

\* proxy.c:126: each connection is served by one thread, by one call of doit(), and closed after it.
THEOREM ServedByOne == ProxySpec => []ServedOnce
<1>1. PlaceInv => ServedOnce
  BY DEF PlaceInv, PlaceTypes, ServingInv, ServedOnce
<1> QED
  BY <1>1, Placement, PTL

\* What the threads do to the cache, to its locks and to their locals are steps of module
\* ProxyCache; that there is no socket to listen on looks to it like a failed Rio_ call.
THEOREM CacheRefined == ProxySpec => Spec
<1>1. PlaceInv /\ [ProxyNext]_proxyvars => [Next]_vars
  <2> SUFFICES ASSUME PlaceInv, [ProxyNext]_proxyvars PROVE [Next]_vars
    OBVIOUS
  <2>1. CASE UNCHANGED proxyvars
    BY <2>1 DEF proxyvars
  <2>2. CASE Listen \/ AcceptConn \/ Produce
    BY <2>2 DEF Listen, AcceptConn, Produce
  <2>3. CASE ~exited /\ ListenFails
    <3>1. PICK t \in Threads : pc[t] = "request"
      BY <2>3, SomeThreadAssumption DEF SomeThreadAssumption, ListenFails, PlaceInv, ListenInv
    <3> QED
      BY <2>3, <3>1 DEF ListenFails, UnixError, Next, Step
  <2>4. ASSUME ~exited, NEW t \in Threads, Thread(t) \/ Fail(t) PROVE [Next]_vars
    BY <2>4 DEF Thread, Consume, Enter, Serve, CloseConn, Fail, Next, Step
  <2> QED
    BY <2>1, <2>2, <2>3, <2>4 DEF ProxyNext
<1>2. ProxyInit => Init
  BY DEF ProxyInit
<1> QED
  BY <1>1, <1>2, Placement, PTL DEF ProxySpec, Spec

\* And what main() and the threads do to connections are steps of the queue that the buffer
\* implements; the process may end at any of them.
THEOREM QueueRefined == ProxySpec => Buffer!Spec
<1>1. PlaceInv /\ [ProxyNext]_proxyvars => [Buffer!Next]_Buffer!qvars
  <2> SUFFICES ASSUME PlaceInv, [ProxyNext]_proxyvars PROVE [Buffer!Next]_Buffer!qvars
    OBVIOUS
  <2>1. CASE UNCHANGED proxyvars
    BY <2>1 DEF proxyvars, vars, queuevars, Buffer!qvars
  <2>2. CASE ~exited /\ (Listen \/ ListenFails)
    BY <2>2 DEF Listen, ListenFails, vars, queuevars, Buffer!qvars, Buffer!Next, Buffer!Stop
  <2>3. CASE ~exited /\ (AcceptConn \/ Produce)
    BY <2>3 DEF AcceptConn, Produce, Buffer!Next
  <2>4. ASSUME ~exited, NEW t \in Threads, Consume(t) \/ CloseConn(t)
        PROVE  [Buffer!Next]_Buffer!qvars
    BY <2>4 DEF Consume, CloseConn, Buffer!Next
  <2>5. ASSUME ~exited, NEW t \in Threads, Enter(t) \/ Serve(t) \/ Fail(t)
        PROVE  [Buffer!Next]_Buffer!qvars
    <3>1. exited' \in {exited, TRUE} /\ UNCHANGED queuevars
      <4>1. CASE Serve(t)
        BY <4>1, DoitMoves DEF Serve, PlaceInv
      <4>2. CASE Enter(t) \/ Fail(t)
        BY <4>2 DEF Enter, Begin, BeginOther, Fail, UnixError
      <4> QED
        BY <2>5, <4>1, <4>2
    <3>2. CASE exited' = exited
      BY <3>1, <3>2 DEF queuevars, Buffer!qvars
    <3>3. CASE exited' = TRUE
      BY <2>5, <3>1, <3>3 DEF queuevars, Buffer!Next, Buffer!Stop
    <3> QED
      BY <3>1, <3>2, <3>3
  <2> QED
    BY <2>1, <2>2, <2>3, <2>4, <2>5 DEF ProxyNext, Thread
<1>2. ProxyInit => Buffer!Init
  BY DEF ProxyInit
<1> QED
  BY <1>1, <1>2, Placement, PTL DEF ProxySpec, Buffer!Spec

\* So the whole proxy excludes readers from writers, balances its locks, keeps its lines whole,
\* sends no torn answer and never puts all the threads in doit() to sleep.
THEOREM ProxySafe ==
  ProxySpec => [](ReadersExcludeWriters /\ LocksBalanced /\ LineConsistent /\ NoTornAnswer
                  /\ HolderAwake)
BY CacheRefined, Exclusion, Balance, Consistency, NoTear, NoDeadlock, PTL
=============================================================================
