---------------------------- MODULE ConnBuffer ----------------------------
(***************************************************************************)
(* The connection buffer of proxylab/proxy.c: main() accepts connections   *)
(* and hands them, through produce() and consume(), to the proxy threads.  *)
(* The ring `data` is guarded by three counting semaphores.  A connection  *)
(* is named by its place in the order of Accept, so that two connections   *)
(* are never equal although the kernel reuses descriptors.                 *)
(***************************************************************************)
EXTENDS Integers, FiniteSets

CONSTANTS Threads,      \* the threads started by main (NTHREAD of them)
          Main,         \* the main thread
          BUFFER_SIZE,  \* places of the ring
          MaxConn       \* bound: connections accepted in a behaviour

ASSUME ThreadsAssumption == IsFiniteSet(Threads) /\ Threads # {} /\ Main \notin Threads
ASSUME SizeAssumption    == BUFFER_SIZE \in Nat \ {0}
\* Below the bound of int: front and tail are C ints that are only ever incremented.
ASSUME BoundAssumption   == MaxConn \in Nat

VARIABLES data, front, tail,     \* connection_buffer, the ring
          mutex, slots, items,   \* connection_buffer, the semaphores
          pc,                    \* where each process is
          reg,                   \* the value of front a consumer has loaded
          conn,                  \* connfd (main, proxy_thread): the connection in hand, 0 for none
          accepted,              \* number of connections Accept has returned
          closed,                \* connections a thread has closed
          exited                 \* unix_error() has called exit()

vars == <<data, front, tail, mutex, slots, items, pc, reg, conn, accepted, closed, exited>>

Procs == Threads \cup {Main}

MainLabels   == {"accept", "slots", "lock", "bump", "store", "unlock", "post"}
ThreadLabels == {"items", "lock", "load", "fetch", "unlock", "post", "doit", "close"}

Goto(p, label) == pc' = [pc EXCEPT ![p] = label]

Init ==
  /\ data = [i \in 0 .. BUFFER_SIZE - 1 |-> 0]
  /\ front = 0 /\ tail = 0
  /\ mutex = 1 /\ slots = BUFFER_SIZE /\ items = 0
  /\ pc = [p \in Procs |-> IF p = Main THEN "accept" ELSE "items"]
  /\ reg = [t \in Threads |-> 0]
  /\ conn = [p \in Procs |-> 0]
  /\ accepted = 0 /\ closed = {} /\ exited = FALSE

-----------------------------------------------------------------------------
(* main() and produce().                                                     *)

Accept ==
  /\ pc[Main] = "accept" /\ accepted < MaxConn
  /\ accepted' = accepted + 1
  /\ conn' = [conn EXCEPT ![Main] = accepted + 1]
  /\ Goto(Main, "slots")
  /\ UNCHANGED <<data, front, tail, mutex, slots, items, reg, closed, exited>>

\* Mutation: produce() does not wait for a slot.
ProduceWaitSlot_NoWait ==
  /\ pc[Main] = "slots"
  /\ slots' = IF slots > 0 THEN slots - 1 ELSE 0
  /\ Goto(Main, "lock")
  /\ UNCHANGED <<data, front, tail, mutex, items, reg, conn, accepted, closed, exited>>

ProduceWaitSlot ==
  /\ pc[Main] = "slots" /\ slots > 0
  /\ slots' = slots - 1
  /\ Goto(Main, "lock")
  /\ UNCHANGED <<data, front, tail, mutex, items, reg, conn, accepted, closed, exited>>

ProduceLock ==
  /\ pc[Main] = "lock" /\ mutex > 0
  /\ mutex' = mutex - 1
  /\ Goto(Main, "bump")
  /\ UNCHANGED <<data, front, tail, slots, items, reg, conn, accepted, closed, exited>>

ProduceBump ==
  /\ pc[Main] = "bump"
  /\ tail' = tail + 1
  /\ Goto(Main, "store")
  /\ UNCHANGED <<data, front, mutex, slots, items, reg, conn, accepted, closed, exited>>

ProduceStore ==
  /\ pc[Main] = "store"
  /\ data' = [data EXCEPT ![tail % BUFFER_SIZE] = conn[Main]]
  /\ conn' = [conn EXCEPT ![Main] = 0]
  /\ Goto(Main, "unlock")
  /\ UNCHANGED <<front, tail, mutex, slots, items, reg, accepted, closed, exited>>

ProduceUnlock ==
  /\ pc[Main] = "unlock"
  /\ mutex' = mutex + 1
  /\ Goto(Main, "post")
  /\ UNCHANGED <<data, front, tail, slots, items, reg, conn, accepted, closed, exited>>

\* Mutation: produce() forgets V(items) when the ring was empty.
ProducePost_Lost ==
  /\ pc[Main] = "post"
  /\ items' = IF tail = front + 1 THEN items ELSE items + 1
  /\ Goto(Main, "accept")
  /\ UNCHANGED <<data, front, tail, mutex, slots, reg, conn, accepted, closed, exited>>

ProducePost ==
  /\ pc[Main] = "post"
  /\ items' = items + 1
  /\ Goto(Main, "accept")
  /\ UNCHANGED <<data, front, tail, mutex, slots, reg, conn, accepted, closed, exited>>

-----------------------------------------------------------------------------
(* proxy_thread() and consume().  `++front` is a load and a store: another   *)
(* thread could run between them if the mutex did not exclude it.            *)

ConsumeWaitItem(t) ==
  /\ pc[t] = "items" /\ items > 0
  /\ items' = items - 1
  /\ Goto(t, "lock")
  /\ UNCHANGED <<data, front, tail, mutex, slots, reg, conn, accepted, closed, exited>>

ConsumeLock(t) ==
  /\ pc[t] = "lock" /\ mutex > 0
  /\ mutex' = mutex - 1
  /\ Goto(t, "load")
  /\ UNCHANGED <<data, front, tail, slots, items, reg, conn, accepted, closed, exited>>

ConsumeLoad(t) ==
  /\ pc[t] = "load"
  /\ reg' = [reg EXCEPT ![t] = front]
  /\ Goto(t, "fetch")
  /\ UNCHANGED <<data, front, tail, mutex, slots, items, conn, accepted, closed, exited>>

\* Mutation: `front++` instead of `++front` in the index.
ConsumeFetch_PostIncrement(t) ==
  /\ pc[t] = "fetch"
  /\ front' = reg[t] + 1
  /\ conn' = [conn EXCEPT ![t] = data[reg[t] % BUFFER_SIZE]]
  /\ Goto(t, "unlock")
  /\ UNCHANGED <<data, tail, mutex, slots, items, reg, accepted, closed, exited>>

ConsumeFetch(t) ==
  /\ pc[t] = "fetch"
  /\ front' = reg[t] + 1
  /\ conn' = [conn EXCEPT ![t] = data[(reg[t] + 1) % BUFFER_SIZE]]
  /\ Goto(t, "unlock")
  /\ UNCHANGED <<data, tail, mutex, slots, items, reg, accepted, closed, exited>>

ConsumeUnlock(t) ==
  /\ pc[t] = "unlock"
  /\ mutex' = mutex + 1
  /\ Goto(t, "post")
  /\ UNCHANGED <<data, front, tail, slots, items, reg, conn, accepted, closed, exited>>

\* Mutation: consume() gives the slot back twice.
ConsumePost_Twice(t) ==
  /\ pc[t] = "post"
  /\ slots' = slots + 2
  /\ Goto(t, "doit")
  /\ UNCHANGED <<data, front, tail, mutex, items, reg, conn, accepted, closed, exited>>

ConsumePost(t) ==
  /\ pc[t] = "post"
  /\ slots' = slots + 1
  /\ Goto(t, "doit")
  /\ UNCHANGED <<data, front, tail, mutex, items, reg, conn, accepted, closed, exited>>

\* doit() returns; the module ProxyCache says what it does.
Doit(t) ==
  /\ pc[t] = "doit"
  /\ Goto(t, "close")
  /\ UNCHANGED <<data, front, tail, mutex, slots, items, reg, conn, accepted, closed, exited>>

CloseConn(t) ==
  /\ pc[t] = "close"
  /\ closed' = closed \cup {conn[t]}
  /\ conn' = [conn EXCEPT ![t] = 0]
  /\ Goto(t, "items")
  /\ UNCHANGED <<data, front, tail, mutex, slots, items, reg, accepted, exited>>

\* A wrapper of csapp.c fails: Accept or Getnameinfo in main, any of doit's or Close in a
\* thread.  unix_error() ends the whole process, not the thread.
UnixError(p) ==
  /\ pc[p] \in {"accept", "doit", "close"}
  /\ exited' = TRUE
  /\ UNCHANGED <<data, front, tail, mutex, slots, items, pc, reg, conn, accepted, closed>>

-----------------------------------------------------------------------------
Produce == \/ ProduceWaitSlot \/ ProduceLock \/ ProduceBump
           \/ ProduceStore \/ ProduceUnlock \/ ProducePost

Consume(t) == \/ ConsumeWaitItem(t) \/ ConsumeLock(t) \/ ConsumeLoad(t)
              \/ ConsumeFetch(t) \/ ConsumeUnlock(t) \/ ConsumePost(t)

\* Nothing is left to do: the process is gone, or every accepted connection (the bound of
\* the model reached) has been closed.
Finished == exited \/ (accepted = MaxConn /\ pc[Main] = "accept" /\ closed = 1 .. MaxConn)

Next ==
  \/ /\ ~exited
     /\ \/ Accept
        \/ Produce
        \/ \E t \in Threads : Consume(t) \/ Doit(t) \/ CloseConn(t)
        \/ \E p \in Procs : UnixError(p)
  \/ Finished /\ UNCHANGED vars

\* A runnable thread is eventually scheduled.  Nothing makes a client connect (Accept), a
\* client or an origin server answer (Doit), or a call fail (UnixError).
Fairness == /\ WF_vars(~exited /\ Produce)
            /\ \A t \in Threads : WF_vars(~exited /\ (Consume(t) \/ CloseConn(t)))

Spec     == Init /\ [][Next]_vars
FairSpec == Spec /\ Fairness

-----------------------------------------------------------------------------
TypeOK ==
  /\ data \in [0 .. BUFFER_SIZE - 1 -> 0 .. MaxConn]
  /\ front \in 0 .. MaxConn /\ tail \in 0 .. MaxConn
  /\ mutex \in 0 .. 1 /\ slots \in 0 .. BUFFER_SIZE /\ items \in 0 .. BUFFER_SIZE
  /\ pc \in [Procs -> MainLabels \cup ThreadLabels]
  /\ pc[Main] \in MainLabels /\ \A t \in Threads : pc[t] \in ThreadLabels
  /\ reg \in [Threads -> 0 .. MaxConn]
  /\ conn \in [Procs -> 0 .. MaxConn]
  /\ accepted \in 0 .. MaxConn
  /\ closed \subseteq 1 .. MaxConn
  /\ exited \in BOOLEAN

\* tail as the consumers may rely on it: main has advanced it but not yet stored.
Stored == IF pc[Main] = "store" THEN tail - 1 ELSE tail

\* The connections in the ring, oldest first, as positions that are not reduced modulo its size.
Window == front + 1 .. Stored

InCS(p) == IF p = Main THEN pc[p] \in {"bump", "store", "unlock"}
                       ELSE pc[p] \in {"load", "fetch", "unlock"}

\* produce() and consume() never touch the ring or its indices together (P/V on
\* connection_buffer.mutex): the load and the store of front are not interleaved.
MutualExclusion == \A p, q \in Procs : InCS(p) /\ InCS(q) => p = q

\* A connection that Accept returned is in exactly one place until it is closed: in main's
\* hands, at one place of the ring, or in the hands of one thread.  So none is lost,
\* overwritten while it waits, or served by two threads, when the ring wraps around too.
OneOwner ==
  \A c \in 1 .. accepted :
    Cardinality({p \in Procs : conn[p] = c})
      + Cardinality({i \in Window : data[i % BUFFER_SIZE] = c})
      + (IF c \in closed THEN 1 ELSE 0) = 1

\* Every connection that is accepted is fetched by a thread, unless the process exits or every
\* thread is inside doit(): neither a lost V nor a full ring may strand a connection.
EventuallyTaken ==
  \A c \in 1 .. MaxConn :
    accepted >= c ~> \/ c \in closed \/ \E t \in Threads : conn[t] = c
                     \/ exited
                     \/ \A t \in Threads : pc[t] = "doit"

-----------------------------------------------------------------------------
(* The inductive invariant behind TypeOK, MutualExclusion, OneOwner and      *)
(* ImplementsQueue.  One(b) is 1 if b holds.                                 *)

One(b) == IF b THEN 1 ELSE 0

\* Consumers that hold an item they have not fetched, and a slot they have not given back.
Reserved == {t \in Threads : pc[t] \in {"lock", "load", "fetch"}}
Owing    == {t \in Threads : pc[t] \in {"unlock", "post"}}

LockInv == /\ mutex = 1 => \A p \in Procs : ~InCS(p)
           /\ MutualExclusion

\* Every stored connection not yet fetched is announced in items, reserved, or about to be announced.
ItemsInv == items + Cardinality(Reserved) + One(pc[Main] \in {"unlock", "post"}) = Stored - front

\* Every place of the ring is free, reserved by main, occupied, or about to be freed.
SlotsInv == slots + Cardinality(Owing) + One(pc[Main] \in {"lock", "bump"}) + (tail - front) = BUFFER_SIZE

MainInv == IF pc[Main] \in {"slots", "lock", "bump", "store"}
           THEN conn[Main] = accepted /\ accepted = Stored + 1
           ELSE conn[Main] = 0 /\ accepted = tail

ContentInv == \A i \in Window : data[i % BUFFER_SIZE] = i

RegInv == \A t \in Threads : pc[t] = "fetch" => reg[t] = front

\* The connections 1 .. front are the closed ones and those of the threads, without overlap.
OwnInv == /\ \A t \in Threads : IF pc[t] \in {"unlock", "post", "doit", "close"}
                                THEN conn[t] \in 1 .. front ELSE conn[t] = 0
          /\ \A t, u \in Threads : conn[t] = conn[u] /\ conn[t] # 0 => t = u
          /\ \A t \in Threads : conn[t] \notin closed
          /\ closed \subseteq 1 .. front
          /\ \A c \in 1 .. front : c \in closed \/ \E t \in Threads : conn[t] = c

IInv == /\ TypeOK /\ LockInv /\ ItemsInv /\ SlotsInv
        /\ MainInv /\ ContentInv /\ RegInv /\ OwnInv

-----------------------------------------------------------------------------
(* The same system as a bounded FIFO queue.                                  *)

\* The ring read as a sequence, oldest connection first.
Waiting == [i \in 1 .. Stored - front |-> data[(front + i) % BUFFER_SIZE]]

Queue == INSTANCE BoundedQueue
  WITH queue <- Waiting,
       offered <- conn[Main],
       serving <- [t \in Threads |-> conn[t]],
       count <- accepted, done <- closed, stopped <- exited,
       Workers <- Threads, Capacity <- BUFFER_SIZE, MaxCount <- MaxConn

\* The ring with its semaphores implements the queue: connections are fetched in the order in
\* which they were accepted, each once, and never more than BUFFER_SIZE wait.
ImplementsQueue == Queue!Spec
=============================================================================
