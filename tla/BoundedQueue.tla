--------------------------- MODULE BoundedQueue ---------------------------
(***************************************************************************)
(* What the connection buffer of the proxy promises: one producer offers   *)
(* numbered connections, a FIFO queue of bounded capacity holds them, and  *)
(* each is taken by one idle worker, which finishes it.                    *)
(***************************************************************************)
EXTENDS Integers, Sequences

CONSTANTS Workers, Capacity, MaxCount

VARIABLES queue,    \* connections that wait, oldest first
          offered,  \* the connection the producer holds, 0 for none
          serving,  \* the connection of each worker, 0 for none
          count,    \* connections offered so far
          done,     \* connections finished
          stopped   \* the process has ended

qvars == <<queue, offered, serving, count, done, stopped>>

Init == /\ queue = <<>> /\ offered = 0 /\ count = 0
        /\ serving = [w \in Workers |-> 0]
        /\ done = {} /\ stopped = FALSE

Offer == /\ offered = 0 /\ count < MaxCount
         /\ offered' = count + 1 /\ count' = count + 1
         /\ UNCHANGED <<queue, serving, done, stopped>>

Put == /\ offered # 0 /\ Len(queue) < Capacity
       /\ queue' = Append(queue, offered)
       /\ offered' = 0
       /\ UNCHANGED <<serving, count, done, stopped>>

Take(w) == /\ serving[w] = 0 /\ queue # <<>>
           /\ serving' = [serving EXCEPT ![w] = Head(queue)]
           /\ queue' = Tail(queue)
           /\ UNCHANGED <<offered, count, done, stopped>>

Finish(w) == /\ serving[w] # 0
             /\ done' = done \cup {serving[w]}
             /\ serving' = [serving EXCEPT ![w] = 0]
             /\ UNCHANGED <<queue, offered, count, stopped>>

Stop == stopped' = TRUE /\ UNCHANGED <<queue, offered, serving, count, done>>

Next == /\ ~stopped
        /\ \/ Offer \/ Put \/ Stop
           \/ \E w \in Workers : Take(w) \/ Finish(w)

Spec == Init /\ [][Next]_qvars
=============================================================================
