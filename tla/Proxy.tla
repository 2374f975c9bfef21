------------------------------- MODULE Proxy -------------------------------
(***************************************************************************)
(* The proxy as a whole (proxylab/proxy.c): main() accepts connections and *)
(* hands them through the connection buffer to the threads, each of which  *)
(* runs doit() on one connection, closes it and takes the next.  The       *)
(* buffer is the queue that module ConnBuffer is shown to implement, doit()*)
(* is module ProxyCache.                                                   *)
(***************************************************************************)
EXTENDS ProxyCache, Sequences

CONSTANT BUFFER_SIZE    \* capacity of the buffer

ASSUME SomeThreadAssumption == Threads # {}

VARIABLES listenfd,                             \* of main(): "none" or "open"
          queue, offered, serving, count, done,   \* the queue and its connections
          answered                                \* connections doit() has returned from

Buffer == INSTANCE BoundedQueue
  WITH Workers <- Threads, Capacity <- BUFFER_SIZE, MaxCount <- MaxReq, stopped <- exited

queuevars == <<queue, offered, serving, count, done>>
proxyvars == <<vars, listenfd, queuevars, answered>>

ProxyInit == Init /\ Buffer!Init /\ listenfd = "none" /\ answered = {}

\* main(): the socket is there before the threads; without one the process ends.
Listen == /\ listenfd = "none"
          /\ listenfd' = "open"
          /\ UNCHANGED <<vars, queuevars, answered>>

ListenFails == /\ listenfd = "none"
               /\ exited' = TRUE
               /\ UNCHANGED <<cachevars, lockvars, localvars, pc, requests, listenfd, queuevars, answered>>

\* Accept and produce().
AcceptConn == listenfd = "open" /\ Buffer!Offer /\ UNCHANGED <<vars, listenfd, answered>>
Produce    == Buffer!Put /\ UNCHANGED <<vars, listenfd, answered>>

\* proxy_thread(): consume(), doit(), Close().
Consume(t) == Buffer!Take(t) /\ UNCHANGED <<vars, listenfd, answered>>

\* doit() is entered once for a connection.
Enter(t) ==
  /\ serving[t] \notin answered \cup {0}
  /\ \/ Begin(t) /\ UNCHANGED answered
     \/ BeginOther(t) /\ answered' = answered \cup {serving[t]}
  /\ UNCHANGED <<listenfd, queuevars>>

\* Mutation: doit() leaves the thread on a hit (exit of the thread for a return).
Return_NotAfterHit(t) == pc'[t] = "request" /\ pc[t] # "xunlock"

\* doit() returns when pc comes back to where it begins.
Return(t) == pc'[t] = "request"

Serve(t) ==
  /\ CacheStep(t) \/ NetworkStep(t)
  /\ answered' = IF Return(t) THEN answered \cup {serving[t]} ELSE answered
  /\ UNCHANGED <<listenfd, queuevars>>

\* Mutation: Close() before doit() has returned.
CloseConn_Early(t) ==
  /\ Buffer!Finish(t)
  /\ UNCHANGED <<vars, listenfd, answered>>

CloseConn(t) ==
  /\ serving[t] \in answered
  /\ Buffer!Finish(t)
  /\ UNCHANGED <<vars, listenfd, answered>>

\* A request under way may fail, and the process ends.
Fail(t) == /\ serving[t] \notin answered \cup {0}
           /\ UnixError(t)
           /\ UNCHANGED <<listenfd, queuevars, answered>>

Thread(t) == Consume(t) \/ Enter(t) \/ Serve(t) \/ CloseConn(t)

AllDone == exited \/ done = 1 .. MaxReq

ProxyNext == \/ /\ ~exited
                /\ \/ Listen \/ ListenFails \/ AcceptConn \/ Produce
                   \/ \E t \in Threads : Thread(t) \/ Fail(t)
             \/ AllDone /\ UNCHANGED proxyvars

\* main() and the threads run while they can; clients and origins do not stall for ever (they
\* are the steps of NetworkStep, and Enter, where the request line is read).
ProxyFairness == /\ WF_proxyvars(~exited /\ Produce)
                 /\ \A t \in Threads : WF_proxyvars(~exited /\ Thread(t))

ProxySpec == ProxyInit /\ [][ProxyNext]_proxyvars /\ ProxyFairness

\* Every connection that is accepted is answered and closed, unless the process ends: through
\* the buffer, a thread, both locks of the cache and the origin, no step is forgotten and no
\* thread waits for ever for another.
AllServed == <>[](exited \/ done = 1 .. count)

\* A descriptor that consume() has returned (proxy.c:126) is one thread's alone: doit() runs on it
\* once, it is closed after doit() has returned and not before, and nothing uses it afterwards.
ServedOnce ==
  /\ \A t, u \in Threads : serving[t] # 0 /\ serving[t] = serving[u] => t = u
  /\ \A t \in Threads : pc[t] # "request" => serving[t] \notin answered \cup {0}
  /\ \A t \in Threads : serving[t] \notin done
  /\ done \subseteq answered
=============================================================================
