---------------------------- MODULE ProxyCache ----------------------------
(***************************************************************************)
(* The object cache of proxylab/proxy.c as the proxy threads use it from   *)
(* doit(): look the url up, answer from a line under the reader lock, or   *)
(* fetch from the origin and let write_cache() fill or evict a line under  *)
(* the writer lock.  The object of an url is named by the url; an object   *)
(* is text shorter than MAXLINE unless it is in Big.                       *)
(***************************************************************************)
EXTENDS Integers, FiniteSets

CONSTANTS Threads,      \* the proxy threads
          Urls,         \* urls that clients ask for with GET
          Big,          \* the urls whose object is larger than MAX_OBJECT_SIZE
          None,         \* no url: an unused line, an unfinished string
          CACHE_LINE,   \* number of lines
          MaxReq        \* bound: requests served in a behaviour

ASSUME ThreadsAssumption == IsFiniteSet(Threads)
ASSUME UrlsAssumption    == Big \subseteq Urls /\ None \notin Urls
ASSUME LinesAssumption   == CACHE_LINE \in Nat \ {0}
ASSUME BoundAssumption   == MaxReq \in Nat

VARIABLES line, readcnt, current_time,   \* cache_t
          mutex, writer,                 \* its semaphores
          pc,
          url,        \* doit's url
          i,          \* the loop index of the scan under way
          idx,        \* doit's and write_cache's idx
          max_time,   \* write_cache's max_time
          sent,       \* the objects whose first and second half the client was sent
          requests,   \* number of requests begun
          exited      \* the process has ended: exit() or a write outside the lines

cachevars == <<line, current_time>>
lockvars  == <<readcnt, mutex, writer>>
localvars == <<url, i, idx, max_time, sent>>
vars == <<cachevars, lockvars, localvars, pc, requests, exited>>

Lines == 0 .. CACHE_LINE - 1

Labels == {"request", "find", "rlock", "rcount", "rwriter", "runlock", "send", "send2",
           "xlock", "xcount", "xwriter", "xunlock",
           "fetch", "free", "lru", "wlock", "copy", "name", "time", "valid", "wunlock"}

Goto(t, label) == pc' = [pc EXCEPT ![t] = label]

\* cache_init(); the buffers of a static cache_t hold empty strings.
Init ==
  /\ line = [l \in Lines |-> [buf |-> None, url |-> None, size |-> None,
                              valid |-> FALSE, timestamp |-> 0]]
  /\ readcnt = 0 /\ current_time = 0
  /\ mutex = 1 /\ writer = 1
  /\ pc = [t \in Threads |-> "request"]
  /\ url = [t \in Threads |-> None]
  /\ i = [t \in Threads |-> 0]
  /\ idx = [t \in Threads |-> -1]
  /\ max_time = [t \in Threads |-> 0]
  /\ sent = [t \in Threads |-> <<None, None>>]
  /\ requests = 0
  /\ exited = FALSE

-----------------------------------------------------------------------------
(* doit(): the request, and find_cache_hit() one line at a time, unlocked.   *)

\* A GET request.  Its locals are those of a new call.
Begin(t) ==
  /\ pc[t] = "request" /\ requests < MaxReq
  /\ requests' = requests + 1
  /\ \E u \in Urls : url' = [url EXCEPT ![t] = u]
  /\ i' = [i EXCEPT ![t] = 0]
  /\ idx' = [idx EXCEPT ![t] = -1]
  /\ max_time' = [max_time EXCEPT ![t] = 0]
  /\ sent' = [sent EXCEPT ![t] = <<None, None>>]
  /\ Goto(t, "find")
  /\ UNCHANGED <<cachevars, lockvars, exited>>

\* Any other method: raise_error() answers 501 and doit() returns.
BeginOther(t) ==
  /\ pc[t] = "request" /\ requests < MaxReq
  /\ requests' = requests + 1
  /\ UNCHANGED <<cachevars, lockvars, localvars, pc, exited>>

Hits(t, l) == line[l].valid /\ line[l].url = url[t]

\* The last line that matches wins: the loop of find_cache_hit does not break.
FindStep(t) ==
  /\ pc[t] = "find" /\ i[t] < CACHE_LINE
  /\ idx' = IF Hits(t, i[t]) THEN [idx EXCEPT ![t] = i[t]] ELSE idx
  /\ i' = [i EXCEPT ![t] = @ + 1]
  /\ UNCHANGED <<cachevars, lockvars, url, max_time, sent, pc, requests, exited>>

FindEnd(t) ==
  /\ pc[t] = "find" /\ i[t] = CACHE_LINE
  /\ Goto(t, IF idx[t] # -1 THEN "rlock" ELSE "fetch")
  /\ UNCHANGED <<cachevars, lockvars, localvars, requests, exited>>

-----------------------------------------------------------------------------
(* doit(): a hit.  The first reader takes the writer lock, the last gives it *)
(* back; the first waits for it with the mutex held.                         *)

LockMutex(t) ==
  /\ pc[t] \in {"rlock", "xlock"} /\ mutex > 0
  /\ mutex' = mutex - 1
  /\ Goto(t, IF pc[t] = "rlock" THEN "rcount" ELSE "xcount")
  /\ UNCHANGED <<cachevars, readcnt, writer, localvars, requests, exited>>

UnlockMutex(t) ==
  /\ pc[t] \in {"runlock", "xunlock"}
  /\ mutex' = mutex + 1
  /\ Goto(t, IF pc[t] = "runlock" THEN "send" ELSE "request")
  /\ UNCHANGED <<cachevars, readcnt, writer, localvars, requests, exited>>

\* Mutation: the first reader does not take the writer lock.
ReaderEnter_NoWriter(t) ==
  /\ pc[t] = "rcount"
  /\ readcnt' = readcnt + 1
  /\ Goto(t, "runlock")
  /\ UNCHANGED <<cachevars, mutex, writer, localvars, requests, exited>>

ReaderEnter(t) ==
  /\ pc[t] = "rcount"
  /\ readcnt' = readcnt + 1
  /\ Goto(t, IF readcnt' = 1 THEN "rwriter" ELSE "runlock")
  /\ UNCHANGED <<cachevars, mutex, writer, localvars, requests, exited>>

\* Mutation: write_cache does not wait for the lock.
LockWriter_NoWait(t) ==
  /\ pc[t] \in {"rwriter", "wlock"} /\ (writer > 0 \/ pc[t] = "wlock")
  /\ writer' = 0
  /\ Goto(t, IF pc[t] = "rwriter" THEN "runlock" ELSE "copy")
  /\ UNCHANGED <<cachevars, readcnt, mutex, localvars, requests, exited>>

LockWriter(t) ==
  /\ pc[t] \in {"rwriter", "wlock"} /\ writer > 0
  /\ writer' = writer - 1
  /\ Goto(t, IF pc[t] = "rwriter" THEN "runlock" ELSE "copy")
  /\ UNCHANGED <<cachevars, readcnt, mutex, localvars, requests, exited>>

\* Rio_writen of line[idx].buf, size bytes: a client that reads slowly makes it several
\* writes, between which other threads run.
SendFirst(t) ==
  /\ pc[t] = "send"
  /\ sent' = [sent EXCEPT ![t] = <<line[idx[t]].buf, None>>]
  /\ Goto(t, "send2")
  /\ UNCHANGED <<cachevars, lockvars, url, i, idx, max_time, requests, exited>>

SendRest(t) ==
  /\ pc[t] = "send2"
  /\ sent' = [sent EXCEPT ![t][2] = line[idx[t]].buf]
  /\ Goto(t, "xlock")
  /\ UNCHANGED <<cachevars, lockvars, url, i, idx, max_time, requests, exited>>

\* Mutation: the test is made before the decrement, and the last reader keeps the lock.
ReaderLeave_Early(t) ==
  /\ pc[t] = "xcount"
  /\ readcnt' = readcnt - 1
  /\ Goto(t, IF readcnt = 0 THEN "xwriter" ELSE "xunlock")
  /\ UNCHANGED <<cachevars, mutex, writer, localvars, requests, exited>>

ReaderLeave(t) ==
  /\ pc[t] = "xcount"
  /\ readcnt' = readcnt - 1
  /\ Goto(t, IF readcnt' = 0 THEN "xwriter" ELSE "xunlock")
  /\ UNCHANGED <<cachevars, mutex, writer, localvars, requests, exited>>

UnlockWriter(t) ==
  /\ pc[t] \in {"xwriter", "wunlock"}
  /\ writer' = writer + 1
  /\ Goto(t, IF pc[t] = "xwriter" THEN "xunlock" ELSE "request")
  /\ UNCHANGED <<cachevars, readcnt, mutex, localvars, requests, exited>>

-----------------------------------------------------------------------------
(* doit(): a miss, and write_cache().  Both scans for a victim are unlocked. *)

\* Connect to the origin, relay its answer to the client and keep it in buf.
Fetch(t) ==
  /\ pc[t] = "fetch"
  /\ sent' = [sent EXCEPT ![t] = <<url[t], url[t]>>]
  /\ i' = [i EXCEPT ![t] = 0]
  /\ Goto(t, IF url[t] \in Big THEN "request" ELSE "free")
  /\ UNCHANGED <<cachevars, lockvars, url, idx, max_time, requests, exited>>

\* The first line that is not valid.
FreeStep(t) ==
  /\ pc[t] = "free" /\ i[t] < CACHE_LINE
  /\ IF line[i[t]].valid
     THEN i' = [i EXCEPT ![t] = @ + 1] /\ UNCHANGED <<idx, pc>>
     ELSE idx' = [idx EXCEPT ![t] = i[t]] /\ Goto(t, "wlock") /\ UNCHANGED i
  /\ UNCHANGED <<cachevars, lockvars, url, max_time, sent, requests, exited>>

FreeEnd(t) ==
  /\ pc[t] = "free" /\ i[t] = CACHE_LINE
  /\ i' = [i EXCEPT ![t] = 0]
  /\ Goto(t, "lru")
  /\ UNCHANGED <<cachevars, lockvars, url, idx, max_time, sent, requests, exited>>

Age(l) == current_time - line[l].timestamp

\* The valid line with the greatest age.
LruStep(t) ==
  /\ pc[t] = "lru" /\ i[t] < CACHE_LINE
  /\ IF line[i[t]].valid /\ Age(i[t]) > max_time[t]
     THEN /\ max_time' = [max_time EXCEPT ![t] = Age(i[t])]
          /\ idx' = [idx EXCEPT ![t] = i[t]]
     ELSE UNCHANGED <<max_time, idx>>
  /\ i' = [i EXCEPT ![t] = @ + 1]
  /\ UNCHANGED <<cachevars, lockvars, url, sent, pc, requests, exited>>

LruEnd(t) ==
  /\ pc[t] = "lru" /\ i[t] = CACHE_LINE
  /\ Goto(t, "wlock")
  /\ UNCHANGED <<cachevars, lockvars, localvars, requests, exited>>

\* strcpy of the object; the strcpy of the url has begun, and the string is neither the old
\* nor the new one.
WriteBuf(t) ==
  /\ pc[t] = "copy" /\ idx[t] \in Lines
  /\ line' = [line EXCEPT ![idx[t]].buf = url[t], ![idx[t]].url = None]
  /\ Goto(t, "name")
  /\ UNCHANGED <<current_time, lockvars, localvars, requests, exited>>

\* idx is still -1: both strcpy write in front of the array of lines.
WriteOutside(t) ==
  /\ pc[t] = "copy" /\ idx[t] \notin Lines
  /\ exited' = TRUE
  /\ UNCHANGED <<cachevars, lockvars, localvars, pc, requests>>

WriteUrl(t) ==
  /\ pc[t] = "name"
  /\ line' = [line EXCEPT ![idx[t]].url = url[t], ![idx[t]].size = url[t]]
  /\ Goto(t, "time")
  /\ UNCHANGED <<current_time, lockvars, localvars, requests, exited>>

WriteTime(t) ==
  /\ pc[t] = "time"
  /\ current_time' = current_time + 1
  /\ line' = [line EXCEPT ![idx[t]].timestamp = current_time']
  /\ Goto(t, "valid")
  /\ UNCHANGED <<lockvars, localvars, requests, exited>>

WriteValid(t) ==
  /\ pc[t] = "valid"
  /\ line' = [line EXCEPT ![idx[t]].valid = TRUE]
  /\ Goto(t, "wunlock")
  /\ UNCHANGED <<current_time, lockvars, localvars, requests, exited>>

-----------------------------------------------------------------------------
\* A Rio_ call or Open_clientfd fails: unix_error() ends the whole process.
UnixError(t) ==
  /\ pc[t] \in {"request", "send", "send2", "fetch"}
  /\ exited' = TRUE
  /\ UNCHANGED <<cachevars, lockvars, localvars, pc, requests>>

\* The steps that wait for no client and no origin server.
CacheStep(t) ==
  \/ FindStep(t) \/ FindEnd(t)
  \/ LockMutex(t) \/ UnlockMutex(t) \/ ReaderEnter(t) \/ ReaderLeave(t)
  \/ LockWriter(t) \/ UnlockWriter(t)
  \/ FreeStep(t) \/ FreeEnd(t) \/ LruStep(t) \/ LruEnd(t)
  \/ WriteBuf(t) \/ WriteOutside(t) \/ WriteUrl(t) \/ WriteTime(t) \/ WriteValid(t)

NetworkStep(t) == SendFirst(t) \/ SendRest(t) \/ Fetch(t)

Step(t) == Begin(t) \/ BeginOther(t) \/ CacheStep(t) \/ NetworkStep(t) \/ UnixError(t)

Finished == exited \/ (requests = MaxReq /\ \A t \in Threads : pc[t] = "request")

Next == \/ ~exited /\ \E t \in Threads : Step(t)
        \/ Finished /\ UNCHANGED vars

Spec == Init /\ [][Next]_vars

-----------------------------------------------------------------------------
UrlOrNone == Urls \cup {None}

TypeOK ==
  /\ line \in [Lines -> [buf : UrlOrNone, url : UrlOrNone, size : UrlOrNone,
                         valid : BOOLEAN, timestamp : Nat]]
  /\ readcnt \in Nat /\ current_time \in Nat
  /\ mutex \in 0 .. 1 /\ writer \in 0 .. 1
  /\ pc \in [Threads -> Labels]
  /\ url \in [Threads -> UrlOrNone]
  /\ i \in [Threads -> 0 .. CACHE_LINE]
  /\ idx \in [Threads -> -1 .. CACHE_LINE - 1]
  /\ max_time \in [Threads -> Nat]
  /\ sent \in [Threads -> UrlOrNone \X UrlOrNone]
  /\ requests \in 0 .. MaxReq
  /\ exited \in BOOLEAN

\* Threads inside the reader lock, and inside the writer lock.
Sending(t) == pc[t] \in {"send", "send2"}
Writing(t) == pc[t] \in {"copy", "name", "time", "valid", "wunlock"}

\* proxy.c:228: `reader model, if there is a reader, writer can't write'.  And one writer only.
ReadersExcludeWriters ==
  \A t, u \in Threads : /\ Sending(t) => ~Writing(u)
                        /\ Writing(t) /\ Writing(u) => t = u

\* readcnt and the writer semaphore agree with where the threads are, after any number of
\* overlapping readers.
LocksBalanced ==
  /\ readcnt = Cardinality({t \in Threads : pc[t] \in {"rwriter", "runlock", "send", "send2",
                                                       "xlock", "xcount"}})
  /\ (\A t \in Threads : pc[t] \in {"request", "find", "fetch", "free", "lru", "wlock", "rlock"})
       => mutex = 1 /\ writer = 1

\* While nobody writes, a valid line holds the whole object of the url it is named after, and
\* no two fills have the same time.
LineConsistent ==
  (\A t \in Threads : ~Writing(t)) =>
    /\ \A l \in Lines : line[l].valid => line[l].buf = line[l].url /\ line[l].size = line[l].url
    /\ \A l, m \in Lines : /\ line[l].timestamp <= current_time
                           /\ line[l].valid /\ line[m].valid /\ l # m
                                => line[l].timestamp # line[m].timestamp

\* Whatever a client is sent from the cache is one object, not the half of one and the half of
\* another that replaced it.
NoTornAnswer == \A t \in Threads : pc[t] = "xlock" => sent[t][1] = sent[t][2] /\ sent[t][1] # None

\* The object a client is sent is the object it asked for: proxylab/README.md:16 `forward those
\* responses back to the corresponding clients'.
RightObject == \A t \in Threads : pc[t] = "xlock" => sent[t] = <<url[t], url[t]>>
=============================================================================
