------------------------------- MODULE Relay -------------------------------
(***************************************************************************)
(* One request that misses the cache, from the wire to the wire: doit() of *)
(* proxylab/proxy.c with construct_message(), Open_clientfd() and the rio_ *)
(* functions of csapp.c below it.  The client's request is a sequence of   *)
(* lines, the origin's answer a sequence of bytes that read() and write()  *)
(* take in pieces of any size.  An interrupted call (EINTR) is made again  *)
(* and changes nothing: a stuttering step.                                 *)
(***************************************************************************)
EXTENDS Integers, Sequences, FiniteSetsExt

CONSTANTS Bytes, Newline, Nul,   \* of the answer
          Headers,               \* lines of the request that are copied
          MAXLINE,               \* size of buf and message when they hold bytes
          HEADLINES,             \* size of message in lines of the request
          RIO_BUFSIZE,
          MaxAnswer, MaxHeaders  \* bounds: length of the answer and of the request

ASSUME BytesAssumption == {Newline, Nul} \subseteq Bytes
ASSUME HeadersAssumption == Headers \cap {"own", "part", "blank"} = {}
ASSUME SizesAssumption == /\ {MAXLINE, HEADLINES, RIO_BUFSIZE} \subseteq Nat
                          /\ MAXLINE > 1 /\ HEADLINES > 5 /\ RIO_BUFSIZE > 0
ASSUME BoundsAssumption == MaxAnswer \in Nat /\ MaxHeaders \in Nat

VARIABLES pc,          \* of doit()
          client,      \* "open", "shut" (sends no more) or "gone"
          asked,       \* the headers the client has sent, until they are forwarded
          inbox,       \* of that, what doit() has not read
          message,     \* doit's message while it holds the request
          count,       \* construct_message's count, in lines
          addresses,   \* open_clientfd: addresses not yet tried
          origin,      \* "none", "open", "closed" or "reset"
          requested,   \* the origin was sent a whole request
          answer,      \* what the origin has sent
          arrived,     \* of that, what read() has not taken
          rio_buf,     \* server_rio: read() and not yet copied
          line,        \* message again: a line of the answer
          left,        \* rio_writen: the bytes of it still to write
          toClient,    \* the bytes write() took for the client
          buf, cache_size,
          stored       \* the cache line: write_cache's buf and size

clientvars == <<client, asked, inbox>>
originvars == <<origin, requested, answer, arrived>>
relayvars  == <<rio_buf, line, left, toClient, buf, cache_size, stored>>
vars == <<pc, clientvars, message, count, addresses, originvars, relayvars>>

Request == Headers \cup {"own", "part", "blank"}
Preamble == <<"get", "host", "agent", "connection", "proxy-connection">>

Init ==
  /\ pc = "request"
  /\ client = "open" /\ asked = <<>> /\ inbox = <<>>
  /\ message = <<>> /\ count = 0 /\ addresses = 0
  /\ origin = "none" /\ requested = FALSE /\ answer = <<>> /\ arrived = <<>>
  /\ rio_buf = <<>> /\ line = <<>> /\ left = <<>> /\ toClient = <<>>
  /\ buf = <<>> /\ cache_size = 0 /\ stored = <<>>

-----------------------------------------------------------------------------
(* The client and the origin.                                                *)

\* A header; "own" is one that the proxy replaces, "part" a line without its end.
ClientSends(h) ==
  /\ client = "open" /\ pc \in {"request", "headers"} /\ Len(asked) < MaxHeaders
  /\ \A k \in 1 .. Len(asked) : asked[k] \notin {"blank", "part"}
  /\ asked' = Append(asked, h)
  /\ inbox' = Append(inbox, h)
  /\ UNCHANGED <<pc, client, message, count, addresses, originvars, relayvars>>

\* It may stop sending, or be gone altogether, at any time.
ClientEnds(how) ==
  /\ client \in {"open", "shut"} \ {how}
  /\ client' = how
  /\ UNCHANGED <<pc, asked, inbox, message, count, addresses, originvars, relayvars>>

\* The origin answers a whole request, and may close or fail at any time.
Whole(r) == \E k \in 1 .. Len(r) : r[k] = "blank"

OriginSends(b) ==
  /\ origin = "open" /\ requested /\ Len(answer) < MaxAnswer
  /\ answer' = Append(answer, b)
  /\ arrived' = Append(arrived, b)
  /\ UNCHANGED <<pc, clientvars, message, count, addresses, origin, requested, relayvars>>

OriginEnds(how) ==
  /\ origin = "open"
  /\ origin' = how
  /\ UNCHANGED <<pc, clientvars, message, count, addresses, requested, answer, arrived, relayvars>>

-----------------------------------------------------------------------------
(* doit(): the request.                                                      *)

\* unix_error() of a Rio_ function or Open_clientfd: the whole process ends.
UnixError == pc' = "exit"

\* construct_message writes the first five lines.
StartMessage ==
  /\ pc' = "headers"
  /\ message' = Preamble
  /\ count' = Len(Preamble)

\* GET, or the method of a request line that never came: buf is not initialised.
ReadRequestLine ==
  /\ pc = "request"
  /\ StartMessage
  /\ UNCHANGED <<clientvars, addresses, originvars, relayvars>>

\* Not GET: raise_error() and back to proxy_thread, the headers unread.
NotImplemented ==
  /\ pc = "request"
  /\ pc' = "done"
  /\ UNCHANGED <<clientvars, message, count, addresses, originvars, relayvars>>

\* Rio_readlineb, or raise_error's Rio_writen, on a connection that is gone.
ClientError ==
  /\ pc \in {"request", "headers"} /\ client = "gone"
  /\ UnixError
  /\ UNCHANGED <<clientvars, message, count, addresses, originvars, relayvars>>

\* Mutation: room for the terminator is kept twice.
SnPrintf_OffByOne(h) ==
  message' = IF count < HEADLINES - 2 THEN Append(message, h) ELSE message

\* snprintf(message + count, MAXLINE - count, ..): what does not fit is dropped, yet counted.
SnPrintf(h) ==
  message' = IF count < HEADLINES - 1 THEN Append(message, h) ELSE message

\* One turn of construct_message's loop.  A name that begins with one of the four is dropped.
CopyHeader ==
  /\ pc = "headers" /\ inbox # <<>>
  /\ \/ Head(inbox) = "own" /\ UNCHANGED <<message, count>>
     \/ /\ Head(inbox) \in Headers \cup {"part"} /\ count <= HEADLINES
        /\ SnPrintf(Head(inbox))
        /\ count' = count + 1
  /\ inbox' = Tail(inbox)
  /\ UNCHANGED <<pc, client, asked, addresses, originvars, relayvars>>

\* The empty line, or the end of what the client sends: an empty line ends the message; after
\* a line without an end it only ends that line.  Then getaddrinfo(), which may fail.
EndOfHeaders == \/ inbox # <<>> /\ Head(inbox) = "blank"
                \/ inbox = <<>> /\ client # "open"

EndHeaders ==
  /\ pc = "headers" /\ EndOfHeaders /\ count <= HEADLINES
  /\ inbox' = <<>>
  /\ IF message[Len(message)] = "part" THEN UNCHANGED message ELSE SnPrintf("blank")
  /\ \/ pc' = "connect" /\ \E n \in 1 .. 2 : addresses' = n
     \/ UnixError /\ UNCHANGED addresses
  /\ UNCHANGED <<client, asked, count, originvars, relayvars>>

\* count is past the end: MAXLINE - count is a huge size_t and snprintf writes outside message.
HeadersOverflow ==
  /\ pc = "headers" /\ count > HEADLINES
  /\ EndOfHeaders \/ (inbox # <<>> /\ Head(inbox) # "own")
  /\ pc' = "overflow"
  /\ UNCHANGED <<clientvars, message, count, addresses, originvars, relayvars>>

\* open_clientfd(): the addresses in turn, until one connects.
Connect ==
  /\ pc = "connect" /\ addresses > 0
  /\ \/ pc' = "send" /\ origin' = "open" /\ addresses' = 0
     \/ /\ addresses' = addresses - 1        \* socket() or connect() fails: the next one
        /\ UNCHANGED <<pc, origin>>
  /\ UNCHANGED <<clientvars, message, count, requested, answer, arrived, relayvars>>

ConnectFails ==
  /\ pc = "connect" /\ addresses = 0
  /\ UnixError
  /\ UNCHANGED <<clientvars, message, count, addresses, originvars, relayvars>>

\* Rio_writen(serverfd, message, strlen(message)).
SendRequest ==
  /\ pc = "send"
  /\ pc' = "line"
  /\ requested' = Whole(message)
  /\ message' = <<>> /\ asked' = <<>> /\ count' = 0
  /\ UNCHANGED <<client, inbox, addresses, origin, answer, arrived, relayvars>>

SendError ==
  /\ pc = "send" /\ origin # "open"
  /\ UnixError
  /\ UNCHANGED <<clientvars, message, count, addresses, originvars, relayvars>>

-----------------------------------------------------------------------------
(* doit(): the answer.  rio_readlineb() fills a line from rio_buf, which      *)
(* rio_read() refills when it is empty.                                      *)

\* rio_read(): read() takes what has arrived, at most the buffer's size.
Refill ==
  /\ pc = "line" /\ rio_buf = <<>> /\ arrived # <<>>
  /\ \E n \in 1 .. Min({Len(arrived), RIO_BUFSIZE}) :
       /\ rio_buf' = SubSeq(arrived, 1, n)
       /\ arrived' = SubSeq(arrived, n + 1, Len(arrived))
  /\ UNCHANGED <<pc, clientvars, message, count, addresses, origin, requested, answer,
                 line, left, toClient, buf, cache_size, stored>>

\* Mutation: a line may fill message to its last byte.
LineEnd_OffByOne(m, b) ==
  LET room == MAXLINE - Len(m)
  IN  Min({k \in 1 .. Len(b) : b[k] = Newline} \cup {room, Len(b)})

\* The bytes of b that one line takes when m is there already.
LineEnd(m, b) ==
  LET room == MAXLINE - 1 - Len(m)
  IN  Min({k \in 1 .. Len(b) : b[k] = Newline} \cup {room, Len(b)})

LineFull(m) == m # <<>> /\ (Len(m) = MAXLINE - 1 \/ m[Len(m)] = Newline)

\* Mutation: the rest of rio_buf is forgotten with each line.
CopyLine_Forgets ==
  /\ pc = "line" /\ rio_buf # <<>>
  /\ LET n == LineEnd(line, rio_buf)
     IN /\ line' = line \o SubSeq(rio_buf, 1, n)
        /\ rio_buf' = <<>>
  /\ IF LineFull(line') THEN pc' = "write" /\ left' = line' ELSE UNCHANGED <<pc, left>>
  /\ UNCHANGED <<clientvars, message, count, addresses, originvars, toClient, buf,
                 cache_size, stored>>

\* rio_readlineb() as far as the bytes in rio_buf go; a full line is returned.
CopyLine ==
  /\ pc = "line" /\ rio_buf # <<>>
  /\ LET n == LineEnd(line, rio_buf)
     IN /\ line' = line \o SubSeq(rio_buf, 1, n)
        /\ rio_buf' = SubSeq(rio_buf, n + 1, Len(rio_buf))
  /\ IF LineFull(line') THEN pc' = "write" /\ left' = line' ELSE UNCHANGED <<pc, left>>
  /\ UNCHANGED <<clientvars, message, count, addresses, originvars, toClient, buf,
                 cache_size, stored>>

\* Mutation: the end in the middle of a line is taken for an interrupted call.
ReadEnd_Retry ==
  /\ pc = "line" /\ rio_buf = <<>> /\ arrived = <<>> /\ origin = "closed"
  /\ pc' = IF line = <<>> THEN "store" ELSE "line"
  /\ UNCHANGED <<clientvars, message, count, addresses, originvars, relayvars>>

\* read() returns 0: the unfinished line is returned, or, without one, the end.
ReadEnd ==
  /\ pc = "line" /\ rio_buf = <<>> /\ arrived = <<>> /\ origin = "closed"
  /\ IF line # <<>> THEN pc' = "write" /\ left' = line
                       ELSE pc' = "store" /\ UNCHANGED left
  /\ UNCHANGED <<clientvars, message, count, addresses, originvars, rio_buf, line, toClient,
                 buf, cache_size, stored>>

ReadError ==
  /\ pc = "line" /\ rio_buf = <<>> /\ origin = "reset"
  /\ UnixError
  /\ UNCHANGED <<clientvars, message, count, addresses, originvars, relayvars>>

\* Mutation: a short count is taken for the whole.
Write_Short ==
  /\ pc = "write" /\ left # <<>>
  /\ \E n \in 1 .. Len(left) : toClient' = toClient \o SubSeq(left, 1, n)
  /\ left' = <<>>
  /\ UNCHANGED <<pc, clientvars, message, count, addresses, originvars, rio_buf, line,
                 buf, cache_size, stored>>

\* rio_writen(): write() takes some of the bytes.
Write ==
  /\ pc = "write" /\ left # <<>>
  /\ \E n \in 1 .. Len(left) :
       /\ toClient' = toClient \o SubSeq(left, 1, n)
       /\ left' = SubSeq(left, n + 1, Len(left))
  /\ UNCHANGED <<pc, clientvars, message, count, addresses, originvars, rio_buf, line,
                 buf, cache_size, stored>>

\* EPIPE: SIGPIPE is caught and write() fails.
WriteError ==
  /\ pc = "write" /\ left # <<>> /\ client = "gone"
  /\ UnixError
  /\ UNCHANGED <<clientvars, message, count, addresses, originvars, relayvars>>

\* The string at the start of s.
CString(s) == SubSeq(s, 1, Min({k \in 1 .. Len(s) : s[k] = Nul} \cup {Len(s) + 1}) - 1)

\* strcat(buf, message): buf has MAXLINE bytes, whatever cache_size says.
Keep ==
  /\ pc = "write" /\ left = <<>>
  /\ IF Len(buf) + Len(CString(line)) < MAXLINE
     THEN /\ buf' = buf \o CString(line)
          /\ pc' = "line"
     ELSE pc' = "overflow" /\ UNCHANGED buf
  /\ cache_size' = cache_size + Len(line)
  /\ line' = <<>>
  /\ UNCHANGED <<clientvars, message, count, addresses, originvars, rio_buf, left, toClient,
                 stored>>

\* write_cache(buf, url_copy, cache_size), Close(serverfd).
Store ==
  /\ pc = "store"
  /\ stored' = <<buf, cache_size>>
  /\ pc' = "done"
  /\ UNCHANGED <<clientvars, message, count, addresses, originvars, rio_buf, line, left,
                 toClient, buf, cache_size>>

-----------------------------------------------------------------------------
Doit == \/ ReadRequestLine \/ NotImplemented \/ ClientError
        \/ CopyHeader \/ EndHeaders \/ HeadersOverflow \/ Connect \/ ConnectFails
        \/ SendRequest \/ SendError
        \/ Refill \/ CopyLine \/ ReadEnd \/ ReadError \/ Write \/ WriteError \/ Keep \/ Store

Environment == \/ \E h \in Request : ClientSends(h)
               \/ \E how \in {"shut", "gone"} : ClientEnds(how)
               \/ \E b \in Bytes : OriginSends(b)
               \/ \E how \in {"closed", "reset"} : OriginEnds(how)

Stopped == pc \in {"done", "exit", "overflow"}

Next == \/ ~Stopped /\ (Doit \/ Environment)
        \/ Stopped /\ UNCHANGED vars

\* The thread runs while it can; an origin that has the whole request ends its answer.
Fairness == /\ WF_vars(~Stopped /\ Doit)
            /\ WF_vars(~Stopped /\ requested /\ OriginEnds("closed"))

Spec     == Init /\ [][Next]_vars
FairSpec == Spec /\ Fairness

-----------------------------------------------------------------------------
TypeOK ==
  /\ pc \in {"request", "headers", "connect", "send", "line", "write", "store", "done",
             "exit", "overflow"}
  /\ client \in {"open", "shut", "gone"} /\ origin \in {"none", "open", "closed", "reset"}
  /\ asked \in Seq(Request) /\ message \in Seq(Request \cup {Preamble[k] : k \in 1 .. 5})
  /\ inbox \in Seq(Request)
  /\ count \in 0 .. HEADLINES + 1 /\ addresses \in 0 .. 2
  /\ answer \in Seq(Bytes) /\ Len(answer) <= MaxAnswer
  /\ arrived \in Seq(Bytes) /\ rio_buf \in Seq(Bytes) /\ Len(rio_buf) <= RIO_BUFSIZE
  /\ line \in Seq(Bytes) /\ Len(line) < MAXLINE
  /\ left \in Seq(Bytes) /\ toClient \in Seq(Bytes)
  /\ buf \in Seq(Bytes \ {Nul}) /\ Len(buf) < MAXLINE
  /\ cache_size \in 0 .. MaxAnswer

\* The relay reads the answer as rio_readlineb promises, whatever counts read() returns: every
\* byte, in order, once, and the end only after the last.  What was given is what the client
\* has been or is being sent.
Stream == INSTANCE LineStream WITH
  maxlen <- MAXLINE,
  stream <- (IF pc = "write" \/ left # <<>> THEN <<>> ELSE line) \o rio_buf \o arrived,
  open   <- origin \notin {"closed", "reset"},
  given  <- toClient \o left,
  ended  <- pc = "store" \/ stored # <<>>
ImplementsStream == Stream!Spec

\* A line that is stored is the object the client was sent, of the size it was sent, when no
\* byte of it is Nul (proxy.c:264 collects it with strcat).  A hit then answers as the miss did.
StoredWhole ==
  stored # <<>> => /\ stored[2] = Len(answer) /\ toClient = answer
                   /\ Nul \notin {answer[k] : k \in 1 .. Len(answer)} => stored[1] = answer

\* The request the origin gets is whole unless the client's was cut or does not fit: the five
\* lines of the proxy, the headers of the client that are not among those, in order, and the
\* empty line (proxy.c:181, where snprintf bounds what is copied).
Selected(h) ==
  LET sel[n \in 0 .. Len(h)] ==
        IF n = 0 THEN <<>>
        ELSE IF h[n] \in {"own", "blank"} THEN sel[n - 1] ELSE Append(sel[n - 1], h[n])
  IN sel
Copied(h) == Selected(h)[Len(h)]
Fits == Len(Copied(asked)) + Len(Preamble) + 1 < HEADLINES
RequestWhole ==
  pc = "send" /\ Whole(asked) /\ Fits => message = Preamble \o Copied(asked) \o <<"blank">>

\* doit() comes to an end for a client that ends a request that fits.  (A request that was cut,
\* or whose empty line was, leaves the origin waiting for its end and doit() for the origin.)
RelayEnds == (pc = "headers" /\ Whole(asked) /\ Fits) ~> Stopped
=============================================================================
