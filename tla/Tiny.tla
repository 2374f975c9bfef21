------------------------------- MODULE Tiny -------------------------------
(***************************************************************************)
(* The Tiny web server, proxylab/tiny/tiny.c with the wrappers of its      *)
(* csapp.c: one process that accepts a connection, answers one request,    *)
(* closes, and accepts the next.  A request is a sequence of lines, an     *)
(* answer a sequence of parts, one per Rio_writen().  Clients and the      *)
(* files served are external.  Rio_readlineb() is used as module Relay     *)
(* shows it to work; what read() has not taken yet matters at Close().     *)
(***************************************************************************)
EXTENDS Integers, Sequences

CONSTANTS Clients, NoClient,
          MaxHeaders      \* bound: headers of a request

ASSUME NoClientAssumption == NoClient \notin Clients
ASSUME BoundAssumption    == MaxHeaders \in Nat

VARIABLES pc,        \* of Tiny
          cur,       \* the client of connfd
          rio,       \* rio_buf: lines read() took and doit() has not used
          todo,      \* the parts of the answer still to write
          sbuf,      \* the file as stat() saw it
          child,     \* of serve_dynamic: "none", "forked", "running" or "zombie"
          fds,       \* Tiny's open descriptors
          file,      \* the file that requests name
          conn,      \* of a client: "new", "queued", "open", or as it ended: "eof", "reset"
          client,    \* "open", "shut" (sends no more) or "gone"
          asked,     \* the lines it has sent
          inbox,     \* of those, what read() has not taken
          out        \* the parts it was sent

servervars == <<cur, rio, todo, sbuf, child, fds>>
clientvars == <<conn, client, asked, inbox, out>>
vars == <<pc, servervars, file, clientvars>>

Methods == {"static", "cgi", "other"}
Finished(c) == asked[c] # <<>> /\ asked[c][Len(asked[c])] = "blank"
Goto(label) == pc' = label

Init ==
  /\ pc = "start" /\ cur = NoClient /\ rio = <<>> /\ todo = <<>>
  /\ sbuf = "none" /\ child = "none" /\ fds = {}
  /\ file \in {"none", "forbidden", "empty", "file"}
  /\ conn = [c \in Clients |-> "new"]
  /\ client = [c \in Clients |-> "open"]
  /\ asked = [c \in Clients |-> <<>>] /\ inbox = [c \in Clients |-> <<>>]
  /\ out = [c \in Clients |-> <<>>]

-----------------------------------------------------------------------------
(* The clients and the files.                                                *)

Connect(c) ==
  /\ conn[c] = "new" /\ "listenfd" \in fds
  /\ conn' = [conn EXCEPT ![c] = "queued"]
  /\ UNCHANGED <<pc, servervars, file, client, asked, inbox, out>>

\* The request line, then headers, then the empty line.  A line that comes after Tiny has
\* closed is answered with a reset, and what the client has not read by then may be lost.
SendLine(c, l) ==
  /\ conn[c] \in {"queued", "open", "eof"} /\ client[c] = "open"
  /\ ~Finished(c) /\ Len(asked[c]) < MaxHeaders + 2
  /\ (asked[c] = <<>>) <=> (l \in Methods)
  /\ asked' = [asked EXCEPT ![c] = Append(@, l)]
  /\ IF conn[c] = "eof"
     THEN conn' = [conn EXCEPT ![c] = "reset"] /\ UNCHANGED inbox
     ELSE inbox' = [inbox EXCEPT ![c] = Append(@, l)] /\ UNCHANGED conn
  /\ UNCHANGED <<pc, servervars, file, client, out>>

Leave(c, how) ==
  /\ conn[c] \in {"queued", "open"} /\ client[c] \in {"open", "shut"} \ {how}
  /\ client' = [client EXCEPT ![c] = how]
  /\ UNCHANGED <<pc, servervars, file, conn, asked, inbox, out>>

\* Somebody truncates or removes the file.
FileChanges ==
  /\ \/ file = "file" /\ file' = "empty"
     \/ file # "none" /\ file' = "none"
  /\ UNCHANGED <<pc, servervars, clientvars>>

-----------------------------------------------------------------------------
(* main() and doit().                                                        *)

\* unix_error(), gai_error(), or SIGPIPE, which Tiny does not catch.
Exit == Goto("exit") /\ UNCHANGED <<servervars, clientvars, file>>

\* open_listenfd(): the addresses in turn, until one can be bound; then listen().
Listen ==
  /\ pc = "start"
  /\ Goto("accept") /\ fds' = {"listenfd"}
  /\ UNCHANGED <<cur, rio, todo, sbuf, child, file, clientvars>>

ListenFails == pc = "start" /\ Exit

Accept(c) ==
  /\ pc = "accept" /\ conn[c] = "queued"
  /\ Goto("request")
  /\ cur' = c /\ fds' = fds \cup {"connfd"} /\ rio' = <<>>
  /\ conn' = [conn EXCEPT ![c] = "open"]
  /\ UNCHANGED <<todo, sbuf, child, file, client, asked, inbox, out>>

\* Accept fails, or Getnameinfo on the connection that it has returned.
AcceptFails == pc = "accept" /\ (\E c \in Clients : conn[c] = "queued") /\ Exit

\* rio_read(): read() takes the lines that have arrived.
Refill ==
  /\ pc \in {"request", "firstheader", "headers"} /\ rio = <<>> /\ inbox[cur] # <<>>
  /\ rio' = inbox[cur]
  /\ inbox' = [inbox EXCEPT ![cur] = <<>>]
  /\ UNCHANGED <<pc, cur, todo, sbuf, child, fds, file, conn, client, asked, out>>

\* A connection that the client has left may be reset.
ReadError ==
  /\ pc \in {"request", "firstheader", "headers"} /\ client[cur] = "gone"
  /\ Exit

AtEnd == rio = <<>> /\ inbox[cur] = <<>> /\ client[cur] # "open"

\* clienterror(): the page is one part here.
ClientError(errnum) == todo' = <<errnum, "type", "page">> /\ Goto("error")

ReadRequestLine ==
  /\ pc = "request" /\ rio # <<>>
  /\ rio' = Tail(rio)
  /\ IF Head(rio) = "other"
     THEN ClientError("501")
     ELSE Goto("firstheader") /\ UNCHANGED todo
  /\ UNCHANGED <<cur, sbuf, child, fds, file, clientvars>>

\* Mutation: the connection is not closed when doit() returns early.
NoRequest_Open ==
  /\ pc = "request" /\ AtEnd
  /\ Goto("accept")
  /\ UNCHANGED <<servervars, file, clientvars>>

NoRequest ==
  /\ pc = "request" /\ AtEnd
  /\ Goto("close")
  /\ UNCHANGED <<servervars, file, clientvars>>

\* Mutation: one header is read.
ReadHeader_One ==
  /\ pc \in {"firstheader", "headers"} /\ rio # <<>>
  /\ rio' = Tail(rio)
  /\ Goto("stat")
  /\ UNCHANGED <<cur, todo, sbuf, child, fds, file, clientvars>>

\* Mutation: the headers end with the connection.
ReadHeader_ToEnd ==
  /\ pc \in {"firstheader", "headers"} /\ rio # <<>>
  /\ rio' = Tail(rio)
  /\ Goto("headers")
  /\ UNCHANGED <<cur, todo, sbuf, child, fds, file, clientvars>>

\* read_requesthdrs(): until the empty line.
ReadHeader ==
  /\ pc \in {"firstheader", "headers"} /\ rio # <<>>
  /\ rio' = Tail(rio)
  /\ Goto(IF Head(rio) = "blank" THEN "stat" ELSE "headers")
  /\ UNCHANGED <<cur, todo, sbuf, child, fds, file, clientvars>>

\* The end before the empty line: buf stays as it is and the loop goes on for ever, unless
\* nothing was ever read into it and it happens to hold an empty line.
SpinAtEnd ==
  /\ pc \in {"firstheader", "headers"} /\ AtEnd
  /\ \/ UNCHANGED pc
     \/ pc = "firstheader" /\ \E l \in {"stat", "headers"} : Goto(l)
  /\ UNCHANGED <<servervars, file, clientvars>>

\* parse_uri() and stat(); a directory is forbidden too.
Stat ==
  /\ pc = "stat"
  /\ sbuf' = file
  /\ \/ file = "none" /\ ClientError("404")
     \/ file = "forbidden" /\ ClientError("403")
     \/ /\ file \in {"empty", "file"}
        /\ Goto(asked[cur][1])
        /\ todo' = IF asked[cur][1] = "static" THEN <<"200", "server", "length", "type">>
                                               ELSE <<"200", "server">>
  /\ UNCHANGED <<cur, rio, child, fds, file, clientvars>>

\* Rio_writen() of the next part.
WritePart ==
  /\ pc \in {"error", "static", "cgi"} /\ todo # <<>>
  /\ out' = [out EXCEPT ![cur] = Append(@, Head(todo))]
  /\ todo' = Tail(todo)
  /\ UNCHANGED <<pc, cur, rio, sbuf, child, fds, file, conn, client, asked, inbox>>

WriteError ==
  /\ pc \in {"error", "static", "cgi", "body"} /\ client[cur] = "gone"
  /\ Exit

\* Back from clienterror().
EndError ==
  /\ pc = "error" /\ todo = <<>>
  /\ Goto("close")
  /\ UNCHANGED <<servervars, file, clientvars>>

-----------------------------------------------------------------------------
(* serve_static(): Open, Mmap, Close, write, Munmap.                         *)

OpenFile ==
  /\ pc = "static" /\ todo = <<>> /\ file # "none"
  /\ Goto("map") /\ fds' = fds \cup {"srcfd"}
  /\ UNCHANGED <<cur, rio, todo, sbuf, child, file, clientvars>>

OpenFails == pc = "static" /\ todo = <<>> /\ file = "none" /\ Exit

\* filesize is stat's, and mmap of no bytes fails.
MapFile ==
  /\ pc = "map" /\ sbuf # "empty"
  /\ Goto("body") /\ fds' = fds \ {"srcfd"}
  /\ UNCHANGED <<cur, rio, todo, sbuf, child, file, clientvars>>

MapFails == pc = "map" /\ sbuf = "empty" /\ Exit

\* filesize bytes: those beyond the end of a file truncated meanwhile are zeros, or fail.
WriteBody ==
  /\ pc = "body"
  /\ \/ /\ \/ out' = [out EXCEPT ![cur] = Append(@, "body")]
           \/ file # "file" /\ out' = [out EXCEPT ![cur] = Append(@, "zeros")]
        /\ Goto("close")
     \/ file # "file" /\ Goto("exit") /\ UNCHANGED out
  /\ UNCHANGED <<servervars, file, conn, client, asked, inbox>>

-----------------------------------------------------------------------------
(* serve_dynamic(): fork, the child on its own, Wait.                        *)

Fork == /\ pc = "cgi" /\ todo = <<>>
        /\ child' = "forked" /\ Goto("wait")
        /\ UNCHANGED <<cur, rio, todo, sbuf, fds, file, clientvars>>

ForkFails == pc = "cgi" /\ todo = <<>> /\ Exit

\* Dup2 and Execve.
Exec ==
  /\ child = "forked" /\ file # "none"
  /\ child' = "running"
  /\ UNCHANGED <<pc, cur, rio, todo, sbuf, fds, file, clientvars>>

\* When Execve fails, exit() in the child flushes its copy of Tiny's log to standard output,
\* which is the connection now.
ExecFails ==
  /\ child = "forked"
  /\ child' = "zombie"
  /\ \/ out' = [out EXCEPT ![cur] = Append(@, "log")]
     \/ UNCHANGED out
  /\ UNCHANGED <<pc, cur, rio, todo, sbuf, fds, file, conn, client, asked, inbox>>

\* The program writes the rest of the answer; adder.c stops before it when the query has no
\* `&', and SIGPIPE kills it when the client is gone.
RunProgram ==
  /\ child = "running"
  /\ child' = "zombie"
  /\ \/ out' = [out EXCEPT ![cur] = Append(@, "content")]
     \/ UNCHANGED out
  /\ UNCHANGED <<pc, cur, rio, todo, sbuf, fds, file, conn, client, asked, inbox>>

\* Mutation: the parent does not wait.
Wait_Skip ==
  /\ pc = "wait"
  /\ Goto("close")
  /\ UNCHANGED <<servervars, file, clientvars>>

Wait ==
  /\ pc = "wait" /\ child = "zombie"
  /\ child' = "none"
  /\ Goto("close")
  /\ UNCHANGED <<cur, rio, todo, sbuf, fds, file, clientvars>>

-----------------------------------------------------------------------------
\* Close(connfd).  Lines that read() has not taken make it a reset.
Close ==
  /\ pc = "close"
  /\ Goto("accept")
  /\ fds' = fds \ {"connfd"} /\ cur' = NoClient
  /\ conn' = [conn EXCEPT ![cur] = IF inbox[cur] = <<>> THEN "eof" ELSE "reset"]
  /\ UNCHANGED <<rio, todo, sbuf, child, file, client, asked, inbox, out>>

Server == \/ Listen \/ ListenFails \/ (\E c \in Clients : Accept(c)) \/ AcceptFails
          \/ Refill \/ ReadError \/ ReadRequestLine \/ NoRequest \/ ReadHeader \/ SpinAtEnd
          \/ Stat \/ WritePart \/ WriteError \/ EndError
          \/ OpenFile \/ OpenFails \/ MapFile \/ MapFails \/ WriteBody
          \/ Fork \/ ForkFails \/ Exec \/ ExecFails \/ RunProgram \/ Wait
          \/ Close

Environment == \/ FileChanges
               \/ \E c \in Clients : \/ Connect(c)
                                     \/ \E l \in Methods \cup {"header", "blank"} : SendLine(c, l)
                                     \/ \E how \in {"shut", "gone"} : Leave(c, how)

Next == \/ pc # "exit" /\ (Server \/ Environment)
        \/ pc \in {"accept", "exit"} /\ UNCHANGED vars     \* nobody connects

Fairness == WF_vars(pc # "exit" /\ Server)

Spec == Init /\ [][Next]_vars /\ Fairness

-----------------------------------------------------------------------------
TypeOK ==
  /\ pc \in {"start", "accept", "request", "firstheader", "headers", "stat", "error",
             "static", "cgi", "map", "body", "wait", "close", "exit"}
  /\ cur \in Clients \cup {NoClient}
  /\ pc # "exit" => (pc \in {"start", "accept"} <=> cur = NoClient)
  /\ {file, sbuf} \subseteq {"none", "forbidden", "empty", "file"}
  /\ child \in {"none", "forked", "running", "zombie"}
  /\ fds \subseteq {"listenfd", "connfd", "srcfd"}
  /\ conn \in [Clients -> {"new", "queued", "open", "eof", "reset"}]
  /\ client \in [Clients -> {"open", "shut", "gone"}]
  /\ \A c \in Clients : Len(asked[c]) <= MaxHeaders + 2 /\ Len(inbox[c]) <= Len(asked[c])

\* The answers to a request whose lines are r: an error page, the file (zeros where it was
\* truncated after stat()), or two headers and what the program wrote: nothing when it crashed,
\* the server's own log when it could not be run (tiny.c:212).
Error(e) == <<e, "type", "page">>
Answers(r) ==
  IF r = <<>> THEN {<<>>}
  ELSE CASE r[1] = "other"  -> {Error("501")}
         [] r[1] = "static" -> {Error("404"), Error("403")} \cup
              {<<"200", "server", "length", "type", b>> : b \in {"body"} \cup
                  IF file = "file" THEN {} ELSE {"zeros"}}
         [] r[1] = "cgi"    -> {Error("404"), Error("403"), <<"200", "server">>} \cup
              {<<"200", "server", b>> : b \in {"content", "log"}}

\* A connection that ends as it should has carried one whole answer to its own request, whoever
\* was served before; only one whose method is refused can be reset, the answer lost, because
\* doit() leaves its headers unread (tiny.c:67).
AnswerWhole ==
  \A c \in Clients :
    /\ conn[c] = "eof"   => out[c] \in Answers(asked[c])
    /\ conn[c] = "reset" => asked[c][1] = "other"

\* Between two connections nothing is left of the first, whichever way doit() came back: no
\* descriptor, no child (tiny.c:37).
NothingLeft == pc = "accept" => fds = {"listenfd"} /\ child = "none" /\ todo = <<>>

\* A client that ends its request is served to the end, unless the server exits.  (For one that
\* does not, read_requesthdrs() spins and nobody is served any more: tiny.c:108.)
ServingEnds == \A c \in Clients : (cur = c /\ Finished(c)) ~> (cur # c \/ pc = "exit")
=============================================================================
