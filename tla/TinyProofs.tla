---------------------------- MODULE TinyProofs ----------------------------
(***************************************************************************)
(* Proofs about the Tiny web server, for any number of clients, requests   *)
(* of any length, and whatever becomes of the clients and of the file.     *)
(***************************************************************************)
EXTENDS Tiny, SequenceTheorems, TLAPS

USE NoClientAssumption, BoundAssumption DEF NoClientAssumption, BoundAssumption

-----------------------------------------------------------------------------
(* The inductive invariant.                                                  *)

Lines == Methods \cup {"header", "blank"}
Parts == {"501", "404", "403", "200", "type", "page", "server", "length", "body", "zeros",
          "content", "log"}

TypeInv ==
  /\ TypeOK
  /\ rio \in Seq(Lines) /\ todo \in Seq(Parts)
  /\ asked \in [Clients -> Seq(Lines)] /\ inbox \in [Clients -> Seq(Lines)]
  /\ out \in [Clients -> Seq(Parts)]

\* A request has its method first, and nothing after the empty line.
Shaped(s) ==
  /\ s # <<>> => s[1] \in Methods
  /\ \A k \in 1 .. Len(s) : (k > 1 => s[k] \notin Methods) /\ (k < Len(s) => s[k] # "blank")

\* Before it is accepted a client has sent what it likes and was sent nothing.
SentInv ==
  \A c \in Clients :
    /\ Shaped(asked[c])
    /\ conn[c] = "new" => asked[c] = <<>>
    /\ conn[c] \in {"new", "queued"} => inbox[c] = asked[c] /\ out[c] = <<>>

\* What Tiny holds: one connection at a time, a file only between Open and Close, a child only
\* between fork and wait, an answer only where it writes one.
HeldInv ==
  pc # "exit" =>
    /\ \A c \in Clients : conn[c] = "open" <=> c = cur
    /\ fds = (IF pc = "start" THEN {} ELSE {"listenfd"})
             \cup (IF cur = NoClient THEN {} ELSE {"connfd"})
             \cup (IF pc = "map" THEN {"srcfd"} ELSE {})
    /\ child # "none" <=> pc = "wait"
    /\ todo # <<>> => pc \in {"error", "static", "cgi"}

Refused(c) == asked[c] # <<>> /\ asked[c][1] = "other"
NoMore(c)  == Finished(c) \/ client[c] # "open"
\* r is the end of s, but not all of it.
Rest(s, r) == \E u \in Seq(Lines) : u # <<>> /\ s = u \o r

\* Only a request whose method is refused is not read to its end.
ReadInv ==
  /\ pc = "request" => asked[cur] = rio \o inbox[cur]
  /\ pc \in {"firstheader", "headers"} => Rest(asked[cur], rio \o inbox[cur])
  /\ pc \in {"firstheader", "headers", "stat", "static", "cgi", "map", "body", "wait"} =>
       asked[cur] # <<>> /\ ~Refused(cur)
  /\ pc \in {"stat", "static", "cgi", "map", "body", "wait", "error", "close"} =>
       Refused(cur) \/ (inbox[cur] = <<>> /\ NoMore(cur))

Errors(r)  == IF r[1] = "other" THEN {Error("501")} ELSE {Error("404"), Error("403")}
StaticHead == <<"200", "server", "length", "type">>
CgiHead    == <<"200", "server">>

\* What the client has been sent and what is still to be written make up one answer.
SendInv ==
  /\ pc \in {"request", "firstheader", "headers", "stat"} => out[cur] = <<>>
  /\ pc = "error" => asked[cur] # <<>> /\ out[cur] \o todo \in Errors(asked[cur])
  /\ pc \in {"static", "map", "body"} =>
       asked[cur][1] = "static" /\ out[cur] \o todo = StaticHead
  /\ pc \in {"cgi", "wait"} => asked[cur][1] = "cgi"
  /\ pc = "cgi" => out[cur] \o todo = CgiHead
  /\ pc = "wait" => \/ out[cur] = CgiHead
                    \/ child = "zombie" /\ out[cur] \in {Append(CgiHead, "content"), Append(CgiHead, "log")}
  /\ pc = "close" => out[cur] \in Answers(asked[cur])

\* A connection that has ended was answered, and nothing more is sent on it unless its method
\* was refused.
EndedInv ==
  \A c \in Clients :
    /\ conn[c] = "eof" => out[c] \in Answers(asked[c]) /\ (Refused(c) \/ NoMore(c))
    /\ conn[c] = "reset" => Refused(c)

TInv == TypeInv /\ SentInv /\ HeldInv /\ ReadInv /\ SendInv /\ EndedInv

Serving == {"request", "firstheader", "headers", "stat", "error", "static", "cgi", "map",
            "body", "wait", "close"}

-----------------------------------------------------------------------------
(* Requests and answers.                                                     *)

LEMMA MovePart ==
  ASSUME NEW S, NEW s \in Seq(S), NEW t \in Seq(S), t # <<>>
  PROVE  /\ Append(s, Head(t)) \o Tail(t) = s \o t
         /\ Append(s, Head(t)) \in Seq(S) /\ Tail(t) \in Seq(S)
<1>1. Head(t) \in S /\ Tail(t) \in Seq(S) /\ <<Head(t)>> \in Seq(S)
  OBVIOUS
<1>2. Append(s, Head(t)) = s \o <<Head(t)>> /\ Append(s, Head(t)) \in Seq(S)
  BY <1>1, AppendIsConcat
<1>3. <<Head(t)>> \o Tail(t) = t
  <2>1. /\ Len(<<Head(t)>> \o Tail(t)) = 1 + Len(Tail(t))
        /\ <<Head(t)>> \o Tail(t) \in Seq(S)
        /\ \A i \in 1 .. 1 + Len(Tail(t)) :
             (<<Head(t)>> \o Tail(t))[i] = IF i <= 1 THEN Head(t) ELSE Tail(t)[i - 1]
    BY <1>1, ConcatProperties
  <2>2. Len(t) = 1 + Len(Tail(t)) /\ \A i \in 1 .. Len(Tail(t)) : Tail(t)[i] = t[i + 1]
    OBVIOUS
  <2>3. \A i \in 1 .. Len(t) : (<<Head(t)>> \o Tail(t))[i] = t[i]
    BY <2>1, <2>2
  <2> QED
    BY <2>1, <2>2, <2>3, SeqEqual
<1>4. (s \o <<Head(t)>>) \o Tail(t) = s \o (<<Head(t)>> \o Tail(t))
  BY <1>1, ConcatAssociative
<1> QED
  BY <1>1, <1>2, <1>3, <1>4

LEMMA Regroup ==
  \A a, b, c \in Seq(Lines) : (a \o b) \o c = a \o (b \o c)
<1> TAKE a, b, c \in Seq(Lines)
<1> QED
  BY ConcatAssociative

\* A line that was read moves from the rest to what precedes it.
LEMMA RestMoves ==
  ASSUME NEW s \in Seq(Lines), NEW r \in Seq(Lines), NEW i \in Seq(Lines), r # <<>>,
         s = r \o i \/ Rest(s, r \o i)
  PROVE  Rest(s, Tail(r) \o i)
<1>1. PICK u \in Seq(Lines) : s = u \o (r \o i)
  <2>1. <<>> \in Seq(Lines) /\ r \o i \in Seq(Lines) /\ <<>> \o (r \o i) = r \o i
    BY ConcatProperties, ConcatEmptySeq
  <2> QED
    BY <2>1 DEF Rest
<1>2. /\ Append(u, Head(r)) \o Tail(r) = u \o r
      /\ Append(u, Head(r)) \in Seq(Lines) /\ Tail(r) \in Seq(Lines)
  BY MovePart
<1>3. (u \o r) \o i = s
  BY SMTT(60), <1>1, ConcatAssociative
<1>4. (Append(u, Head(r)) \o Tail(r)) \o i = Append(u, Head(r)) \o (Tail(r) \o i)
  BY SMTT(60), <1>2, Regroup
<1>5. Append(u, Head(r)) # <<>>
  <2>1. Len(Append(u, Head(r))) = Len(u) + 1 /\ Len(u) \in Nat /\ Len(<<>>) = 0
    OBVIOUS
  <2>2. Len(Append(u, Head(r))) # Len(<<>>)
    BY <2>1
  <2> QED
    BY <2>2
<1> QED
  BY <1>2, <1>3, <1>4, <1>5 DEF Rest

\* The empty line is the last.
LEMMA BlankIsLast ==
  ASSUME NEW s \in Seq(Lines), NEW r \in Seq(Lines), NEW i \in Seq(Lines), r # <<>>,
         Shaped(s), Rest(s, r \o i), Head(r) = "blank"
  PROVE  i = <<>> /\ s # <<>> /\ s[Len(s)] = "blank"
<1>1. PICK u \in Seq(Lines) : u # <<>> /\ s = u \o (r \o i)
  BY DEF Rest
<1>2. /\ r \o i \in Seq(Lines) /\ Len(r \o i) = Len(r) + Len(i) /\ Len(r) \in Nat \ {0}
      /\ Len(i) \in Nat /\ (r \o i)[1] = r[1]
  <2>1. Len(r) \in Nat \ {0} /\ Len(i) \in Nat
    BY EmptySeq
  <2>2. 1 \in 1 .. Len(r) + Len(i) /\ 1 <= Len(r)
    BY <2>1
  <2> QED
    BY <2>1, <2>2, ConcatProperties
<1>3. /\ Len(s) = Len(u) + (Len(r) + Len(i)) /\ Len(u) \in Nat
      /\ s[Len(u) + 1] = (r \o i)[1]
  <2>1. Len(u) \in Nat /\ Len(s) = Len(u) + (Len(r) + Len(i))
    BY <1>1, <1>2, ConcatProperties
  <2>2. Len(u) + 1 \in 1 .. Len(u) + Len(r \o i) /\ ~(Len(u) + 1 <= Len(u)) /\ (Len(u) + 1) - Len(u) = 1
    BY <1>2, <2>1
  <2>3. s[Len(u) + 1] = (r \o i)[(Len(u) + 1) - Len(u)]
    BY <1>1, <1>2, <2>2, ConcatProperties
  <2> QED
    BY <2>1, <2>2, <2>3
<1>4. s[Len(u) + 1] = "blank" /\ Len(u) + 1 \in 1 .. Len(s)
  BY <1>2, <1>3
<1>5. ~(Len(u) + 1 < Len(s))
  BY <1>4 DEF Shaped
<1>6. Len(i) = 0 /\ Len(u) + 1 = Len(s)
  BY <1>2, <1>3, <1>5
<1>7. i = <<>>
  BY <1>6, EmptySeq
<1> QED
  BY <1>3, <1>4, <1>6, <1>7

LEMMA AnswerParts ==
  /\ \A b \in Parts : Append(StaticHead, b) = <<"200", "server", "length", "type", b>>
  /\ \A b \in Parts : Append(CgiHead, b) = <<"200", "server", b>>
  /\ StaticHead \in Seq(Parts) /\ CgiHead \in Seq(Parts)
  /\ \A e \in {"501", "404", "403"} : Error(e) \in Seq(Parts)
<1>1. ASSUME NEW b \in Parts
      PROVE  Append(StaticHead, b) = <<"200", "server", "length", "type", b>>
  <2> DEFINE t == <<"200", "server", "length", "type", b>>
  <2>1. StaticHead \in Seq(Parts) /\ Len(StaticHead) = 4 /\ t \in Seq(Parts) /\ Len(t) = 5
    BY DEF StaticHead, Parts
  <2>2. /\ Append(StaticHead, b) \in Seq(Parts) /\ Len(Append(StaticHead, b)) = 5
        /\ \A i \in 1 .. 4 : Append(StaticHead, b)[i] = StaticHead[i]
        /\ Append(StaticHead, b)[5] = b
    <3>1. StaticHead \in Seq(Parts) /\ Len(StaticHead) + 1 = 5
      BY <2>1
    <3>2. /\ Append(StaticHead, b) \in Seq(Parts) /\ Len(Append(StaticHead, b)) = Len(StaticHead) + 1
          /\ \A i \in 1 .. Len(StaticHead) : Append(StaticHead, b)[i] = StaticHead[i]
          /\ Append(StaticHead, b)[Len(StaticHead) + 1] = b
      BY <3>1, AppendProperties
    <3> QED
      BY <2>1, <3>1, <3>2
  <2>3. \A i \in 1 .. 5 : i \in 1 .. 4 \/ i = 5
    OBVIOUS
  <2>4. \A i \in 1 .. 4 : StaticHead[i] = t[i]
    BY DEF StaticHead
  <2>5. \A i \in 1 .. 5 : Append(StaticHead, b)[i] = t[i]
    BY <2>2, <2>3, <2>4
  <2> HIDE DEF t
  <2> QED
    BY <2>1, <2>2, <2>5, SeqEqual DEF t
<1>2. ASSUME NEW b \in Parts PROVE Append(CgiHead, b) = <<"200", "server", b>>
  <2> DEFINE t == <<"200", "server", b>>
  <2>1. CgiHead \in Seq(Parts) /\ Len(CgiHead) = 2 /\ t \in Seq(Parts) /\ Len(t) = 3
    BY DEF CgiHead, Parts
  <2>2. /\ Append(CgiHead, b) \in Seq(Parts) /\ Len(Append(CgiHead, b)) = 3
        /\ \A i \in 1 .. 2 : Append(CgiHead, b)[i] = CgiHead[i]
        /\ Append(CgiHead, b)[3] = b
    <3>1. CgiHead \in Seq(Parts) /\ Len(CgiHead) + 1 = 3
      BY <2>1
    <3>2. /\ Append(CgiHead, b) \in Seq(Parts) /\ Len(Append(CgiHead, b)) = Len(CgiHead) + 1
          /\ \A i \in 1 .. Len(CgiHead) : Append(CgiHead, b)[i] = CgiHead[i]
          /\ Append(CgiHead, b)[Len(CgiHead) + 1] = b
      BY <3>1, AppendProperties
    <3> QED
      BY <2>1, <3>1, <3>2
  <2>3. \A i \in 1 .. 3 : i \in 1 .. 2 \/ i = 3
    OBVIOUS
  <2>4. \A i \in 1 .. 2 : CgiHead[i] = t[i]
    BY DEF CgiHead
  <2>5. \A i \in 1 .. 3 : Append(CgiHead, b)[i] = t[i]
    BY <2>2, <2>3, <2>4
  <2> HIDE DEF t
  <2> QED
    BY <2>1, <2>2, <2>5, SeqEqual DEF t
<1>3. StaticHead \in Seq(Parts) /\ CgiHead \in Seq(Parts)
  BY DEF StaticHead, CgiHead, Parts
<1>4. \A e \in {"501", "404", "403"} : Error(e) \in Seq(Parts)
  BY DEF Error, Parts
<1> QED
  BY <1>1, <1>2, <1>3, <1>4

\* The answers there are, for each method.
LEMMA AnswersAre ==
  ASSUME NEW r, r # <<>>
  PROVE  /\ r[1] \in {"other", "static", "cgi"} => Errors(r) \subseteq Answers(r)
         /\ r[1] = "static" => Append(StaticHead, "body") \in Answers(r)
         /\ r[1] = "static" /\ file # "file" => Append(StaticHead, "zeros") \in Answers(r)
         /\ r[1] = "cgi" => /\ CgiHead \in Answers(r)
                            /\ Append(CgiHead, "content") \in Answers(r)
                            /\ Append(CgiHead, "log") \in Answers(r)
<1>1. CASE r[1] = "other"
  BY <1>1 DEF Answers, Errors
<1>2. CASE r[1] = "static"
  BY <1>2, AnswerParts DEF Answers, Errors, Parts
<1>3. CASE r[1] = "cgi"
  BY <1>3, AnswerParts DEF Answers, Errors, CgiHead, Parts
<1> QED
  BY <1>1, <1>2, <1>3

\* Nothing stops being an answer to a request.
LEMMA AnswersStay ==
  ASSUME NEW c \in Clients, asked[c] # <<>> => asked[c][1] \in Methods,
         file' = file \/ FileChanges,
         \/ asked'[c] = asked[c]
         \/ asked[c] # <<>> /\ asked'[c] # <<>> /\ asked'[c][1] = asked[c][1]
  PROVE  Answers(asked[c]) \subseteq Answers(asked[c])'
<1>1. file' = "file" => file = "file"
  BY DEF FileChanges
<1>2. CASE asked[c] = <<>>
  BY <1>2 DEF Answers
<1>3. CASE asked[c] # <<>> /\ asked[c][1] = "other"
  BY <1>3 DEF Answers
<1>4. CASE asked[c] # <<>> /\ asked[c][1] = "static"
  BY <1>1, <1>4 DEF Answers
<1>5. CASE asked[c] # <<>> /\ asked[c][1] = "cgi"
  BY <1>5 DEF Answers
<1> QED
  BY <1>2, <1>3, <1>4, <1>5 DEF Methods

-----------------------------------------------------------------------------
(* The invariant is inductive.                                               *)

LEMMA InitInv == Init => TInv
<1> SUFFICES ASSUME Init PROVE TInv
  OBVIOUS
<1>1. TypeInv
  <2>1. TypeOK
    BY DEF Init, TypeOK
  <2> QED
    BY <2>1 DEF Init, TypeInv
<1>2. SentInv /\ HeldInv
  BY DEF Init, SentInv, Shaped, HeldInv
<1>3. ReadInv /\ SendInv /\ EndedInv
  BY DEF Init, ReadInv, SendInv, EndedInv
<1> QED
  BY <1>1, <1>2, <1>3 DEF TInv

\* What is known while a connection is served.
LEMMA Served ==
  ASSUME TInv, pc \in Serving
  PROVE  /\ cur \in Clients /\ conn[cur] = "open" /\ cur # NoClient
         /\ rio \in Seq(Lines) /\ todo \in Seq(Parts)
         /\ asked[cur] \in Seq(Lines) /\ inbox[cur] \in Seq(Lines) /\ out[cur] \in Seq(Parts)
         /\ Shaped(asked[cur])
<1>1. cur \in Clients
  BY DEF TInv, TypeInv, TypeOK, Serving
<1>2. conn[cur] = "open" /\ Shaped(asked[cur])
  BY <1>1 DEF TInv, HeldInv, SentInv, Serving
<1> QED
  BY <1>1, <1>2 DEF TInv, TypeInv

\* A step of Tiny leaves the clients it does not serve alone.
LEMMA OthersKept ==
  ASSUME TInv, pc # "exit", UNCHANGED <<file, conn, asked, client>>,
         \A c \in Clients : c # cur => inbox'[c] = inbox[c] /\ out'[c] = out[c]
  PROVE  SentInv' /\ EndedInv'
<1>1. \A c \in Clients : conn[c] # "open" => c # cur
  BY DEF TInv, HeldInv
<1>2. SentInv'
  BY <1>1 DEF TInv, SentInv
<1>3. ASSUME NEW c \in Clients PROVE (Answers(asked[c]))' = Answers(asked[c])
  BY DEF Answers
<1>4. \A c \in Clients : (Refused(c))' = Refused(c) /\ (NoMore(c))' = NoMore(c)
  BY DEF Refused, NoMore, Finished
<1>5. EndedInv'
  <2> SUFFICES ASSUME NEW c \in Clients
               PROVE  /\ conn'[c] = "eof" => out'[c] \in (Answers(asked[c]))' /\ (Refused(c) \/ NoMore(c))'
                      /\ conn'[c] = "reset" => (Refused(c))'
    BY DEF EndedInv
  <2>1. c # cur => out'[c] = out[c]
    OBVIOUS
  <2> QED
    BY <1>1, <1>3, <1>4, <2>1 DEF TInv, EndedInv
<1> QED
  BY <1>2, <1>5

LEMMA ExitInv ==
  ASSUME TInv, pc # "exit", Exit
  PROVE  TInv'
<1>1. /\ pc' = "exit"
      /\ UNCHANGED <<cur, rio, todo, sbuf, child, fds, file, conn, client, asked, inbox, out>>
  BY DEF Exit, Goto, servervars, clientvars
<1>2. SentInv' /\ EndedInv'
  BY <1>1, OthersKept
<1>3. TypeInv'
  BY <1>1 DEF TInv, TypeInv, TypeOK
<1>4. HeldInv' /\ ReadInv' /\ SendInv'
  BY <1>1 DEF HeldInv, ReadInv, SendInv
<1> QED
  BY <1>2, <1>3, <1>4 DEF TInv

LEMMA AcceptingInv ==
  ASSUME TInv, Listen \/ (\E c \in Clients : Accept(c))
  PROVE  TInv'
<1>1. CASE Listen
  <2>1. /\ pc = "start" /\ pc' = "accept" /\ fds' = {"listenfd"}
        /\ UNCHANGED <<cur, rio, todo, sbuf, child, file, conn, client, asked, inbox, out>>
    BY <1>1 DEF Listen, Goto, clientvars
  <2>2. SentInv' /\ EndedInv'
    BY <2>1, OthersKept
  <2>3. TypeInv'
    BY <2>1 DEF TInv, TypeInv, TypeOK
  <2>4. HeldInv'
    <3>1. cur = NoClient
      BY <2>1 DEF TInv, TypeInv, TypeOK
    <3> QED
      BY <2>1, <3>1 DEF TInv, HeldInv
  <2>5. ReadInv' /\ SendInv'
    BY <2>1 DEF ReadInv, SendInv
  <2> QED
    BY <2>2, <2>3, <2>4, <2>5 DEF TInv
<1>2. ASSUME NEW c \in Clients, Accept(c) PROVE TInv'
  <2>1. /\ pc = "accept" /\ conn[c] = "queued" /\ pc' = "request" /\ cur' = c
        /\ fds' = fds \cup {"connfd"} /\ rio' = <<>> /\ conn' = [conn EXCEPT ![c] = "open"]
        /\ UNCHANGED <<todo, sbuf, child, file, client, asked, inbox, out>>
    BY <1>2 DEF Accept, Goto
  <2>2. cur = NoClient /\ c # NoClient /\ conn' \in [Clients -> {"new", "queued", "open", "eof", "reset"}]
    BY <2>1 DEF TInv, TypeInv, TypeOK
  <2>3. /\ conn'[c] = "open" /\ \A d \in Clients : d # c => conn'[d] = conn[d]
        /\ \A d \in Clients : conn[d] # "open"
        /\ inbox[c] = asked[c] /\ out[c] = <<>>
    BY <2>1, <2>2 DEF TInv, TypeInv, TypeOK, HeldInv, SentInv
  <2>4. TypeInv'
    BY <2>1, <2>2 DEF TInv, TypeInv, TypeOK
  <2>5. SentInv'
    BY <2>1, <2>3 DEF TInv, SentInv
  <2>6. HeldInv'
    <3>1. \A d \in Clients : conn'[d] = "open" <=> d = cur'
      BY <2>1, <2>3
    <3>2. fds = {"listenfd"} /\ child = "none" /\ todo = <<>>
      BY <2>1, <2>2 DEF TInv, HeldInv
    <3> QED
      BY <2>1, <2>2, <3>1, <3>2 DEF HeldInv
  <2>7. ReadInv' /\ SendInv'
    <3>1. <<>> \o inbox[c] = inbox[c]
      BY ConcatEmptySeq DEF TInv, TypeInv
    <3> QED
      BY <2>1, <2>3, <3>1 DEF ReadInv, SendInv
  <2>8. EndedInv'
    <3>1. ASSUME NEW d \in Clients
          PROVE  /\ (Answers(asked[d]))' = Answers(asked[d])
                 /\ (Refused(d))' = Refused(d) /\ (NoMore(d))' = NoMore(d)
      BY <2>1 DEF Answers, Refused, NoMore, Finished
    <3>2. \A d \in Clients : conn'[d] \in {"eof", "reset"} => conn'[d] = conn[d]
      BY <2>3
    <3> QED
      BY <2>1, <3>1, <3>2 DEF TInv, EndedInv
  <2> QED
    BY <2>4, <2>5, <2>6, <2>7, <2>8 DEF TInv
<1> QED
  BY <1>1, <1>2

\* A step between two parts of doit(), for the connection that is served.
LEMMA MovesOn ==
  ASSUME TInv, pc \in Serving, pc' \in Serving, pc # "map", pc' # "map", pc # "wait", pc' # "wait",
         UNCHANGED <<cur, child, fds, file, conn, client, asked>>,
         rio' \in Seq(Lines), todo' \in Seq(Parts), sbuf' \in {sbuf, file},
         todo' # <<>> => pc' \in {"error", "static", "cgi"},
         \/ inbox' = inbox
         \/ inbox' = [inbox EXCEPT ![cur] = <<>>],
         \/ out' = out
         \/ \E p \in Parts : out' = [out EXCEPT ![cur] = Append(@, p)]
  PROVE  TypeInv' /\ SentInv' /\ HeldInv' /\ EndedInv'
<1>1. cur \in Clients /\ cur # NoClient /\ pc \notin {"exit", "start", "accept"} /\ pc' \notin {"exit", "start", "accept"}
  BY Served DEF Serving
<1>2. /\ inbox' \in [Clients -> Seq(Lines)] /\ out' \in [Clients -> Seq(Parts)]
      /\ \A c \in Clients : c # cur => inbox'[c] = inbox[c] /\ out'[c] = out[c]
      /\ \A c \in Clients : Len(inbox'[c]) <= Len(asked[c])
  <2>1. inbox \in [Clients -> Seq(Lines)] /\ out \in [Clients -> Seq(Parts)] /\ asked \in [Clients -> Seq(Lines)]
    BY DEF TInv, TypeInv
  <2>2. \A c \in Clients : Len(inbox[c]) <= Len(asked[c]) /\ Len(asked[c]) \in Nat
    BY <2>1 DEF TInv, TypeInv, TypeOK
  <2>3. /\ out' \in [Clients -> Seq(Parts)]
        /\ \A c \in Clients : c # cur => out'[c] = out[c]
    <3>1. CASE out' = out
      BY <2>1, <3>1
    <3>2. ASSUME NEW p \in Parts, out' = [out EXCEPT ![cur] = Append(@, p)]
          PROVE  /\ out' \in [Clients -> Seq(Parts)]
                 /\ \A c \in Clients : c # cur => out'[c] = out[c]
      <4>1. Append(out[cur], p) \in Seq(Parts)
        BY <1>1, <2>1, AppendProperties
      <4> QED
        BY <2>1, <3>2, <4>1
    <3> QED
      BY <3>1, <3>2
  <2>4. /\ inbox' \in [Clients -> Seq(Lines)]
        /\ \A c \in Clients : c # cur => inbox'[c] = inbox[c]
        /\ inbox'[cur] = inbox[cur] \/ inbox'[cur] = <<>>
    <3>1. CASE inbox' = inbox
      BY <1>1, <2>1, <3>1
    <3>2. CASE inbox' = [inbox EXCEPT ![cur] = <<>>]
      <4>1. <<>> \in Seq(Lines)
        OBVIOUS
      <4> QED
        BY <1>1, <2>1, <3>2, <4>1
    <3> QED
      BY <3>1, <3>2
  <2>5. \A c \in Clients : Len(inbox'[c]) <= Len(asked[c])
    <3> TAKE c \in Clients
    <3>1. Len(<<>>) = 0
      OBVIOUS
    <3>2. inbox'[c] = inbox[c] \/ inbox'[c] = <<>>
      BY <2>4
    <3> QED
      BY <2>2, <3>1, <3>2
  <2> QED
    BY <2>3, <2>4, <2>5
<1>3. SentInv' /\ EndedInv'
  BY <1>1, <1>2, OthersKept
<1>4. TypeInv'
  <2>1. TypeOK'
    BY <1>1, <1>2 DEF TInv, TypeInv, TypeOK, Serving
  <2> QED
    BY <1>2, <2>1 DEF TInv, TypeInv
<1>5. HeldInv'
  BY <1>1 DEF TInv, HeldInv
<1> QED
  BY <1>3, <1>4, <1>5

LEMMA RefillInv ==
  ASSUME TInv, Refill
  PROVE  TInv'
<1>1. /\ pc \in {"request", "firstheader", "headers"} /\ rio = <<>> /\ rio' = inbox[cur]
      /\ inbox' = [inbox EXCEPT ![cur] = <<>>]
      /\ UNCHANGED <<pc, cur, todo, sbuf, child, fds, file, conn, client, asked, out>>
  BY DEF Refill
<1>2. pc \in Serving
  BY <1>1 DEF Serving
<1>3. /\ cur \in Clients /\ inbox[cur] \in Seq(Lines) /\ inbox \in [Clients -> Seq(Lines)]
      /\ todo \in Seq(Parts) /\ (todo # <<>> => pc \in {"error", "static", "cgi"})
  BY <1>1, <1>2, Served DEF TInv, TypeInv, HeldInv
<1>4. TypeInv' /\ SentInv' /\ HeldInv' /\ EndedInv'
  BY <1>1, <1>2, <1>3, MovesOn
<1>5. rio' \o inbox'[cur] = rio \o inbox[cur]
  BY <1>1, <1>3, ConcatEmptySeq
<1>6. ReadInv'
  BY <1>1, <1>5 DEF TInv, ReadInv, Rest, Refused
<1>7. SendInv'
  BY <1>1 DEF TInv, SendInv
<1> QED
  BY <1>4, <1>6, <1>7 DEF TInv

LEMMA ReadRequestLineInv ==
  ASSUME TInv, ReadRequestLine
  PROVE  TInv'
<1>1. /\ pc = "request" /\ rio # <<>> /\ rio' = Tail(rio)
      /\ IF Head(rio) = "other" THEN todo' = Error("501") /\ pc' = "error"
                                ELSE pc' = "firstheader" /\ UNCHANGED todo
      /\ UNCHANGED <<cur, sbuf, child, fds, file, conn, client, asked, inbox, out>>
  BY DEF ReadRequestLine, ClientError, Error, Goto, clientvars
<1>2. pc \in Serving /\ pc' \in Serving
  BY <1>1 DEF Serving
<1>3. /\ cur \in Clients /\ rio \in Seq(Lines) /\ inbox[cur] \in Seq(Lines)
      /\ asked[cur] \in Seq(Lines) /\ todo \in Seq(Parts) /\ Shaped(asked[cur])
  BY <1>2, Served
<1>4. todo = <<>> /\ asked[cur] = rio \o inbox[cur] /\ out[cur] = <<>>
  BY <1>1 DEF TInv, HeldInv, ReadInv, SendInv
<1>5. asked[cur] # <<>> /\ asked[cur][1] = Head(rio)
  <2>1. Len(rio) \in Nat \ {0} /\ Len(inbox[cur]) \in Nat
    BY <1>1, <1>3, EmptySeq
  <2>2. 1 \in 1 .. Len(rio) + Len(inbox[cur]) /\ 1 <= Len(rio)
    BY <2>1
  <2>3. asked[cur][1] = rio[1] /\ Len(asked[cur]) = Len(rio) + Len(inbox[cur])
    BY <1>3, <1>4, <2>2, ConcatProperties
  <2>4. Len(asked[cur]) # 0 /\ Head(rio) = rio[1]
    BY <1>1, <1>3, <2>1, <2>3
  <2> QED
    BY <2>3, <2>4
<1>6. TypeInv' /\ SentInv' /\ HeldInv' /\ EndedInv'
  <2>1. rio' \in Seq(Lines)
    BY <1>1, <1>3
  <2>2. todo' \in Seq(Parts) /\ (todo' # <<>> => pc' \in {"error", "static", "cgi"})
    BY <1>1, <1>3, <1>4, AnswerParts
  <2>3. pc # "map" /\ pc' # "map" /\ pc # "wait" /\ pc' # "wait"
    BY <1>1
  <2> QED
    BY <1>1, <1>2, <2>1, <2>2, <2>3, MovesOn
<1>7. CASE Head(rio) = "other"
  <2>1. ReadInv'
    BY <1>1, <1>5, <1>7 DEF ReadInv, Refused
  <2>2. SendInv'
    <3>1. out[cur] \o todo' = Error("501")
      BY <1>1, <1>4, <1>7, AnswerParts, ConcatEmptySeq
    <3> QED
      BY <1>1, <1>5, <1>7, <3>1 DEF SendInv, Errors
  <2> QED
    BY <1>6, <2>1, <2>2 DEF TInv
<1>8. CASE Head(rio) # "other"
  <2>1. Rest(asked[cur], Tail(rio) \o inbox[cur])
    BY <1>1, <1>3, <1>4, RestMoves
  <2>2. ReadInv'
    BY <1>1, <1>5, <1>8, <2>1 DEF ReadInv, Refused, Rest
  <2>3. SendInv'
    BY <1>1, <1>4, <1>8 DEF SendInv
  <2> QED
    BY <1>6, <2>2, <2>3 DEF TInv
<1> QED
  BY <1>7, <1>8

LEMMA ReadHeaderInv ==
  ASSUME TInv, ReadHeader
  PROVE  TInv'
<1>1. /\ pc \in {"firstheader", "headers"} /\ rio # <<>> /\ rio' = Tail(rio)
      /\ pc' = IF Head(rio) = "blank" THEN "stat" ELSE "headers"
      /\ UNCHANGED <<cur, todo, sbuf, child, fds, file, conn, client, asked, inbox, out>>
  BY DEF ReadHeader, Goto, clientvars
<1>2. pc \in Serving /\ pc' \in Serving
  BY <1>1 DEF Serving
<1>3. /\ cur \in Clients /\ rio \in Seq(Lines) /\ inbox[cur] \in Seq(Lines)
      /\ asked[cur] \in Seq(Lines) /\ todo \in Seq(Parts) /\ Shaped(asked[cur])
  BY <1>2, Served
<1>4. /\ todo = <<>> /\ Rest(asked[cur], rio \o inbox[cur]) /\ out[cur] = <<>>
      /\ asked[cur] # <<>> /\ ~Refused(cur)
  BY <1>1 DEF TInv, HeldInv, ReadInv, SendInv
<1>5. TypeInv' /\ SentInv' /\ HeldInv' /\ EndedInv'
  <2>1. rio' \in Seq(Lines) /\ todo' = <<>>
    BY <1>1, <1>3, <1>4
  <2>2. pc # "map" /\ pc' # "map" /\ pc # "wait" /\ pc' # "wait"
    BY <1>1
  <2> QED
    BY <1>1, <1>2, <1>3, <2>1, <2>2, MovesOn
<1>6. ReadInv'
  <2>1. CASE Head(rio) = "blank"
    <3>1. inbox[cur] = <<>> /\ asked[cur][Len(asked[cur])] = "blank"
      BY <1>1, <1>3, <1>4, <2>1, BlankIsLast
    <3> QED
      BY <1>1, <1>4, <2>1, <3>1 DEF ReadInv, Refused, NoMore, Finished
  <2>2. CASE Head(rio) # "blank"
    <3>1. Rest(asked[cur], Tail(rio) \o inbox[cur])
      BY <1>1, <1>3, <1>4, RestMoves
    <3> QED
      BY <1>1, <1>4, <2>2, <3>1 DEF ReadInv, Refused, Rest
  <2> QED
    BY <2>1, <2>2
<1>7. SendInv'
  BY <1>1, <1>4 DEF SendInv
<1> QED
  BY <1>5, <1>6, <1>7 DEF TInv

\* The end before the request line or before the empty line.
LEMMA AtEndInv ==
  ASSUME TInv, NoRequest \/ SpinAtEnd
  PROVE  TInv'
<1>1. /\ pc \in {"request", "firstheader", "headers"}
      /\ rio = <<>> /\ inbox[cur] = <<>> /\ client[cur] # "open"
      /\ \/ pc = "request" /\ pc' = "close"
         \/ pc # "request" /\ pc' \in {pc, "headers", "stat"}
      /\ UNCHANGED <<cur, rio, todo, sbuf, child, fds, file, conn, client, asked, inbox, out>>
  BY DEF NoRequest, SpinAtEnd, AtEnd, Goto, servervars, clientvars
<1>2. pc \in Serving /\ pc' \in Serving
  BY <1>1 DEF Serving
<1>3. /\ cur \in Clients /\ rio \in Seq(Lines) /\ todo \in Seq(Parts)
      /\ todo = <<>> /\ out[cur] = <<>> /\ NoMore(cur)
  BY <1>1, <1>2, Served DEF TInv, HeldInv, SendInv, NoMore
<1>4. TypeInv' /\ SentInv' /\ HeldInv' /\ EndedInv'
  <2>1. pc # "map" /\ pc' # "map" /\ pc # "wait" /\ pc' # "wait"
    BY <1>1
  <2> QED
    BY <1>1, <1>2, <1>3, <2>1, MovesOn
<1>5. (NoMore(cur))'
  BY <1>1 DEF NoMore
<1>6. ReadInv'
  BY <1>1, <1>5 DEF TInv, ReadInv, Refused, Rest
<1>7. SendInv'
  <2>1. pc = "request" => asked[cur] = <<>>
    <3>1. <<>> \o <<>> = <<>>
      OBVIOUS
    <3> QED
      BY <1>1, <3>1 DEF TInv, ReadInv
  <2>2. pc' = "close" => out'[cur'] \in (Answers(asked[cur]))'
    BY <1>1, <1>3, <2>1 DEF Answers
  <2> QED
    BY <1>1, <1>3, <2>2 DEF SendInv
<1> QED
  BY <1>4, <1>6, <1>7 DEF TInv

LEMMA StatInv ==
  ASSUME TInv, Stat
  PROVE  TInv'
<1>1. /\ pc = "stat" /\ sbuf' = file
      /\ \/ todo' = Error("404") /\ pc' = "error"
         \/ todo' = Error("403") /\ pc' = "error"
         \/ /\ pc' = asked[cur][1]
            /\ todo' = IF asked[cur][1] = "static" THEN StaticHead ELSE CgiHead
      /\ UNCHANGED <<cur, rio, child, fds, file, conn, client, asked, inbox, out>>
  BY DEF Stat, ClientError, Error, Goto, StaticHead, CgiHead, clientvars
<1>2. pc \in Serving
  BY <1>1 DEF Serving
<1>3. /\ cur \in Clients /\ rio \in Seq(Lines) /\ out[cur] = <<>>
      /\ asked[cur] # <<>> /\ ~Refused(cur) /\ inbox[cur] = <<>> /\ NoMore(cur)
  BY <1>1, <1>2, Served DEF TInv, ReadInv, SendInv
<1>4. asked[cur][1] \in {"static", "cgi"}
  BY <1>2, <1>3, Served DEF Shaped, Methods, Refused
<1>5. pc' \in {"error", "static", "cgi"} /\ pc' \in Serving /\ todo' \in Seq(Parts)
  BY <1>1, <1>4, AnswerParts DEF Serving
<1>6. TypeInv' /\ SentInv' /\ HeldInv' /\ EndedInv'
  <2>1. pc # "map" /\ pc' # "map" /\ pc # "wait" /\ pc' # "wait"
    BY <1>1, <1>5
  <2> QED
    BY <1>1, <1>2, <1>3, <1>5, <2>1, MovesOn
<1>7. (NoMore(cur))' /\ ~(Refused(cur))'
  BY <1>1, <1>3 DEF NoMore, Refused, Finished
<1>8. ReadInv'
  BY <1>1, <1>3, <1>5, <1>7 DEF ReadInv, Refused, Rest
<1>9. SendInv'
  <2>1. out'[cur'] \o todo' = todo'
    BY <1>1, <1>3, <1>5, ConcatEmptySeq
  <2>2. CASE pc' = "error"
    <3>1. todo' \in {Error("404"), Error("403")}
      BY <1>1, <1>4, <2>2
    <3>2. asked[cur][1] # "other"
      BY <1>4
    <3> QED
      BY <1>1, <1>3, <2>1, <2>2, <3>1, <3>2 DEF SendInv, Errors
  <2>3. CASE pc' # "error"
    <3>1. pc' = asked[cur][1] /\ todo' = IF asked[cur][1] = "static" THEN StaticHead ELSE CgiHead
      BY <1>1, <2>3
    <3> QED
      BY <1>1, <1>4, <2>1, <3>1 DEF SendInv
  <2> QED
    BY <2>2, <2>3
<1> QED
  BY <1>6, <1>8, <1>9 DEF TInv

LEMMA WritePartInv ==
  ASSUME TInv, WritePart
  PROVE  TInv'
<1>1. /\ pc \in {"error", "static", "cgi"} /\ todo # <<>> /\ todo' = Tail(todo)
      /\ out' = [out EXCEPT ![cur] = Append(@, Head(todo))]
      /\ UNCHANGED <<pc, cur, rio, sbuf, child, fds, file, conn, client, asked, inbox>>
  BY DEF WritePart
<1>2. pc \in Serving
  BY <1>1 DEF Serving
<1>3. /\ cur \in Clients /\ rio \in Seq(Lines) /\ todo \in Seq(Parts) /\ out[cur] \in Seq(Parts)
      /\ out \in [Clients -> Seq(Parts)] /\ Head(todo) \in Parts /\ Tail(todo) \in Seq(Parts)
  <2>1. todo \in Seq(Parts)
    BY <1>2, Served
  <2>2. Head(todo) \in Parts /\ Tail(todo) \in Seq(Parts)
    BY <1>1, <2>1
  <2> QED
    BY <1>2, <2>1, <2>2, Served DEF TInv, TypeInv
<1>4. TypeInv' /\ SentInv' /\ HeldInv' /\ EndedInv'
  <2>1. pc # "map" /\ pc' # "map" /\ pc # "wait" /\ pc' # "wait"
    BY <1>1
  <2> QED
    BY <1>1, <1>2, <1>3, <2>1, MovesOn
<1>5. out'[cur] \o todo' = out[cur] \o todo
  BY SMTT(60), <1>1, <1>3, MovePart
<1>6. ReadInv'
  BY <1>1 DEF TInv, ReadInv, Refused, NoMore, Finished
<1>7. SendInv'
  BY <1>1, <1>5 DEF TInv, SendInv
<1> QED
  BY <1>4, <1>6, <1>7 DEF TInv

\* Back from clienterror(), and the last write() of serve_static().
LEMMA AnsweredInv ==
  ASSUME TInv, EndError \/ WriteBody
  PROVE  TInv'
<1>1. CASE EndError
  <2>1. /\ pc = "error" /\ todo = <<>> /\ pc' = "close"
        /\ UNCHANGED <<cur, rio, todo, sbuf, child, fds, file, conn, client, asked, inbox, out>>
    BY <1>1 DEF EndError, Goto, servervars, clientvars
  <2>2. pc \in Serving /\ pc' \in Serving
    BY <2>1 DEF Serving
  <2>3. TypeInv' /\ SentInv' /\ HeldInv' /\ EndedInv'
    <3>1. pc # "map" /\ pc' # "map" /\ pc # "wait" /\ pc' # "wait" /\ rio \in Seq(Lines) /\ todo \in Seq(Parts)
      BY <2>1, <2>2, Served
    <3> QED
      BY <2>1, <2>2, <3>1, MovesOn
  <2>4. ReadInv'
    BY <2>1 DEF TInv, ReadInv, Refused, NoMore, Finished
  <2>5. SendInv'
    <3>1. out[cur] \in Seq(Parts) /\ Shaped(asked[cur])
      BY <2>2, Served
    <3>2. out[cur] \in Errors(asked[cur]) /\ asked[cur] # <<>>
      BY <2>1, <3>1, ConcatEmptySeq DEF TInv, SendInv
    <3>3. asked[cur][1] \in {"other", "static", "cgi"}
      BY <3>1, <3>2 DEF Shaped, Methods
    <3>4. out[cur] \in Answers(asked[cur])
      BY <3>2, <3>3, AnswersAre
    <3>5. (Answers(asked[cur]))' = Answers(asked[cur])
      BY <2>1 DEF Answers
    <3> QED
      BY <2>1, <3>4, <3>5 DEF SendInv
  <2> QED
    BY <2>3, <2>4, <2>5 DEF TInv
<1>2. CASE WriteBody /\ pc' = "exit"
  <2>1. pc = "body" /\ Exit
    BY <1>2 DEF WriteBody, Exit, Goto, clientvars
  <2> QED
    BY <2>1, ExitInv
<1>3. CASE WriteBody /\ pc' # "exit"
  <2>1. PICK b \in {"body", "zeros"} :
          out' = [out EXCEPT ![cur] = Append(@, b)] /\ (b = "zeros" => file # "file")
    BY <1>3 DEF WriteBody, Goto
  <2>2. /\ pc = "body" /\ pc' = "close"
        /\ UNCHANGED <<cur, rio, todo, sbuf, child, fds, file, conn, client, asked, inbox>>
    BY <1>3 DEF WriteBody, Goto, servervars
  <2>3. pc \in Serving /\ pc' \in Serving /\ todo = <<>>
    BY <2>2 DEF Serving, TInv, HeldInv
  <2>4. TypeInv' /\ SentInv' /\ HeldInv' /\ EndedInv'
    <3>1. /\ pc # "map" /\ pc' # "map" /\ pc # "wait" /\ pc' # "wait"
          /\ rio \in Seq(Lines) /\ todo \in Seq(Parts) /\ b \in Parts
      BY <2>2, <2>3, Served DEF Parts
    <3> QED
      BY <2>1, <2>2, <2>3, <3>1, MovesOn
  <2>5. ReadInv'
    BY <2>2 DEF TInv, ReadInv, Refused, NoMore, Finished
  <2>6. SendInv'
    <3>1. cur \in Clients /\ out[cur] \in Seq(Parts) /\ out \in [Clients -> Seq(Parts)]
      BY <2>3, Served DEF TInv, TypeInv
    <3>2. out[cur] = StaticHead /\ asked[cur][1] = "static" /\ asked[cur] # <<>>
      BY <2>2, <2>3, <3>1, ConcatEmptySeq DEF TInv, SendInv, ReadInv
    <3>3. out'[cur] = Append(StaticHead, b)
      BY <2>1, <3>1, <3>2
    <3>4. out'[cur] \in Answers(asked[cur])
      BY <2>1, <3>2, <3>3, AnswersAre
    <3>5. (Answers(asked[cur]))' = Answers(asked[cur])
      BY <2>2 DEF Answers
    <3> QED
      BY <2>2, <3>4, <3>5 DEF SendInv
  <2> QED
    BY <2>4, <2>5, <2>6 DEF TInv
<1> QED
  BY <1>1, <1>2, <1>3

\* Open() and the Close() after Mmap().
LEMMA FileInv ==
  ASSUME TInv, OpenFile \/ MapFile
  PROVE  TInv'
<1>1. /\ \/ pc = "static" /\ todo = <<>> /\ pc' = "map" /\ fds' = fds \cup {"srcfd"}
         \/ pc = "map" /\ pc' = "body" /\ fds' = fds \ {"srcfd"}
      /\ UNCHANGED <<cur, rio, todo, sbuf, child, file, conn, client, asked, inbox, out>>
  BY DEF OpenFile, MapFile, Goto, clientvars
<1>2. pc \in Serving /\ pc' \in Serving
  BY <1>1 DEF Serving
<1>3. SentInv' /\ EndedInv'
  <2>1. pc # "exit"
    BY <1>1
  <2> QED
    BY <1>1, <2>1, OthersKept
<1>4. TypeInv'
  BY <1>1, <1>2 DEF TInv, TypeInv, TypeOK
<1>5. HeldInv'
  <2>1. /\ \A c \in Clients : conn[c] = "open" <=> c = cur
        /\ child = "none" /\ todo = <<>>
    BY <1>1 DEF TInv, HeldInv
  <2>2. pc = "static" => fds = {"listenfd"} \cup (IF cur = NoClient THEN {} ELSE {"connfd"})
    BY DEF TInv, HeldInv
  <2>3. pc = "map" => fds = {"listenfd"} \cup (IF cur = NoClient THEN {} ELSE {"connfd"}) \cup {"srcfd"}
    BY DEF TInv, HeldInv
  <2>4. fds' = {"listenfd"} \cup (IF cur = NoClient THEN {} ELSE {"connfd"})
                \cup (IF pc' = "map" THEN {"srcfd"} ELSE {})
    BY <1>1, <2>2, <2>3
  <2>5. pc' \in {"map", "body"}
    BY <1>1
  <2> QED
    BY <1>1, <2>1, <2>4, <2>5 DEF HeldInv
<1>6. ReadInv'
  BY <1>1 DEF TInv, ReadInv, Refused, NoMore, Finished
<1>7. SendInv'
  BY <1>1 DEF TInv, SendInv
<1> QED
  BY <1>3, <1>4, <1>5, <1>6, <1>7 DEF TInv

\* fork(), the child, and Wait().
LEMMA ChildInv ==
  ASSUME TInv, pc # "exit", Fork \/ Exec \/ ExecFails \/ RunProgram \/ Wait
  PROVE  TInv'
<1>1. /\ UNCHANGED <<cur, rio, todo, sbuf, fds, file, conn, client, asked, inbox>>
      /\ \/ /\ pc = "cgi" /\ todo = <<>> /\ pc' = "wait" /\ child' = "forked" /\ out' = out
         \/ /\ child \in {"forked", "running"} /\ pc' = pc /\ child' \in {"running", "zombie"}
            /\ \/ out' = out
               \/ child' = "zombie" /\ \E p \in {"content", "log"} : out' = [out EXCEPT ![cur] = Append(@, p)]
         \/ /\ pc = "wait" /\ pc' = "close" /\ child' = "none" /\ out' = out
  BY DEF Fork, Exec, ExecFails, RunProgram, Wait, Goto, clientvars
<1>2. child # "none" <=> pc = "wait"
  BY DEF TInv, HeldInv
<1>3. pc \in {"cgi", "wait"} /\ pc' \in {"wait", "close"} /\ pc \in Serving /\ todo = <<>>
  BY <1>1, <1>2 DEF TInv, HeldInv, Serving
<1>4. cur \in Clients /\ out \in [Clients -> Seq(Parts)] /\ out[cur] \in Seq(Parts)
  BY <1>3, Served DEF TInv, TypeInv
<1>5. /\ out' \in [Clients -> Seq(Parts)]
      /\ \A c \in Clients : c # cur => out'[c] = out[c]
  <2>1. CASE out' = out
    BY <1>4, <2>1
  <2>2. ASSUME NEW p \in {"content", "log"}, out' = [out EXCEPT ![cur] = Append(@, p)]
        PROVE  /\ out' \in [Clients -> Seq(Parts)]
               /\ \A c \in Clients : c # cur => out'[c] = out[c]
    <3>1. p \in Parts
      BY DEF Parts
    <3>2. Append(out[cur], p) \in Seq(Parts)
      BY <1>4, <3>1, AppendProperties
    <3> QED
      BY <1>4, <2>2, <3>2
  <2> QED
    BY <1>1, <2>1, <2>2
<1>6. SentInv' /\ EndedInv'
  BY <1>1, <1>5, OthersKept
<1>7. TypeInv'
  <2>1. TypeOK'
    BY <1>1, <1>3 DEF TInv, TypeInv, TypeOK
  <2> QED
    BY <1>1, <1>5, <2>1 DEF TInv, TypeInv
<1>8. HeldInv'
  <2>1. child' # "none" <=> pc' = "wait"
    BY <1>1, <1>2, <1>3
  <2> QED
    BY <1>1, <1>3, <2>1 DEF TInv, HeldInv
<1>9. ReadInv'
  BY <1>1, <1>3 DEF TInv, ReadInv, Refused, NoMore, Finished
<1>10. SendInv'
  <2>1. asked[cur][1] = "cgi" /\ asked[cur] # <<>>
    BY <1>3 DEF TInv, SendInv, ReadInv
  <2>2. CASE pc = "cgi"
    <3>1. pc' = "wait" /\ out'[cur'] = CgiHead
      BY <1>1, <1>2, <1>4, <2>2, ConcatEmptySeq DEF TInv, SendInv
    <3> QED
      BY <1>1, <2>1, <3>1 DEF SendInv
  <2>3. CASE pc = "wait" /\ pc' = "wait"
    <3>1. child \in {"forked", "running"} /\ out[cur] = CgiHead
      BY <1>1, <1>2, <2>3 DEF TInv, SendInv
    <3>2. CASE out' = out
      BY <1>1, <2>1, <2>3, <3>1, <3>2 DEF SendInv
    <3>3. ASSUME NEW p \in {"content", "log"}, out' = [out EXCEPT ![cur] = Append(@, p)], child' = "zombie"
          PROVE  SendInv'
      <4>1. out'[cur'] = Append(CgiHead, p)
        BY <1>1, <1>4, <3>1, <3>3
      <4> QED
        BY <1>1, <2>1, <2>3, <3>3, <4>1 DEF SendInv
    <3> QED
      BY <1>1, <2>3, <3>1, <3>2, <3>3
  <2>4. CASE pc = "wait" /\ pc' = "close"
    <3>1. out' = out
      BY <1>1, <2>4
    <3>2. out[cur] \in {CgiHead, Append(CgiHead, "content"), Append(CgiHead, "log")}
      BY <2>4 DEF TInv, SendInv
    <3>3. out[cur] \in Answers(asked[cur])
      BY <2>1, <3>2, AnswersAre
    <3>4. (Answers(asked[cur]))' = Answers(asked[cur])
      BY <1>1 DEF Answers
    <3> QED
      BY <1>1, <2>4, <3>1, <3>3, <3>4 DEF SendInv
  <2> QED
    BY <1>3, <2>2, <2>3, <2>4
<1> QED
  BY <1>6, <1>7, <1>8, <1>9, <1>10 DEF TInv

\* Close(connfd): what was sent is a whole answer.
LEMMA CloseInv ==
  ASSUME TInv, Close
  PROVE  TInv'
<1>1. /\ pc = "close" /\ pc' = "accept" /\ fds' = fds \ {"connfd"} /\ cur' = NoClient
      /\ conn' = [conn EXCEPT ![cur] = IF inbox[cur] = <<>> THEN "eof" ELSE "reset"]
      /\ UNCHANGED <<rio, todo, sbuf, child, file, client, asked, inbox, out>>
  BY DEF Close, Goto
<1>2. pc \in Serving
  BY <1>1 DEF Serving
<1>3. cur \in Clients /\ cur # NoClient /\ conn[cur] = "open"
  BY <1>2, Served
<1>4. conn \in [Clients -> {"new", "queued", "open", "eof", "reset"}]
  BY DEF TInv, TypeInv, TypeOK
<1>5. /\ conn'[cur] = IF inbox[cur] = <<>> THEN "eof" ELSE "reset"
      /\ \A c \in Clients : c # cur => conn'[c] = conn[c]
      /\ conn' \in [Clients -> {"new", "queued", "open", "eof", "reset"}]
  BY <1>1, <1>3, <1>4
<1>6. /\ out[cur] \in Answers(asked[cur])
      /\ Refused(cur) \/ (inbox[cur] = <<>> /\ NoMore(cur))
  BY <1>1 DEF TInv, SendInv, ReadInv
<1>7. TypeInv'
  BY <1>1, <1>5 DEF TInv, TypeInv, TypeOK
<1>8. SentInv'
  <2>1. \A c \in Clients : conn'[c] \in {"new", "queued"} => conn[c] = conn'[c]
    BY <1>5
  <2> QED
    BY <1>1, <2>1 DEF TInv, SentInv
<1>9. HeldInv'
  <2>1. /\ \A c \in Clients : conn[c] = "open" <=> c = cur
        /\ fds = {"listenfd", "connfd"} /\ child = "none" /\ todo = <<>>
    BY <1>1, <1>3 DEF TInv, HeldInv
  <2>2. \A c \in Clients : conn'[c] # "open" /\ c # NoClient
    BY <1>5, <2>1
  <2> QED
    BY <1>1, <2>1, <2>2 DEF HeldInv
<1>10. ReadInv' /\ SendInv'
  BY <1>1 DEF ReadInv, SendInv
<1>11. EndedInv'
  <2>1. ASSUME NEW c \in Clients
        PROVE  /\ (Answers(asked[c]))' = Answers(asked[c])
               /\ (Refused(c))' = Refused(c) /\ (NoMore(c))' = NoMore(c)
    BY <1>1 DEF Answers, Refused, NoMore, Finished
  <2>2. ASSUME NEW c \in Clients
        PROVE  /\ conn'[c] = "eof" => out[c] \in Answers(asked[c]) /\ (Refused(c) \/ NoMore(c))
               /\ conn'[c] = "reset" => Refused(c)
    <3>1. CASE c = cur
      BY <1>5, <1>6, <3>1
    <3>2. CASE c # cur
      BY <1>5, <3>2 DEF TInv, EndedInv
    <3> QED
      BY <3>1, <3>2
  <2> QED
    BY <1>1, <2>1, <2>2 DEF EndedInv
<1> QED
  BY <1>7, <1>8, <1>9, <1>10, <1>11 DEF TInv

-----------------------------------------------------------------------------
(* What the clients do, and what becomes of the file.                        *)

LEMMA ConnectInv ==
  ASSUME TInv, pc # "exit", NEW c \in Clients, Connect(c)
  PROVE  TInv'
<1>1. /\ conn[c] = "new" /\ conn' = [conn EXCEPT ![c] = "queued"]
      /\ UNCHANGED <<pc, cur, rio, todo, sbuf, child, fds, file, client, asked, inbox, out>>
  BY DEF Connect, servervars
<1>2. /\ conn'[c] = "queued" /\ \A d \in Clients : d # c => conn'[d] = conn[d]
      /\ conn' \in [Clients -> {"new", "queued", "open", "eof", "reset"}]
  BY <1>1 DEF TInv, TypeInv, TypeOK
<1>3. TypeInv'
  BY <1>1, <1>2 DEF TInv, TypeInv, TypeOK
<1>4. SentInv'
  BY <1>1, <1>2 DEF TInv, SentInv
<1>5. HeldInv'
  <2>1. \A d \in Clients : conn'[d] = "open" <=> conn[d] = "open"
    BY <1>1, <1>2
  <2> QED
    BY <1>1, <2>1 DEF TInv, HeldInv
<1>6. ReadInv'
  BY <1>1 DEF TInv, ReadInv, Refused, NoMore, Finished, Rest
<1>7. SendInv'
  <2>1. (Answers(asked[cur]))' = Answers(asked[cur])
    BY <1>1 DEF Answers
  <2> QED
    BY <1>1, <2>1 DEF TInv, SendInv
<1>8. EndedInv'
  <2>1. ASSUME NEW d \in Clients
        PROVE  /\ (Answers(asked[d]))' = Answers(asked[d])
               /\ (Refused(d))' = Refused(d) /\ (NoMore(d))' = NoMore(d)
               /\ conn'[d] \in {"eof", "reset"} => conn'[d] = conn[d]
    BY <1>1, <1>2 DEF Answers, Refused, NoMore, Finished
  <2> QED
    BY <1>1, <2>1 DEF TInv, EndedInv
<1> QED
  BY <1>3, <1>4, <1>5, <1>6, <1>7, <1>8 DEF TInv

LEMMA LeaveInv ==
  ASSUME TInv, pc # "exit", NEW c \in Clients, NEW how \in {"shut", "gone"}, Leave(c, how)
  PROVE  TInv'
<1>1. /\ client' = [client EXCEPT ![c] = how]
      /\ UNCHANGED <<pc, cur, rio, todo, sbuf, child, fds, file, conn, asked, inbox, out>>
  BY DEF Leave, servervars
<1>2. /\ client'[c] = how /\ \A d \in Clients : d # c => client'[d] = client[d]
      /\ client' \in [Clients -> {"open", "shut", "gone"}]
  BY <1>1 DEF TInv, TypeInv, TypeOK
<1>3. TypeInv'
  BY <1>1, <1>2 DEF TInv, TypeInv, TypeOK
<1>4. SentInv' /\ HeldInv'
  BY <1>1 DEF TInv, SentInv, HeldInv
<1>5. ASSUME NEW d \in Clients
      PROVE  /\ (Answers(asked[d]))' = Answers(asked[d])
             /\ (Refused(d))' = Refused(d) /\ (NoMore(d) => (NoMore(d))')
  <2>1. client[d] # "open" => client'[d] # "open"
    BY <1>2
  <2> QED
    BY <1>1, <2>1 DEF Answers, Refused, NoMore, Finished
<1>6. cur \in Clients \/ pc \in {"start", "accept", "exit"}
  BY DEF TInv, TypeInv, TypeOK
<1>7. ReadInv'
  <2>1. CASE cur \in Clients
    <3>1. (Refused(cur))' = Refused(cur) /\ (NoMore(cur) => (NoMore(cur))')
      BY <1>1, <1>2, <2>1 DEF Refused, NoMore, Finished
    <3> QED
      BY <1>1, <3>1 DEF TInv, ReadInv, Rest
  <2>2. CASE pc \in {"start", "accept", "exit"}
    BY <1>1, <2>2 DEF ReadInv
  <2> QED
    BY <1>6, <2>1, <2>2
<1>8. SendInv'
  <2>1. CASE cur \in Clients
    BY <1>1, <1>5, <2>1 DEF TInv, SendInv
  <2>2. CASE pc \in {"start", "accept", "exit"}
    BY <1>1, <2>2 DEF SendInv
  <2> QED
    BY <1>6, <2>1, <2>2
<1>9. EndedInv'
  BY <1>1, <1>5 DEF TInv, EndedInv
<1> QED
  BY <1>3, <1>4, <1>7, <1>8, <1>9 DEF TInv

LEMMA FileChangesInv ==
  ASSUME TInv, pc # "exit", FileChanges
  PROVE  TInv'
<1>1. /\ file' \in {"none", "empty"}
      /\ UNCHANGED <<pc, cur, rio, todo, sbuf, child, fds, conn, client, asked, inbox, out>>
  BY DEF FileChanges, servervars, clientvars
<1>2. TypeInv'
  BY <1>1 DEF TInv, TypeInv, TypeOK
<1>3. SentInv' /\ HeldInv'
  BY <1>1 DEF TInv, SentInv, HeldInv
<1>4. ASSUME NEW d \in Clients PROVE Answers(asked[d]) \subseteq (Answers(asked[d]))'
  <2>1. asked[d] # <<>> => asked[d][1] \in Methods
    BY DEF TInv, SentInv, Shaped
  <2> QED
    BY <1>1, <2>1, AnswersStay
<1>5. ReadInv'
  BY <1>1 DEF TInv, ReadInv, Refused, NoMore, Finished, Rest
<1>6. SendInv'
  <2>1. cur \in Clients \/ pc # "close"
    BY DEF TInv, TypeInv, TypeOK
  <2> QED
    BY <1>1, <1>4, <2>1 DEF TInv, SendInv
<1>7. EndedInv'
  BY <1>1, <1>4 DEF TInv, EndedInv, Refused, NoMore, Finished
<1> QED
  BY <1>2, <1>3, <1>5, <1>6, <1>7 DEF TInv

\* One more line: the shape of a request is kept.
LEMMA ShapedAppend ==
  ASSUME NEW s \in Seq(Lines), Shaped(s), NEW l \in Lines, s = <<>> <=> l \in Methods,
         ~(s # <<>> /\ s[Len(s)] = "blank")
  PROVE  /\ Shaped(Append(s, l)) /\ Append(s, l) \in Seq(Lines) /\ Append(s, l) # <<>>
         /\ Len(Append(s, l)) = Len(s) + 1
         /\ s # <<>> => Append(s, l)[1] = s[1]
<1>1. Len(s) \in Nat /\ (s # <<>> => Len(s) > 0) /\ (s = <<>> => Len(s) = 0)
  BY EmptySeq
<1>2. /\ Append(s, l) \in Seq(Lines) /\ Append(s, l) # <<>> /\ Len(Append(s, l)) = Len(s) + 1
      /\ \A i \in 1 .. Len(s) : Append(s, l)[i] = s[i]
      /\ Append(s, l)[Len(s) + 1] = l
  BY AppendProperties
<1>3. s # <<>> => Append(s, l)[1] = s[1]
  BY <1>1, <1>2
<1>4. Append(s, l)[1] \in Methods
  <2>1. CASE s = <<>>
    BY <1>1, <1>2, <2>1
  <2>2. CASE s # <<>>
    BY <1>3, <2>2 DEF Shaped
  <2> QED
    BY <2>1, <2>2
<1>5. ASSUME NEW k \in 1 .. Len(s) + 1
      PROVE  /\ k > 1 => Append(s, l)[k] \notin Methods
             /\ k < Len(s) + 1 => Append(s, l)[k] # "blank"
  <2>1. CASE k = Len(s) + 1
    <3>1. k > 1 => s # <<>>
      BY <1>1, <2>1
    <3> QED
      BY <1>1, <1>2, <2>1, <3>1
  <2>2. CASE k # Len(s) + 1
    <3>1. k \in 1 .. Len(s) /\ Append(s, l)[k] = s[k]
      BY <1>1, <1>2, <2>2
    <3>2. k > 1 => s[k] \notin Methods
      BY <3>1 DEF Shaped
    <3>3. s[k] # "blank"
      <4>1. CASE k = Len(s)
        BY <1>1, <3>1, <4>1
      <4>2. CASE k # Len(s)
        BY <1>1, <3>1, <4>2 DEF Shaped
      <4> QED
        BY <4>1, <4>2
    <3> QED
      BY <3>1, <3>2, <3>3
  <2> QED
    BY <2>1, <2>2
<1> QED
  BY <1>2, <1>3, <1>4, <1>5 DEF Shaped

LEMMA SendLineInv ==
  ASSUME TInv, pc # "exit", NEW c \in Clients, NEW l \in Lines, SendLine(c, l)
  PROVE  TInv'
<1>1. /\ conn[c] \in {"queued", "open", "eof"} /\ client[c] = "open" /\ ~Finished(c)
      /\ Len(asked[c]) < MaxHeaders + 2 /\ (asked[c] = <<>> <=> l \in Methods)
      /\ asked' = [asked EXCEPT ![c] = Append(@, l)]
      /\ \/ /\ conn[c] = "eof" /\ conn' = [conn EXCEPT ![c] = "reset"] /\ inbox' = inbox
         \/ /\ conn[c] # "eof" /\ conn' = conn /\ inbox' = [inbox EXCEPT ![c] = Append(@, l)]
      /\ UNCHANGED <<pc, cur, rio, todo, sbuf, child, fds, file, client, out>>
  BY DEF SendLine, servervars
<1>2. /\ asked \in [Clients -> Seq(Lines)] /\ inbox \in [Clients -> Seq(Lines)]
      /\ conn \in [Clients -> {"new", "queued", "open", "eof", "reset"}]
      /\ rio \in Seq(Lines) /\ Shaped(asked[c])
      /\ Len(inbox[c]) <= Len(asked[c])
  BY DEF TInv, TypeInv, TypeOK, SentInv
<1>3. /\ Shaped(asked'[c]) /\ asked'[c] \in Seq(Lines) /\ asked'[c] # <<>>
      /\ Len(asked'[c]) = Len(asked[c]) + 1
      /\ asked[c] # <<>> => asked'[c][1] = asked[c][1]
      /\ asked'[c] = Append(asked[c], l)
  BY <1>1, <1>2, ShapedAppend DEF Finished
<1>4. /\ asked' \in [Clients -> Seq(Lines)] /\ \A d \in Clients : d # c => asked'[d] = asked[d]
  BY <1>1, <1>2, <1>3
<1>5. /\ inbox' \in [Clients -> Seq(Lines)] /\ \A d \in Clients : d # c => inbox'[d] = inbox[d]
      /\ conn[c] # "eof" => inbox'[c] = Append(inbox[c], l)
      /\ Len(inbox'[c]) <= Len(inbox[c]) + 1
  <2>1. /\ Append(inbox[c], l) \in Seq(Lines) /\ Len(Append(inbox[c], l)) = Len(inbox[c]) + 1
        /\ Len(inbox[c]) \in Nat
    BY <1>2, AppendProperties
  <2>2. CASE inbox' = inbox /\ conn[c] = "eof"
    BY <1>2, <2>1, <2>2
  <2>3. CASE inbox' = [inbox EXCEPT ![c] = Append(@, l)]
    BY <1>2, <2>1, <2>3
  <2> QED
    BY <1>1, <2>2, <2>3
<1>6. /\ conn' \in [Clients -> {"new", "queued", "open", "eof", "reset"}]
      /\ \A d \in Clients : d # c => conn'[d] = conn[d]
      /\ conn[c] = "eof" => conn'[c] = "reset"
      /\ conn[c] # "eof" => conn'[c] = conn[c]
  BY <1>1, <1>2
<1>7. TypeInv'
  <2>1. ASSUME NEW d \in Clients
        PROVE  Len(asked'[d]) <= MaxHeaders + 2 /\ Len(inbox'[d]) <= Len(asked'[d])
    <3>1. Len(asked[d]) <= MaxHeaders + 2 /\ Len(inbox[d]) <= Len(asked[d])
      BY DEF TInv, TypeInv, TypeOK
    <3>2. Len(asked[c]) \in Nat /\ Len(inbox[c]) \in Nat /\ Len(inbox'[c]) \in Nat
      BY <1>2, <1>5
    <3>3. CASE d = c
      BY <1>1, <1>2, <1>3, <1>5, <3>2, <3>3
    <3>4. CASE d # c
      BY <1>4, <1>5, <3>1, <3>4
    <3> QED
      BY <3>3, <3>4
  <2>2. TypeOK'
    BY <1>1, <1>6, <2>1 DEF TInv, TypeInv, TypeOK
  <2> QED
    BY <1>1, <1>4, <1>5, <2>2 DEF TInv, TypeInv
<1>8. SentInv'
  <2> SUFFICES ASSUME NEW d \in Clients
               PROVE  /\ Shaped(asked'[d])
                      /\ conn'[d] = "new" => asked'[d] = <<>>
                      /\ conn'[d] \in {"new", "queued"} => inbox'[d] = asked'[d] /\ out'[d] = <<>>
    BY DEF SentInv
  <2>1. CASE d = c
    <3>1. conn'[c] = "queued" => inbox[c] = asked[c] /\ out[c] = <<>>
      BY <1>1, <1>6 DEF TInv, SentInv
    <3> QED
      BY <1>1, <1>3, <1>5, <1>6, <2>1, <3>1
  <2>2. CASE d # c
    BY <1>1, <1>4, <1>5, <1>6, <2>2 DEF TInv, SentInv
  <2> QED
    BY <2>1, <2>2
<1>9. HeldInv'
  <2>1. \A d \in Clients : conn'[d] = "open" <=> conn[d] = "open"
    BY <1>6
  <2> QED
    BY <1>1, <2>1 DEF TInv, HeldInv
<1>10. ~NoMore(c)
  BY <1>1 DEF NoMore
<1>11. Refused(c) => (Refused(c))'
  BY <1>3 DEF Refused
<1>12. asked[c] # <<>> => ((Refused(c))' = Refused(c) /\ Answers(asked[c]) \subseteq (Answers(asked[c]))')
  <2>1. asked[c] # <<>> => asked[c][1] \in Methods
    BY <1>2 DEF Shaped
  <2> QED
    BY <1>1, <1>3, <2>1, AnswersStay DEF Refused
<1>13. ReadInv' /\ SendInv'
  <2>1. CASE c # cur \/ pc \notin Serving
    <3>1. pc \in Serving => cur \in Clients
      BY Served
    <3>2. pc \in Serving =>
            /\ UNCHANGED <<asked[cur], inbox[cur]>>
            /\ Answers(asked[cur]) \subseteq (Answers(asked[cur]))'
            /\ (Refused(cur))' = Refused(cur) /\ (NoMore(cur))' = NoMore(cur)
      <4> SUFFICES ASSUME pc \in Serving
                   PROVE  /\ UNCHANGED <<asked[cur], inbox[cur]>>
                          /\ Answers(asked[cur]) \subseteq (Answers(asked[cur]))'
                          /\ (Refused(cur))' = Refused(cur) /\ (NoMore(cur))' = NoMore(cur)
        OBVIOUS
      <4>1. cur' = cur /\ asked'[cur] = asked[cur] /\ inbox'[cur] = inbox[cur]
        BY <1>1, <1>4, <1>5, <2>1, <3>1
      <4>2. Answers(asked[cur]) \subseteq (Answers(asked[cur]))'
        <5>1. asked[cur] # <<>> => asked[cur][1] \in Methods
          BY <3>1 DEF TInv, SentInv, Shaped
        <5> QED
          BY <1>1, <3>1, <4>1, <5>1, AnswersStay
      <4>3. (Refused(cur))' = Refused(cur)
        BY <4>1 DEF Refused
      <4>4. (NoMore(cur))' = NoMore(cur)
        BY <1>1, <4>1 DEF NoMore, Finished
      <4> QED
        BY <4>1, <4>2, <4>3, <4>4
    <3>3. ReadInv'
      BY <1>1, <3>2 DEF TInv, ReadInv, Rest, Serving
    <3>4. SendInv'
      BY <1>1, <3>2 DEF TInv, SendInv, Serving
    <3> QED
      BY <3>3, <3>4
  <2>2. CASE c = cur /\ pc \in Serving
    <3>1. conn[c] # "eof" /\ inbox'[c] = Append(inbox[c], l) /\ rio \o inbox[c] \in Seq(Lines)
      <4>1. conn[c] = "open"
        BY <2>2, Served
      <4> QED
        BY <1>2, <1>5, <4>1, ConcatProperties
    <3>2. rio \o inbox'[c] = Append(rio \o inbox[c], l)
      <4>1. <<l>> \in Seq(Lines) /\ inbox[c] \in Seq(Lines)
        BY <1>2
      <4>2. Append(inbox[c], l) = inbox[c] \o <<l>> /\ Append(rio \o inbox[c], l) = (rio \o inbox[c]) \o <<l>>
        BY <3>1, <4>1, AppendIsConcat
      <4> QED
        BY SMTT(60), <1>2, <3>1, <4>1, <4>2, Regroup
    <3>3. pc = "request" => asked'[c] = rio \o inbox'[c]
      BY <1>3, <2>2, <3>2 DEF TInv, ReadInv
    <3>4. Rest(asked[c], rio \o inbox[c]) => Rest(asked'[c], rio \o inbox'[c])
      <4> SUFFICES ASSUME NEW u \in Seq(Lines), u # <<>>, asked[c] = u \o (rio \o inbox[c])
                   PROVE  asked'[c] = u \o (rio \o inbox'[c])
        BY DEF Rest
      <4>1. <<l>> \in Seq(Lines) /\ asked[c] \in Seq(Lines)
        BY <1>2
      <4>2. Append(rio \o inbox[c], l) = (rio \o inbox[c]) \o <<l>> /\ asked'[c] = asked[c] \o <<l>>
        BY <1>3, <3>1, <4>1, AppendIsConcat
      <4>3. (u \o (rio \o inbox[c])) \o <<l>> = u \o ((rio \o inbox[c]) \o <<l>>)
        BY <3>1, <4>1, Regroup
      <4> QED
        BY <3>2, <4>2, <4>3
    <3>5. pc \in Serving \ {"request", "firstheader", "headers"} => Refused(c)
      BY <1>10, <2>2 DEF TInv, ReadInv, Serving
    <3>6. pc \notin {"stat", "static", "cgi", "map", "body", "wait"}
      BY <2>2, <3>5 DEF TInv, ReadInv, Serving
    <3>7. ReadInv'
      BY <1>1, <1>3, <1>11, <1>12, <2>2, <3>3, <3>4, <3>5, <3>6 DEF TInv, ReadInv, Serving
    <3>8. SendInv'
      <4>1. pc = "error" => Errors(asked'[c]) = Errors(asked[c])
        BY <1>3, <2>2 DEF TInv, SendInv, Errors
      <4>2. pc = "close" => asked[c] # <<>>
        BY <3>5 DEF Refused, Serving
      <4> QED
        BY <1>1, <1>3, <1>12, <2>2, <3>6, <4>1, <4>2 DEF TInv, SendInv
    <3> QED
      BY <3>7, <3>8
  <2> QED
    BY <2>1, <2>2
<1>14. EndedInv'
  <2> SUFFICES ASSUME NEW d \in Clients
               PROVE  /\ conn'[d] = "eof" => out'[d] \in (Answers(asked[d]))' /\ (Refused(d) \/ NoMore(d))'
                      /\ conn'[d] = "reset" => (Refused(d))'
    BY DEF EndedInv
  <2>1. CASE d = c
    BY <1>6, <1>1, <1>10, <1>11, <2>1 DEF TInv, EndedInv
  <2>2. CASE d # c
    <3>1. /\ Answers(asked[d]) \subseteq (Answers(asked[d]))'
          /\ (Refused(d))' = Refused(d) /\ (NoMore(d))' = NoMore(d)
      <4>1. asked'[d] = asked[d]
        BY <1>4, <2>2
      <4>2. Answers(asked[d]) \subseteq (Answers(asked[d]))'
        <5>1. asked[d] # <<>> => asked[d][1] \in Methods
          BY DEF TInv, SentInv, Shaped
        <5> QED
          BY <1>1, <4>1, <5>1, AnswersStay
      <4>3. (Refused(d))' = Refused(d)
        BY <4>1 DEF Refused
      <4>4. (NoMore(d))' = NoMore(d)
        BY <1>1, <4>1 DEF NoMore, Finished
      <4> QED
        BY <4>2, <4>3, <4>4
    <3> QED
      BY <1>1, <1>6, <2>2, <3>1 DEF TInv, EndedInv
  <2> QED
    BY <2>1, <2>2
<1> QED
  BY <1>7, <1>8, <1>9, <1>13, <1>14 DEF TInv

LEMMA NextInv == TInv /\ [Next]_vars => TInv'
<1> SUFFICES ASSUME TInv, [Next]_vars PROVE TInv'
  OBVIOUS
<1>1. CASE UNCHANGED vars
  <2>1. UNCHANGED <<pc, cur, rio, todo, sbuf, child, fds, file, conn, client, asked, inbox, out>>
    BY <1>1 DEF vars, servervars, clientvars
  <2>2. TypeInv' /\ SentInv' /\ HeldInv'
    BY <2>1 DEF TInv, TypeInv, TypeOK, SentInv, HeldInv
  <2>3. ReadInv' /\ EndedInv'
    BY <2>1 DEF TInv, ReadInv, EndedInv, Answers, Refused, NoMore, Finished, Rest
  <2>4. SendInv'
    BY <2>1 DEF TInv, SendInv, Answers
  <2> QED
    BY <2>2, <2>3, <2>4 DEF TInv
<1>2. CASE pc # "exit" /\ Environment
  BY <1>2, FileChangesInv, ConnectInv, SendLineInv, LeaveInv DEF Environment, Lines
<1>3. CASE pc # "exit" /\ (ListenFails \/ AcceptFails \/ ReadError \/ WriteError \/ OpenFails \/ MapFails \/ ForkFails)
  BY <1>3, ExitInv DEF ListenFails, AcceptFails, ReadError, WriteError, OpenFails, MapFails, ForkFails
<1>4. CASE Listen \/ (\E c \in Clients : Accept(c))
  BY <1>4, AcceptingInv
<1>5. CASE Refill \/ ReadRequestLine \/ ReadHeader \/ NoRequest \/ SpinAtEnd
  BY <1>5, RefillInv, ReadRequestLineInv, ReadHeaderInv, AtEndInv
<1>6. CASE Stat \/ WritePart \/ EndError \/ WriteBody \/ OpenFile \/ MapFile
  BY <1>6, StatInv, WritePartInv, AnsweredInv, FileInv
<1>7. CASE pc # "exit" /\ (Fork \/ Exec \/ ExecFails \/ RunProgram \/ Wait)
  BY <1>7, ChildInv
<1>8. CASE Close
  BY <1>8, CloseInv
<1> QED
  BY <1>1, <1>2, <1>3, <1>4, <1>5, <1>6, <1>7, <1>8 DEF Next, Server

\* The invariant holds in every state of Tiny and its clients.
THEOREM Invariance == Spec => []TInv
BY InitInv, NextInv, PTL DEF Spec

\* Tiny has a connection exactly while it serves one (tiny.c:35-43).
THEOREM TypeCorrect == Spec => []TypeOK
<1>1. TInv => TypeOK
  BY DEF TInv, TypeInv
<1> QED
  BY <1>1, Invariance, PTL

\* Whichever way doit() came back, main() goes on with the listening descriptor alone, without a
\* child that nobody waited for and without a part of an answer (tiny.c:35-43, 160-220).
THEOREM NothingLeftCorrect == Spec => []NothingLeft
<1>1. TInv => NothingLeft
  BY DEF TInv, HeldInv, TypeInv, TypeOK, NothingLeft
<1> QED
  BY <1>1, Invariance, PTL

\* A connection that ends has carried one whole answer to its own request, of any length and
\* however many clients there are; a reset can only follow a refused method (tiny.c:48-90).
THEOREM AnswersCorrect == Spec => []AnswerWhole
<1>1. TInv => AnswerWhole
  BY DEF TInv, EndedInv, AnswerWhole, Refused
<1> QED
  BY <1>1, Invariance, PTL

=============================================================================
