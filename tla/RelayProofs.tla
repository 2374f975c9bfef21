---------------------------- MODULE RelayProofs ----------------------------
(***************************************************************************)
(* Proofs about the relay loop of doit(), for an answer of any length, any *)
(* sizes of the buffers, and whatever counts read() and write() return.    *)
(***************************************************************************)
EXTENDS Relay, Extrema, SequenceTheorems, TLAPS

USE BytesAssumption, SizesAssumption, BoundsAssumption
    DEF BytesAssumption, SizesAssumption, BoundsAssumption

-----------------------------------------------------------------------------
(* The inductive invariant.                                                  *)

\* The bytes of line that rio_readlineb() has not returned yet.
Unreturned == IF pc = "write" \/ left # <<>> THEN <<>> ELSE line

\* There is no origin while the request is read, no answer until it has the whole request,
\* and nothing is relayed until the request was sent.
AskedInv ==
  /\ requested \in BOOLEAN
  /\ ~requested => answer = <<>> /\ arrived = <<>>
  /\ pc \in {"request", "headers", "connect"} => origin = "none"
  /\ pc \in {"request", "headers", "connect", "send"} =>
       /\ ~requested /\ rio_buf = <<>> /\ line = <<>> /\ left = <<>> /\ toClient = <<>>
       /\ buf = <<>> /\ cache_size = 0 /\ stored = <<>>

\* A line that is being read has neither its newline nor all the bytes message can take, and
\* doit() goes on only when write() has taken all of a line.
LineInv ==
  /\ pc = "line" => Len(line) < MAXLINE - 1 /\ \A k \in 1 .. Len(line) : line[k] # Newline
  /\ left # <<>> => pc \in {"write", "exit"}
  /\ pc \in {"store", "done"} => line = <<>>

\* The end is seen only after the last byte.
EndInv ==
  /\ pc = "store" \/ stored # <<>> => origin = "closed" /\ arrived = <<>> /\ rio_buf = <<>>
  /\ stored # <<>> => pc = "done" /\ stored = <<buf, cache_size>>

\* Every byte the origin has sent is in one place, and the places are in order.
FlowInv == toClient \o left \o Unreturned \o rio_buf \o arrived = answer

\* What is kept for the cache is what the client is sent, one line behind.
SizeInv ==
  pc # "exit" =>
    cache_size + (IF pc = "write" THEN Len(line) ELSE 0) = Len(toClient) + Len(left)
KeptInv ==
  pc \in {"line", "write", "store", "done"} /\ Nul \notin {answer[k] : k \in 1 .. Len(answer)} =>
    buf \o (IF pc = "write" THEN line ELSE <<>>) = toClient \o left

RInv == TypeOK /\ AskedInv /\ LineInv /\ EndInv /\ FlowInv /\ SizeInv /\ KeptInv

-----------------------------------------------------------------------------
(* Sequences of bytes.                                                       *)

LEMMA Cut ==
  ASSUME NEW S, NEW s \in Seq(S), NEW n \in 0 .. Len(s)
  PROVE  /\ SubSeq(s, 1, n) \in Seq(S) /\ Len(SubSeq(s, 1, n)) = n
         /\ SubSeq(s, n + 1, Len(s)) \in Seq(S) /\ Len(SubSeq(s, n + 1, Len(s))) = Len(s) - n
         /\ \A k \in 1 .. n : SubSeq(s, 1, n)[k] = s[k]
         /\ SubSeq(s, 1, n) \o SubSeq(s, n + 1, Len(s)) = s
<1>1. Len(s) \in Nat /\ \A k \in 1 .. Len(s) : s[k] \in S
  OBVIOUS
<1>2. /\ SubSeq(s, 1, n) \in Seq(S) /\ Len(SubSeq(s, 1, n)) = n
      /\ \A k \in 1 .. n : SubSeq(s, 1, n)[k] = s[k]
  BY <1>1, SubSeqProperties
<1>3. SubSeq(s, n + 1, Len(s)) \in Seq(S) /\ Len(SubSeq(s, n + 1, Len(s))) = Len(s) - n
  BY <1>1, SubSeqProperties
<1>4. SubSeq(s, 1, n) \o SubSeq(s, n + 1, Len(s)) = SubSeq(s, 1, Len(s))
  <2>1. /\ 1 \in 1 .. Len(s) + 1 /\ n \in 1 - 1 .. Len(s) /\ Len(s) \in n .. Len(s)
    BY <1>1
  <2> QED
    BY <2>1, ConcatAdjacentSubSeq
<1> QED
  BY <1>2, <1>3, <1>4, SubSeqFull

LEMMA Regroup ==
  \A a, b, c \in Seq(Bytes) : (a \o b) \o c = a \o (b \o c)
<1> TAKE a, b, c \in Seq(Bytes)
<1> QED
  BY SMTT(60), ConcatAssociative

Values(s) == {s[k] : k \in 1 .. Len(s)}

LEMMA ValuesOfConcat ==
  ASSUME NEW S, NEW s \in Seq(S), NEW t \in Seq(S)
  PROVE  Values(s) \subseteq Values(s \o t) /\ Values(t) \subseteq Values(s \o t)
<1>1. /\ Len(s) \in Nat /\ Len(t) \in Nat /\ Len(s \o t) = Len(s) + Len(t)
      /\ \A k \in 1 .. Len(s) + Len(t) :
           (s \o t)[k] = IF k <= Len(s) THEN s[k] ELSE t[k - Len(s)]
  BY ConcatProperties
<1>2. \A k \in 1 .. Len(s) : k \in 1 .. Len(s \o t) /\ (s \o t)[k] = s[k]
  BY <1>1
<1>3. \A k \in 1 .. Len(t) : k + Len(s) \in 1 .. Len(s \o t) /\ (s \o t)[k + Len(s)] = t[k]
  BY <1>1
<1> QED
  BY <1>2, <1>3 DEF Values

LEMMA MinOf ==
  ASSUME NEW S \in SUBSET Nat, IsFiniteSet(S), S # {}
  PROVE  Min(S) \in S /\ \A k \in S : Min(S) <= k
BY LeastExists DEF Min

\* A line ends at its newline, when message is full, or with the bytes that are there.
LEMMA LineEndIs ==
  ASSUME NEW m \in Seq(Bytes), Len(m) < MAXLINE - 1, NEW b \in Seq(Bytes), b # <<>>
  PROVE  /\ LineEnd(m, b) \in 1 .. Len(b) /\ Len(m) + LineEnd(m, b) <= MAXLINE - 1
         /\ \A k \in 1 .. LineEnd(m, b) - 1 : b[k] # Newline
<1> DEFINE N == {k \in 1 .. Len(b) : b[k] = Newline}
           room == MAXLINE - 1 - Len(m)
           S == N \cup {room, Len(b)}
<1>1. Len(b) \in Nat \ {0} /\ Len(m) \in Nat /\ room \in Nat \ {0} /\ N \in SUBSET (1 .. Len(b))
  OBVIOUS
<1>2. IsFiniteSet(S)
  <2>1. IsFiniteSet(1 .. Len(b))
    BY <1>1, FS_Interval
  <2>2. IsFiniteSet(N)
    BY <1>1, <2>1, FS_Subset
  <2>3. IsFiniteSet(N \cup {room})
    BY <2>2, FS_AddElement
  <2>4. S = (N \cup {room}) \cup {Len(b)}
    OBVIOUS
  <2> HIDE DEF S, N
  <2> QED
    BY <2>3, <2>4, FS_AddElement
<1>3. S \in SUBSET Nat /\ S # {} /\ room \in S /\ Len(b) \in S
  BY <1>1
<1>4. LineEnd(m, b) = Min(S)
  BY DEF LineEnd
<1>5. Min(S) \in S /\ \A k \in S : Min(S) <= k
  <2> HIDE DEF S
  <2> QED
    BY <1>2, <1>3, MinOf
<1>6. \A k \in 1 .. Len(b) : b[k] = Newline => k \in S
  OBVIOUS
<1>7. Min(S) \in 1 .. Len(b) /\ Min(S) <= room
  BY <1>1, <1>3, <1>5
<1>8. \A k \in 1 .. Min(S) - 1 : b[k] # Newline
  <2> HIDE DEF S
  <2> QED
    BY <1>1, <1>5, <1>6, <1>7
<1> QED
  BY <1>1, <1>4, <1>7, <1>8

\* strcat() copies a line up to its first Nul, all of it when there is none.
LEMMA CStringIs ==
  ASSUME NEW s \in Seq(Bytes)
  PROVE  /\ CString(s) \in Seq(Bytes \ {Nul})
         /\ Nul \notin Values(s) => CString(s) = s
<1> DEFINE N == {k \in 1 .. Len(s) : s[k] = Nul}
           S == N \cup {Len(s) + 1}
<1>1. Len(s) \in Nat /\ N \in SUBSET (1 .. Len(s)) /\ \A k \in 1 .. Len(s) : s[k] \in Bytes
  OBVIOUS
<1>2. IsFiniteSet(S)
  <2>1. IsFiniteSet(1 .. Len(s))
    BY <1>1, FS_Interval
  <2>2. IsFiniteSet(N)
    BY <1>1, <2>1, FS_Subset
  <2> QED
    BY <2>2, FS_AddElement
<1>3. S \in SUBSET Nat /\ S # {} /\ Len(s) + 1 \in S /\ \A k \in S : k \in 1 .. Len(s) + 1
  BY <1>1
<1>4. CString(s) = SubSeq(s, 1, Min(S) - 1)
  BY DEF CString
<1>5. Min(S) \in S /\ \A k \in S : Min(S) <= k
  <2> HIDE DEF S
  <2> QED
    BY <1>2, <1>3, MinOf
<1>6. \A k \in 1 .. Len(s) : s[k] = Nul => k \in S
  OBVIOUS
<1>7. Min(S) - 1 \in Int /\ \A k \in 1 .. Min(S) - 1 : s[k] \in Bytes \ {Nul}
  <2> HIDE DEF S
  <2>1. Min(S) \in 1 .. Len(s) + 1
    BY <1>3, <1>5
  <2>2. \A k \in 1 .. Min(S) - 1 : k \in 1 .. Len(s) /\ k \notin S
    BY <1>1, <1>3, <1>5, <2>1
  <2> QED
    BY <1>1, <1>6, <2>1, <2>2
<1>8. CString(s) \in Seq(Bytes \ {Nul})
  <2> HIDE DEF S
  <2>1. SubSeq(s, 1, Min(S) - 1) \in Seq(Bytes \ {Nul})
    BY <1>7, SubSeqProperties
  <2> QED
    BY <1>4, <2>1
<1>9. ASSUME Nul \notin Values(s) PROVE CString(s) = s
  <2>1. N = {}
    BY <1>9 DEF Values
  <2>2. Min(S) = Len(s) + 1
    BY <1>5, <2>1
  <2> QED
    BY <1>1, <1>4, <2>2, SubSeqFull
<1> QED
  BY <1>8, <1>9

-----------------------------------------------------------------------------
(* The invariant is inductive.                                               *)

LEMMA InitInv == Init => RInv
<1> SUFFICES ASSUME Init PROVE RInv
  OBVIOUS
<1>1. TypeOK
  BY DEF Init, TypeOK
<1>2. AskedInv /\ LineInv /\ EndInv
  BY DEF Init, AskedInv, LineInv, EndInv
<1>3. FlowInv /\ SizeInv /\ KeptInv
  BY DEF Init, FlowInv, SizeInv, KeptInv, Unreturned
<1> QED
  BY <1>1, <1>2, <1>3 DEF RInv

\* doit() up to Rio_writen(serverfd, ..): nothing is relayed yet.
Asking == \/ ReadRequestLine \/ NotImplemented \/ ClientError \/ CopyHeader \/ EndHeaders
          \/ HeadersOverflow \/ Connect \/ ConnectFails \/ SendRequest \/ SendError

LEMMA SnPrintfType ==
  ASSUME NEW S, NEW h \in S, message \in Seq(S), SnPrintf(h)
  PROVE  message' \in Seq(S)
BY DEF SnPrintf

LEMMA AskingType ==
  ASSUME TypeOK, Asking
  PROVE  TypeOK'
<1> DEFINE M == Request \cup {Preamble[k] : k \in 1 .. 5}
<1>1. HEADLINES \in Nat /\ HEADLINES > 5 /\ count \in Nat /\ count <= HEADLINES + 1
  BY DEF TypeOK
<1>2. CASE ReadRequestLine
  <2>1. Len(Preamble) = 5 /\ Preamble \in Seq({Preamble[k] : k \in 1 .. 5})
    BY DEF Preamble
  <2>2. Preamble \in Seq(M)
    BY <2>1, SeqMonotonic
  <2> QED
    BY <1>1, <1>2, <2>1, <2>2 DEF TypeOK, ReadRequestLine, StartMessage, clientvars, originvars, relayvars
<1>3. CASE NotImplemented \/ ClientError \/ HeadersOverflow \/ ConnectFails \/ SendError
  BY <1>3 DEF TypeOK, NotImplemented, ClientError, HeadersOverflow, ConnectFails, SendError,
              UnixError, clientvars, originvars, relayvars
<1>4. CASE CopyHeader
  <2>1. inbox # <<>> /\ Head(inbox) \in Request /\ inbox' \in Seq(Request)
    BY SMTT(60), <1>4 DEF CopyHeader, TypeOK
  <2>2. message' \in Seq(M) /\ count' \in 0 .. HEADLINES + 1
    <3>1. CASE UNCHANGED <<message, count>>
      BY <3>1 DEF TypeOK
    <3>2. CASE SnPrintf(Head(inbox)) /\ count <= HEADLINES /\ count' = count + 1
      <4>1. Head(inbox) \in M /\ message \in Seq(M)
        BY <2>1 DEF TypeOK
      <4>2. message' \in Seq(M)
        BY <3>2, <4>1, SnPrintfType
      <4> QED
        BY <1>1, <3>2, <4>2
    <3> QED
      BY <1>4, <3>1, <3>2 DEF CopyHeader
  <2> QED
    BY <1>4, <2>1, <2>2 DEF CopyHeader, TypeOK, originvars, relayvars
<1>5. CASE EndHeaders
  <2>1. message' \in Seq(M)
    <3>1. "blank" \in M /\ message \in Seq(M)
      BY DEF Request, TypeOK
    <3> QED
      BY <1>5, <3>1, SnPrintfType DEF EndHeaders
  <2>2. addresses' \in 0 .. 2 /\ pc' \in {"connect", "exit"}
    BY SMTT(60), <1>5 DEF EndHeaders, UnixError, TypeOK
  <2> QED
    BY <1>5, <2>1, <2>2 DEF EndHeaders, TypeOK, originvars, relayvars
<1>6. CASE Connect
  BY SMTT(60), <1>6 DEF Connect, TypeOK, clientvars, relayvars
<1>7. CASE SendRequest
  <2>1. requested' \in BOOLEAN /\ count' \in 0 .. HEADLINES + 1
    BY <1>1, <1>7 DEF SendRequest, Whole
  <2> QED
    BY <1>7, <2>1 DEF SendRequest, TypeOK, relayvars
<1> QED
  BY <1>2, <1>3, <1>4, <1>5, <1>6, <1>7 DEF Asking

LEMMA AskingInv ==
  ASSUME RInv, Asking
  PROVE  RInv'
<1> DEFINE Pre == {"request", "headers", "connect", "send"}
<1>1. /\ pc \in Pre /\ pc' \notin {"write", "store"} /\ requested' \in BOOLEAN
      /\ pc' \in Pre => ~requested'
      /\ UNCHANGED <<answer, arrived, rio_buf, line, left, toClient, buf, cache_size, stored>>
  <2>1. pc \in Pre /\ pc' \notin {"write", "store"}
    BY DEF Asking, ReadRequestLine, StartMessage, NotImplemented, ClientError, CopyHeader,
           EndHeaders, HeadersOverflow, Connect, ConnectFails, SendRequest, SendError, UnixError
  <2>2. UNCHANGED <<answer, arrived, relayvars>>
    BY DEF Asking, ReadRequestLine, StartMessage, NotImplemented, ClientError, CopyHeader,
           EndHeaders, HeadersOverflow, Connect, ConnectFails, SendRequest, SendError, UnixError,
           originvars
  <2>3. CASE SendRequest
    BY <2>1, <2>2, <2>3 DEF SendRequest, Whole, relayvars
  <2>4. CASE ~SendRequest
    <3>1. requested' = requested
      BY <2>4 DEF Asking, ReadRequestLine, StartMessage, NotImplemented, ClientError, CopyHeader,
             EndHeaders, HeadersOverflow, Connect, ConnectFails, SendRequest, SendError, UnixError,
             originvars
    <3> QED
      BY <2>1, <2>2, <3>1 DEF RInv, AskedInv, relayvars
  <2> QED
    BY <2>3, <2>4
<1>2. /\ answer = <<>> /\ arrived = <<>> /\ rio_buf = <<>> /\ line = <<>> /\ left = <<>>
      /\ toClient = <<>> /\ buf = <<>> /\ cache_size = 0 /\ stored = <<>>
  BY <1>1 DEF RInv, AskedInv
<1>3. TypeOK'
  BY AskingType DEF RInv
<1>4. pc' \in {"request", "headers", "connect"} => origin' = "none"
  BY DEF Asking, ReadRequestLine, StartMessage, NotImplemented, ClientError, CopyHeader,
         EndHeaders, HeadersOverflow, Connect, ConnectFails, SendRequest, SendError, UnixError,
         originvars, RInv, AskedInv
<1>5. AskedInv' /\ LineInv' /\ EndInv'
  BY <1>1, <1>2, <1>4 DEF AskedInv, LineInv, EndInv
<1>6. FlowInv' /\ SizeInv' /\ KeptInv'
  BY <1>1, <1>2 DEF FlowInv, SizeInv, KeptInv, Unreturned
<1> QED
  BY <1>3, <1>5, <1>6 DEF RInv

\* What the client does, and the end of the origin.
LEMMA OutsideInv ==
  ASSUME RInv, \/ \E h \in Request : ClientSends(h)
               \/ \E how \in {"shut", "gone"} : ClientEnds(how)
               \/ \E how \in {"closed", "reset"} : OriginEnds(how)
               \/ UNCHANGED vars
  PROVE  RInv'
<1>1. UNCHANGED <<pc, requested, answer, arrived, rio_buf, line, left, toClient, buf, cache_size, stored>>
  BY DEF ClientSends, ClientEnds, OriginEnds, vars, originvars, relayvars
<1>2. origin' = origin \/ origin = "open"
  BY DEF ClientSends, ClientEnds, OriginEnds, vars, originvars
<1>3. TypeOK'
  <2>1. ASSUME NEW h \in Request, ClientSends(h) PROVE TypeOK'
    BY <2>1 DEF ClientSends, RInv, TypeOK, originvars, relayvars
  <2>2. ASSUME NEW how \in {"shut", "gone"}, ClientEnds(how) PROVE TypeOK'
    BY <2>2 DEF ClientEnds, RInv, TypeOK, originvars, relayvars
  <2>3. ASSUME NEW how \in {"closed", "reset"}, OriginEnds(how) PROVE TypeOK'
    BY <2>3 DEF OriginEnds, RInv, TypeOK, clientvars, relayvars
  <2>4. CASE UNCHANGED vars
    BY <2>4 DEF RInv, TypeOK, vars, clientvars, originvars, relayvars
  <2> QED
    BY <2>1, <2>2, <2>3, <2>4
<1>4. AskedInv' /\ LineInv' /\ EndInv'
  BY <1>1, <1>2 DEF RInv, AskedInv, LineInv, EndInv
<1>5. FlowInv' /\ SizeInv' /\ KeptInv'
  BY <1>1 DEF RInv, FlowInv, SizeInv, KeptInv, Unreturned
<1> QED
  BY <1>3, <1>4, <1>5 DEF RInv

\* The sequences a step starts from.
LEMMA Sequences ==
  ASSUME RInv
  PROVE  /\ answer \in Seq(Bytes) /\ arrived \in Seq(Bytes) /\ rio_buf \in Seq(Bytes)
         /\ line \in Seq(Bytes) /\ left \in Seq(Bytes) /\ toClient \in Seq(Bytes)
         /\ Unreturned \in Seq(Bytes) /\ toClient \o left \in Seq(Bytes)
         /\ toClient \o left \o Unreturned \in Seq(Bytes)
         /\ toClient \o left \o Unreturned \o rio_buf \in Seq(Bytes)
         /\ buf \in Seq(Bytes)
<1>1. /\ answer \in Seq(Bytes) /\ arrived \in Seq(Bytes) /\ rio_buf \in Seq(Bytes)
      /\ line \in Seq(Bytes) /\ left \in Seq(Bytes) /\ toClient \in Seq(Bytes)
      /\ buf \in Seq(Bytes \ {Nul})
  BY DEF RInv, TypeOK
<1>2. Unreturned \in Seq(Bytes)
  BY <1>1, EmptySeq DEF Unreturned
<1>3. toClient \o left \in Seq(Bytes)
  BY <1>1, ConcatProperties
<1>4. toClient \o left \o Unreturned \in Seq(Bytes)
  BY <1>2, <1>3, ConcatProperties
<1>5. toClient \o left \o Unreturned \o rio_buf \in Seq(Bytes)
  BY <1>1, <1>4, ConcatProperties
<1>6. buf \in Seq(Bytes)
  BY <1>1, SeqMonotonic
<1> QED
  BY <1>1, <1>2, <1>3, <1>4, <1>5, <1>6

LEMMA OriginSendsInv ==
  ASSUME RInv, NEW b \in Bytes, OriginSends(b)
  PROVE  RInv'
<1> DEFINE T == toClient \o left \o Unreturned \o rio_buf
<1>1. /\ origin = "open" /\ requested /\ Len(answer) < MaxAnswer
      /\ answer' = Append(answer, b) /\ arrived' = Append(arrived, b)
      /\ UNCHANGED <<pc, client, asked, inbox, message, count, addresses, origin, requested,
                     rio_buf, line, left, toClient, buf, cache_size, stored>>
  BY DEF OriginSends, clientvars, relayvars
<1>2. answer \in Seq(Bytes) /\ arrived \in Seq(Bytes) /\ T \in Seq(Bytes)
  BY Sequences
<1>3. TypeOK'
  BY <1>1 DEF RInv, TypeOK
<1>4. AskedInv' /\ LineInv' /\ EndInv'
  BY <1>1 DEF RInv, AskedInv, LineInv, EndInv
<1>5. FlowInv'
  <2> HIDE DEF T
  <2>1. T \o arrived = answer /\ T' = T
    BY <1>1 DEF RInv, FlowInv, Unreturned, T
  <2>2. <<b>> \in Seq(Bytes) /\ answer' = answer \o <<b>> /\ arrived' = arrived \o <<b>>
    BY <1>1, <1>2, AppendIsConcat
  <2>3. T \o (arrived \o <<b>>) = (T \o arrived) \o <<b>>
    BY SMTT(60), SMTT(60), <1>2, <2>2, ConcatAssociative
  <2>4. T' \o arrived' = answer'
    BY <2>1, <2>2, <2>3
  <2> QED
    BY <2>4 DEF FlowInv, T
<1>6. SizeInv'
  BY <1>1 DEF RInv, SizeInv
<1>7. KeptInv'
  <2>1. \A k \in 1 .. Len(answer) : k \in 1 .. Len(answer') /\ answer'[k] = answer[k]
    BY <1>1, <1>2
  <2>2. Nul \notin {answer'[k] : k \in 1 .. Len(answer')} => Nul \notin {answer[k] : k \in 1 .. Len(answer)}
    BY <2>1
  <2> QED
    BY <1>1, <2>2 DEF RInv, KeptInv
<1> QED
  BY <1>3, <1>4, <1>5, <1>6, <1>7 DEF RInv

LEMMA RefillInv ==
  ASSUME RInv, Refill
  PROVE  RInv' /\ rio_buf' \o arrived' = rio_buf \o arrived
<1> DEFINE T == toClient \o left \o Unreturned
<1>1. PICK n \in 1 .. Min({Len(arrived), RIO_BUFSIZE}) :
        /\ rio_buf' = SubSeq(arrived, 1, n)
        /\ arrived' = SubSeq(arrived, n + 1, Len(arrived))
  BY DEF Refill
<1>2. /\ pc = "line" /\ rio_buf = <<>> /\ arrived # <<>>
      /\ UNCHANGED <<pc, client, asked, inbox, message, count, addresses, origin, requested,
                     answer, line, left, toClient, buf, cache_size, stored>>
  BY DEF Refill, clientvars
<1>3. arrived \in Seq(Bytes) /\ T \in Seq(Bytes)
  BY Sequences
<1>4. n \in 0 .. Len(arrived) /\ n <= RIO_BUFSIZE
  <2>1. Len(arrived) \in Nat /\ RIO_BUFSIZE \in Nat
    BY <1>3
  <2> DEFINE S == {Len(arrived), RIO_BUFSIZE}
  <2>2. S \in SUBSET Nat /\ S # {} /\ Len(arrived) \in S /\ RIO_BUFSIZE \in S
    BY <2>1
  <2>3. IsFiniteSet(S)
    <3>1. IsFiniteSet({Len(arrived)})
      BY FS_Singleton
    <3>2. S = {Len(arrived)} \cup {RIO_BUFSIZE}
      OBVIOUS
    <3> HIDE DEF S
    <3> QED
      BY <3>1, <3>2, FS_AddElement
  <2>4. Min(S) \in Nat /\ Min(S) <= Len(arrived) /\ Min(S) <= RIO_BUFSIZE
    <3> HIDE DEF S
    <3> QED
      BY <2>2, <2>3, MinOf
  <2> QED
    BY <2>1, <2>4
<1>5. /\ rio_buf' \in Seq(Bytes) /\ Len(rio_buf') = n /\ arrived' \in Seq(Bytes)
      /\ rio_buf' \o arrived' = arrived
  BY <1>1, <1>3, <1>4, Cut
<1>6. rio_buf \o arrived = arrived
  BY <1>2, <1>3, ConcatEmptySeq
<1>7. TypeOK'
  BY <1>2, <1>4, <1>5 DEF RInv, TypeOK
<1>8. requested /\ stored = <<>>
  BY <1>2 DEF RInv, AskedInv, EndInv
<1>9. AskedInv' /\ LineInv' /\ EndInv'
  BY <1>2, <1>8 DEF RInv, AskedInv, LineInv, EndInv
<1>10. FlowInv'
  <2> HIDE DEF T
  <2>1. T \o rio_buf \o arrived = answer /\ T' = T
    BY <1>2 DEF RInv, FlowInv, Unreturned, T
  <2>2. T \o rio_buf = T
    BY <1>2, <1>3, ConcatEmptySeq
  <2>3. (T \o rio_buf') \o arrived' = T \o (rio_buf' \o arrived')
    <3>1. T \in Seq(Bytes) /\ rio_buf' \in Seq(Bytes) /\ arrived' \in Seq(Bytes)
      BY <1>3, <1>5
    <3> QED
      BY <3>1, Regroup
  <2>4. T' \o rio_buf' \o arrived' = answer'
    BY <1>2, <1>5, <2>1, <2>2, <2>3
  <2> QED
    BY <2>4 DEF FlowInv, T
<1>11. SizeInv' /\ KeptInv'
  BY <1>2 DEF RInv, SizeInv, KeptInv
<1> QED
  BY <1>5, <1>6, <1>7, <1>9, <1>10, <1>11 DEF RInv

\* rio_readlineb() moves bytes from rio_buf to the end of line.
LEMMA CopyLineInv ==
  ASSUME RInv, CopyLine
  PROVE  /\ RInv' /\ left = <<>> /\ line' \o rio_buf' = line \o rio_buf
         /\ line' # <<>> /\ \A k \in 1 .. Len(line') - 1 : line'[k] # Newline
<1> DEFINE n == LineEnd(line, rio_buf)
           T == toClient \o left
<1>1. /\ pc = "line" /\ rio_buf # <<>>
      /\ line' = line \o SubSeq(rio_buf, 1, n)
      /\ rio_buf' = SubSeq(rio_buf, n + 1, Len(rio_buf))
      /\ IF LineFull(line') THEN pc' = "write" /\ left' = line' ELSE UNCHANGED <<pc, left>>
      /\ UNCHANGED <<client, asked, inbox, message, count, addresses, origin, requested, answer,
                     arrived, toClient, buf, cache_size, stored>>
  BY DEF CopyLine, clientvars, originvars
<1>2. /\ line \in Seq(Bytes) /\ rio_buf \in Seq(Bytes) /\ arrived \in Seq(Bytes)
      /\ left \in Seq(Bytes) /\ toClient \in Seq(Bytes) /\ T \in Seq(Bytes)
  BY Sequences
<1>3. /\ Len(line) < MAXLINE - 1 /\ left = <<>> /\ stored = <<>>
      /\ \A k \in 1 .. Len(line) : line[k] # Newline
      /\ Len(rio_buf) <= RIO_BUFSIZE /\ Len(rio_buf) \in Nat
  BY <1>1, <1>2 DEF RInv, LineInv, EndInv, TypeOK
<1>4. /\ n \in 1 .. Len(rio_buf) /\ Len(line) + n <= MAXLINE - 1
      /\ \A k \in 1 .. n - 1 : rio_buf[k] # Newline
  BY <1>1, <1>2, <1>3, LineEndIs
<1> HIDE DEF n
<1> DEFINE r == SubSeq(rio_buf, 1, n)
<1>5. /\ r \in Seq(Bytes) /\ Len(r) = n /\ rio_buf' \in Seq(Bytes)
      /\ Len(rio_buf') = Len(rio_buf) - n /\ r \o rio_buf' = rio_buf
      /\ \A k \in 1 .. n : r[k] = rio_buf[k]
  <2>1. n \in 0 .. Len(rio_buf)
    BY <1>4
  <2> QED
    BY <1>1, <1>2, <2>1, Cut
<1> HIDE DEF r
<1>6. /\ line' \in Seq(Bytes) /\ Len(line') = Len(line) + n /\ Len(line) \in Nat
      /\ \A k \in 1 .. Len(line) + n :
           line'[k] = IF k <= Len(line) THEN line[k] ELSE r[k - Len(line)]
  BY SMTT(60), <1>1, <1>2, <1>4, <1>5, ConcatProperties DEF r
<1>7. line' # <<>> /\ Len(line') < MAXLINE
  BY <1>3, <1>4, <1>6
<1>8. \A k \in 1 .. Len(line') - 1 : line'[k] # Newline
  <2> SUFFICES ASSUME NEW k \in 1 .. Len(line) + n - 1 PROVE line'[k] # Newline
    <3>1. Len(line') - 1 = Len(line) + n - 1
      <4>1. Len(line') = Len(line) + n /\ Len(line) \in Int /\ n \in Int
        BY <1>3, <1>4, <1>6
      <4> QED
        BY <4>1
    <3> QED
      BY <3>1
  <2>1. CASE k <= Len(line)
    BY SMTT(60), <1>3, <1>4, <1>6, <2>1
  <2>2. CASE k > Len(line)
    <3>1. k - Len(line) \in 1 .. n - 1 /\ k - Len(line) \in 1 .. n
      BY <1>4, <1>6, <2>2
    <3>2. line'[k] = r[k - Len(line)]
      BY <1>4, <1>6, <2>2
    <3> QED
      BY <1>4, <1>5, <3>1, <3>2
  <2> QED
    BY <1>6, <2>1, <2>2
<1>9. line' \o rio_buf' = line \o rio_buf
  <2>1. (line \o r) \o rio_buf' = line \o (r \o rio_buf')
    <3>1. line \in Seq(Bytes) /\ r \in Seq(Bytes) /\ rio_buf' \in Seq(Bytes)
      BY <1>2, <1>5
    <3> QED
      BY <3>1, Regroup
  <2> QED
    BY <1>1, <1>5, <2>1 DEF r
<1>10. TypeOK'
  <2>1. pc' \in {"line", "write"} /\ left' \in Seq(Bytes)
    BY <1>1, <1>2, <1>6
  <2>2. Len(rio_buf') <= RIO_BUFSIZE
    BY <1>3, <1>4, <1>5
  <2> QED
    BY <1>1, <1>5, <1>6, <1>7, <2>1, <2>2 DEF RInv, TypeOK
<1>11. AskedInv' /\ EndInv'
  BY <1>1, <1>3 DEF RInv, AskedInv, EndInv
<1>12. LineInv'
  <2>1. CASE LineFull(line')
    BY <1>1, <2>1 DEF LineInv
  <2>2. CASE ~LineFull(line')
    <3>1. Len(line') # MAXLINE - 1 /\ line'[Len(line')] # Newline
      BY <1>7, <2>2 DEF LineFull
    <3>2. \A k \in 1 .. Len(line') : line'[k] # Newline
      <4>1. Len(line') \in Nat
        BY <1>6
      <4>2. \A k \in 1 .. Len(line') : k = Len(line') \/ k \in 1 .. Len(line') - 1
        BY <4>1
      <4> QED
        BY <1>8, <3>1, <4>2
    <3>3. pc' = "line" /\ left' = <<>>
      BY <1>1, <1>3, <2>2
    <3> QED
      BY <1>6, <1>7, <3>1, <3>2, <3>3 DEF LineInv
  <2> QED
    BY <2>1, <2>2
<1>13. FlowInv'
  <2> HIDE DEF T
  <2>1. T \o line \o rio_buf \o arrived = answer
    BY <1>1, <1>3 DEF RInv, FlowInv, Unreturned, T
  <2>2. (T \o line) \o rio_buf = T \o (line \o rio_buf)
    BY <1>2, Regroup
  <2>3. (T \o line') \o rio_buf' = T \o (line' \o rio_buf')
    <3>1. T \in Seq(Bytes) /\ line' \in Seq(Bytes) /\ rio_buf' \in Seq(Bytes)
      BY <1>2, <1>5, <1>6
    <3> QED
      BY <3>1, Regroup
  <2>4. T \o line' \o rio_buf' \o arrived' = answer'
    BY <1>1, <1>9, <2>1, <2>2, <2>3
  <2>5. T = toClient
    BY <1>2, <1>3, ConcatEmptySeq DEF T
  <2>6. CASE LineFull(line')
    <3>1. (toClient' \o left') \o Unreturned' = T \o line'
      <4>1. Unreturned' = <<>> /\ toClient' \o left' = T \o line'
        BY <1>1, <2>5, <2>6 DEF Unreturned
      <4>2. T \o line' \in Seq(Bytes)
        BY <1>2, <1>6, ConcatProperties
      <4> QED
        BY <4>1, <4>2, ConcatEmptySeq
    <3> QED
      BY <2>4, <3>1 DEF FlowInv
  <2>7. CASE ~LineFull(line')
    BY <1>1, <1>3, <2>4, <2>7 DEF FlowInv, Unreturned, T
  <2> QED
    BY <2>6, <2>7
<1>14. SizeInv'
  <2>1. cache_size = Len(toClient) + 0 /\ Len(toClient) \in Nat
    BY <1>1, <1>2, <1>3 DEF RInv, TypeOK, SizeInv
  <2>2. CASE LineFull(line')
    <3>1. Len(left') = Len(line') /\ Len(line') \in Nat
      BY <1>1, <1>6, <2>2
    <3> QED
      <4>1. pc' = "write" /\ cache_size' = Len(toClient) /\ toClient' = toClient
        BY <1>1, <2>1, <2>2
      <4>2. cache_size' + Len(line') = Len(toClient') + Len(left')
        BY <2>1, <3>1, <4>1
      <4> QED
        BY <4>1, <4>2 DEF SizeInv
  <2>3. CASE ~LineFull(line')
    <3>1. Len(left') = 0 /\ pc' = "line"
      BY <1>1, <1>3, <2>3
    <3> QED
      BY <1>1, <2>1, <3>1 DEF SizeInv
  <2> QED
    BY <2>2, <2>3
<1>15. KeptInv'
  <2>1. CASE LineFull(line')
    <3>1. Nul \notin {answer[k] : k \in 1 .. Len(answer)} => buf = toClient
      <4>1. buf \in Seq(Bytes)
        BY Sequences
      <4> QED
        BY <1>1, <1>2, <1>3, <4>1, ConcatEmptySeq DEF RInv, KeptInv
    <3> QED
      BY <1>1, <2>1, <3>1 DEF KeptInv
  <2>2. CASE ~LineFull(line')
    BY <1>1, <2>2 DEF RInv, KeptInv
  <2> QED
    BY <2>1, <2>2
<1> QED
  BY <1>3, <1>6, <1>7, <1>8, <1>9, <1>10, <1>11, <1>12, <1>13, <1>14, <1>15 DEF RInv

\* The end of the answer, and the errors of read() and write(): nothing is moved.
LEMMA ReadEndInv ==
  ASSUME RInv, ReadEnd
  PROVE  RInv'
<1>1. /\ pc = "line" /\ rio_buf = <<>> /\ arrived = <<>> /\ origin = "closed"
      /\ UNCHANGED <<client, asked, inbox, message, count, addresses, origin, requested, answer,
                     arrived, rio_buf, line, toClient, buf, cache_size, stored>>
      /\ IF line # <<>> THEN pc' = "write" /\ left' = line
                        ELSE pc' = "store" /\ UNCHANGED left
  BY DEF ReadEnd, clientvars, originvars
<1>2. /\ line \in Seq(Bytes) /\ left \in Seq(Bytes) /\ toClient \in Seq(Bytes)
      /\ toClient \o line \in Seq(Bytes)
  <2>1. line \in Seq(Bytes) /\ left \in Seq(Bytes) /\ toClient \in Seq(Bytes)
    BY Sequences
  <2> QED
    BY <2>1, ConcatProperties
<1>3. left = <<>> /\ stored = <<>>
  BY <1>1 DEF RInv, LineInv, EndInv
<1>4. TypeOK' /\ AskedInv' /\ EndInv'
  <2>1. pc' \in {"write", "store"} /\ left' \in Seq(Bytes)
    BY <1>1, <1>2
  <2>2. TypeOK'
    BY <1>1, <2>1 DEF RInv, TypeOK
  <2> QED
    BY <1>1, <1>3, <2>1, <2>2 DEF RInv, AskedInv, EndInv
<1>5. LineInv'
  BY <1>1, <1>3 DEF RInv, LineInv
<1>6. toClient \o left = toClient
  BY <1>2, <1>3, ConcatEmptySeq
<1>7. FlowInv'
  <2>1. toClient \o line \o <<>> \o <<>> = answer
    BY <1>1, <1>3, <1>6 DEF RInv, FlowInv, Unreturned
  <2>2. CASE line # <<>>
    <3>1. Unreturned' = <<>> /\ toClient' \o left' = toClient \o line
      BY <1>1, <2>2 DEF Unreturned
    <3>2. (toClient \o line) \o <<>> = toClient \o line
      BY <1>2, ConcatEmptySeq
    <3> QED
      BY <1>1, <2>1, <3>1, <3>2 DEF FlowInv
  <2>3. CASE line = <<>>
    BY <1>1, <1>3, <1>6, <2>1, <2>3 DEF FlowInv, Unreturned
  <2> QED
    BY <2>2, <2>3
<1>8. SizeInv'
  <2>1. /\ cache_size = Len(toClient) + 0 /\ Len(toClient) \in Nat /\ Len(line) \in Nat
        /\ cache_size \in Nat
    BY <1>1, <1>2, <1>3 DEF RInv, TypeOK, SizeInv
  <2>2. CASE line # <<>>
    <3>1. pc' = "write" /\ left' = line /\ line' = line /\ toClient' = toClient /\ cache_size' = cache_size
      BY <1>1, <2>2
    <3> QED
      BY <2>1, <3>1 DEF SizeInv
  <2>3. CASE line = <<>>
    <3>1. pc' = "store" /\ left' = <<>> /\ toClient' = toClient /\ cache_size' = cache_size
      BY <1>1, <1>3, <2>3
    <3> QED
      BY <2>1, <3>1 DEF SizeInv
  <2> QED
    BY <2>2, <2>3
<1>9. KeptInv'
  <2>1. buf \in Seq(Bytes)
    BY Sequences
  <2>2. Nul \notin {answer[k] : k \in 1 .. Len(answer)} => buf = toClient
    BY <1>1, <1>6, <2>1, ConcatEmptySeq DEF RInv, KeptInv
  <2>3. CASE line # <<>>
    BY <1>1, <2>2, <2>3 DEF KeptInv
  <2>4. CASE line = <<>>
    <3>1. buf \o <<>> = buf
      BY <2>1, ConcatEmptySeq
    <3> QED
      BY <1>1, <1>3, <1>6, <2>2, <2>4, <3>1 DEF KeptInv
  <2> QED
    BY <2>3, <2>4
<1> QED
  BY <1>4, <1>5, <1>7, <1>8, <1>9 DEF RInv

LEMMA ErrorInv ==
  ASSUME RInv, ReadError \/ WriteError
  PROVE  RInv' /\ Unreturned' = Unreturned
<1>1. /\ pc \in {"line", "write"} /\ pc' = "exit" /\ (pc = "write" => left # <<>>)
      /\ UNCHANGED <<client, asked, inbox, message, count, addresses, origin, requested, answer,
                     arrived, rio_buf, line, left, toClient, buf, cache_size, stored>>
  BY DEF ReadError, WriteError, UnixError, clientvars, originvars, relayvars
<1>2. Unreturned' = Unreturned /\ stored = <<>>
  BY <1>1 DEF Unreturned, RInv, EndInv
<1>3. TypeOK' /\ AskedInv' /\ LineInv' /\ EndInv'
  BY <1>1, <1>2 DEF RInv, TypeOK, AskedInv, LineInv, EndInv
<1>4. FlowInv'
  BY <1>1, <1>2 DEF RInv, FlowInv
<1>5. SizeInv' /\ KeptInv'
  BY <1>1 DEF SizeInv, KeptInv
<1> QED
  BY <1>2, <1>3, <1>4, <1>5 DEF RInv

\* rio_writen() moves bytes from left to the end of what the client was sent.
LEMMA WriteInv ==
  ASSUME RInv, Write
  PROVE  RInv' /\ toClient' \o left' = toClient \o left
<1>1. PICK n \in 1 .. Len(left) : /\ toClient' = toClient \o SubSeq(left, 1, n)
                                  /\ left' = SubSeq(left, n + 1, Len(left))
  BY DEF Write
<1>2. /\ pc = "write" /\ left # <<>>
      /\ UNCHANGED <<pc, client, asked, inbox, message, count, addresses, origin, requested,
                     answer, arrived, rio_buf, line, buf, cache_size, stored>>
  BY DEF Write, clientvars, originvars
<1>3. left \in Seq(Bytes) /\ toClient \in Seq(Bytes) /\ line \in Seq(Bytes)
  BY Sequences
<1> DEFINE r == SubSeq(left, 1, n)
<1>4. r \in Seq(Bytes) /\ Len(r) = n /\ left' \in Seq(Bytes) /\ Len(left') = Len(left) - n
      /\ r \o left' = left
  <2>1. n \in 0 .. Len(left)
    OBVIOUS
  <2> QED
    BY <1>1, <1>3, <2>1, Cut
<1>5. toClient' \in Seq(Bytes) /\ Len(toClient') = Len(toClient) + n
  BY <1>1, <1>3, <1>4, ConcatProperties
<1>6. toClient' \o left' = toClient \o left
  <2>1. r \in Seq(Bytes) /\ left' \in Seq(Bytes)
    BY <1>4
  <2>2. (toClient \o r) \o left' = toClient \o (r \o left')
    BY SMTT(60), <1>3, <2>1, Regroup
  <2> QED
    BY <1>1, <1>4, <2>2
<1>7. stored = <<>>
  BY <1>2 DEF RInv, AskedInv, EndInv
<1>8. TypeOK' /\ AskedInv' /\ LineInv' /\ EndInv'
  <2>1. TypeOK'
    BY <1>2, <1>4, <1>5 DEF RInv, TypeOK
  <2> QED
    BY <1>2, <1>7, <2>1 DEF RInv, AskedInv, LineInv, EndInv
<1>9. FlowInv'
  <2>1. Unreturned' = Unreturned
    BY <1>2 DEF Unreturned
  <2> QED
    BY <1>2, <1>6, <2>1 DEF RInv, FlowInv
<1>10. SizeInv'
  <2>1. Len(toClient') + Len(left') = Len(toClient) + Len(left)
    BY <1>3, <1>4, <1>5
  <2> QED
    BY <1>2, <2>1 DEF RInv, SizeInv
<1>11. KeptInv'
  BY <1>2, <1>6 DEF RInv, KeptInv
<1> QED
  BY <1>6, <1>8, <1>9, <1>10, <1>11 DEF RInv

\* strcat(), and the next line.
LEMMA KeepInv ==
  ASSUME RInv, Keep
  PROVE  RInv'
<1>1. /\ pc = "write" /\ left = <<>> /\ line' = <<>> /\ cache_size' = cache_size + Len(line)
      /\ IF Len(buf) + Len(CString(line)) < MAXLINE
           THEN buf' = buf \o CString(line) /\ pc' = "line"
           ELSE pc' = "overflow" /\ UNCHANGED buf
      /\ UNCHANGED <<client, asked, inbox, message, count, addresses, origin, requested, answer,
                     arrived, rio_buf, left, toClient, stored>>
  BY DEF Keep, clientvars, originvars
<1>2. /\ line \in Seq(Bytes) /\ toClient \in Seq(Bytes) /\ rio_buf \in Seq(Bytes)
      /\ arrived \in Seq(Bytes) /\ answer \in Seq(Bytes)
  BY Sequences
<1>3. CString(line) \in Seq(Bytes \ {Nul}) /\ (Nul \notin Values(line) => CString(line) = line)
  BY <1>2, CStringIs
<1>4. stored = <<>> /\ pc' \in {"line", "overflow"}
  BY <1>1 DEF RInv, AskedInv, EndInv
<1>5. toClient \o left = toClient /\ toClient \o rio_buf \in Seq(Bytes)
      /\ toClient \o rio_buf \o arrived = answer
  <2>1. toClient \o left = toClient
    BY <1>1, <1>2, ConcatEmptySeq
  <2>2. toClient \o rio_buf \in Seq(Bytes)
    BY <1>2, ConcatProperties
  <2> QED
    BY <1>1, <2>1, <2>2 DEF RInv, FlowInv, Unreturned
<1>6. cache_size + Len(line) = Len(toClient) /\ Len(toClient) <= Len(answer)
  <2>1. Len(toClient \o rio_buf) = Len(toClient) + Len(rio_buf)
    BY <1>2, ConcatProperties
  <2>2. Len(answer) = Len(toClient \o rio_buf) + Len(arrived)
    BY <1>2, <1>5, ConcatProperties
  <2>3. Len(toClient) \in Nat /\ Len(rio_buf) \in Nat /\ Len(arrived) \in Nat
    BY <1>2
  <2>4. cache_size + Len(line) = Len(toClient) + 0
    BY <1>1 DEF RInv, SizeInv
  <2> QED
    BY <2>1, <2>2, <2>3, <2>4
<1>7. TypeOK'
  <2>1. buf' \in Seq(Bytes \ {Nul}) /\ Len(buf') < MAXLINE
    <3>1. buf \in Seq(Bytes \ {Nul}) /\ Len(buf) < MAXLINE
      BY DEF RInv, TypeOK
    <3>2. /\ buf \o CString(line) \in Seq(Bytes \ {Nul})
          /\ Len(buf \o CString(line)) = Len(buf) + Len(CString(line))
      BY <1>3, <3>1, ConcatProperties
    <3> QED
      BY <1>1, <3>1, <3>2
  <2>2. cache_size' \in 0 .. MaxAnswer
    <3>1. Len(toClient) \in Nat /\ Len(answer) \in Nat /\ Len(answer) <= MaxAnswer
      BY SMTT(60), <1>2 DEF RInv, TypeOK
    <3> QED
      BY <1>1, <1>6, <3>1
  <2>3. line' \in Seq(Bytes) /\ Len(line') < MAXLINE
    BY <1>1
  <2> QED
    BY <1>1, <1>4, <2>1, <2>2, <2>3 DEF RInv, TypeOK
<1>8. AskedInv' /\ LineInv' /\ EndInv'
  BY <1>1, <1>4 DEF RInv, AskedInv, LineInv, EndInv
<1>9. FlowInv'
  <2>1. Unreturned' = <<>> /\ Unreturned = <<>>
    BY <1>1 DEF Unreturned
  <2> QED
    BY <1>1, <2>1 DEF RInv, FlowInv
<1>10. SizeInv'
  <2>1. Len(toClient) \in Nat /\ Len(left') = 0 /\ pc' # "write"
    BY <1>1, <1>2, <1>4
  <2> QED
    BY <1>1, <1>6, <2>1 DEF SizeInv
<1>11. KeptInv'
  <2> SUFFICES ASSUME pc' = "line", Nul \notin Values(answer)
               PROVE  buf' \o <<>> = toClient
    BY <1>1, <1>4, <1>5 DEF KeptInv, Values
  <2>1. buf \o line = toClient
    BY <1>1, <1>5 DEF RInv, KeptInv, Values
  <2>2. Nul \notin Values(line)
    <3>1. buf \in Seq(Bytes)
      BY Sequences
    <3>2. Values(line) \subseteq Values(toClient)
      BY <1>2, <2>1, <3>1, ValuesOfConcat
    <3>3. Values(toClient) \subseteq Values(toClient \o rio_buf)
      BY <1>2, ValuesOfConcat
    <3>4. Values(toClient \o rio_buf) \subseteq Values(answer)
      BY <1>2, <1>5, ValuesOfConcat
    <3> QED
      BY <3>2, <3>3, <3>4
  <2>3. buf' = toClient
    BY <1>1, <1>3, <2>1, <2>2
  <2> QED
    BY <1>2, <2>3, ConcatEmptySeq
<1> QED
  BY <1>7, <1>8, <1>9, <1>10, <1>11 DEF RInv

LEMMA StoreInv ==
  ASSUME RInv, Store
  PROVE  RInv'
<1>1. /\ pc = "store" /\ pc' = "done" /\ stored' = <<buf, cache_size>>
      /\ UNCHANGED <<client, asked, inbox, message, count, addresses, origin, requested, answer,
                     arrived, rio_buf, line, left, toClient, buf, cache_size>>
  BY DEF Store, clientvars, originvars
<1>2. TypeOK' /\ AskedInv' /\ LineInv' /\ EndInv'
  BY <1>1 DEF RInv, TypeOK, AskedInv, LineInv, EndInv
<1>3. FlowInv' /\ SizeInv' /\ KeptInv'
  <2>1. Unreturned' = Unreturned
    BY <1>1 DEF Unreturned
  <2> QED
    BY <1>1, <2>1 DEF RInv, FlowInv, SizeInv, KeptInv
<1> QED
  BY <1>2, <1>3 DEF RInv

LEMMA NextInv == RInv /\ [Next]_vars => RInv'
<1> SUFFICES ASSUME RInv, [Next]_vars PROVE RInv'
  OBVIOUS
<1>1. CASE Asking
  BY <1>1, AskingInv
<1>2. CASE Refill
  BY <1>2, RefillInv
<1>3. CASE CopyLine
  BY <1>3, CopyLineInv
<1>4. CASE ReadEnd
  BY <1>4, ReadEndInv
<1>5. CASE ReadError \/ WriteError
  BY <1>5, ErrorInv
<1>6. CASE Write
  BY <1>6, WriteInv
<1>7. CASE Keep
  BY <1>7, KeepInv
<1>8. CASE Store
  BY <1>8, StoreInv
<1>9. CASE Environment \/ UNCHANGED vars
  BY <1>9, OriginSendsInv, OutsideInv DEF Environment
<1> QED
  BY <1>1, <1>2, <1>3, <1>4, <1>5, <1>6, <1>7, <1>8, <1>9 DEF Next, Doit, Asking

\* The invariant holds in every state of doit(), the relay loop included.
THEOREM Invariance == Spec => []RInv
BY InitInv, NextInv, PTL DEF Spec

\* The indices into message and the sizes of the buffers, the one of the cache entry too,
\* stay in their bounds in every state of doit() (proxy.c:229-299).
THEOREM TypeCorrect == Spec => []TypeOK
<1>1. RInv => TypeOK
  BY DEF RInv
<1> QED
  BY <1>1, Invariance, PTL

\* What write_cache() is given is what the client was sent, of the size it was sent, whatever
\* pieces read() and write() took (proxy.c:257-298).
THEOREM StoredCorrect == Spec => []StoredWhole
<1>1. ASSUME RInv, stored # <<>> PROVE StoredWhole
  <2>1. /\ pc = "done" /\ line = <<>> /\ left = <<>> /\ arrived = <<>> /\ rio_buf = <<>>
        /\ stored[1] = buf /\ stored[2] = cache_size
    BY <1>1 DEF RInv, EndInv, LineInv
  <2>2. toClient \in Seq(Bytes) /\ buf \in Seq(Bytes)
    BY <1>1, Sequences
  <2>3. toClient \o <<>> = toClient /\ buf \o <<>> = buf
    BY <2>2, ConcatEmptySeq
  <2>4. toClient = answer
    BY <1>1, <2>1, <2>3 DEF RInv, FlowInv, Unreturned
  <2>5. cache_size = Len(toClient)
    <3>1. cache_size + 0 = Len(toClient) + 0 /\ cache_size \in Nat /\ Len(toClient) \in Nat
      BY <1>1, <2>1, <2>2 DEF RInv, TypeOK, SizeInv
    <3> QED
      BY <3>1
  <2>6. Nul \notin {answer[k] : k \in 1 .. Len(answer)} => buf = toClient
    BY <1>1, <2>1, <2>3 DEF RInv, KeptInv
  <2> QED
    BY <2>1, <2>4, <2>5, <2>6 DEF StoredWhole
<1>2. RInv => StoredWhole
  BY <1>1 DEF StoredWhole
<1> QED
  BY <1>2, Invariance, PTL

-----------------------------------------------------------------------------
(* doit() reads the answer as rio_readlineb() promises.                      *)

\* The front of a concatenation, and what is left of it.
LEMMA TakeFront ==
  ASSUME NEW S, NEW a \in Seq(S), NEW b \in Seq(S)
  PROVE  /\ SubSeq(a \o b, 1, Len(a)) = a
         /\ SubSeq(a \o b, Len(a) + 1, Len(a \o b)) = b
         /\ \A k \in 1 .. Len(a) : (a \o b)[k] = a[k]
         /\ Len(a \o b) = Len(a) + Len(b)
<1>1. /\ a \o b \in Seq(S) /\ Len(a \o b) = Len(a) + Len(b)
      /\ \A k \in 1 .. Len(a) + Len(b) :
           (a \o b)[k] = IF k <= Len(a) THEN a[k] ELSE b[k - Len(a)]
      /\ Len(a) \in Nat /\ Len(b) \in Nat
  BY ConcatProperties
<1>2. SubSeq(a \o b, 1, Len(a)) = a
  <2>1. \A k \in 1 .. Len(a) : (a \o b)[k] = a[k] /\ a[k] \in S
    BY <1>1
  <2>2. /\ SubSeq(a \o b, 1, Len(a)) \in Seq(S) /\ Len(SubSeq(a \o b, 1, Len(a))) = Len(a)
        /\ \A k \in 1 .. Len(a) : SubSeq(a \o b, 1, Len(a))[k] = (a \o b)[k]
    BY <1>1, Cut
  <2> QED
    BY <2>1, <2>2, SeqEqual
<1>3. SubSeq(a \o b, Len(a) + 1, Len(a \o b)) = b
  <2> DEFINE t == SubSeq(a \o b, Len(a) + 1, Len(a \o b))
  <2>1. t \in Seq(S) /\ Len(t) = Len(b)
    BY <1>1, Cut
  <2>2. \A k \in 1 .. Len(b) : t[k] = (a \o b)[Len(a) + k]
    BY <1>1, SubSeqProperties
  <2>3. \A k \in 1 .. Len(b) : t[k] = b[k]
    BY <1>1, <2>2
  <2> HIDE DEF t
  <2> QED
    BY <2>1, <2>3, SeqEqual DEF t
<1> QED
  BY <1>1, <1>2, <1>3

\* What LineStream's variables stand for.
Pending == Unreturned \o rio_buf \o arrived
MayMore == origin \notin {"closed", "reset"}
Given   == toClient \o left
Ended   == pc = "store" \/ stored # <<>>

LEMMA InitRefines == Init => Stream!Init
<1> SUFFICES ASSUME Init PROVE Stream!Init
  OBVIOUS
<1>1. Pending = <<>> /\ Given = <<>> /\ MayMore /\ ~Ended
  BY DEF Init, Pending, Given, MayMore, Ended, Unreturned
<1> QED
  BY <1>1 DEF Stream!Init, Pending, Given, MayMore, Ended, Unreturned

\* A step that moves no byte past a line's end is not seen.
LEMMA SilentStep ==
  ASSUME UNCHANGED <<Pending, MayMore, Given, Ended>>
  PROVE  UNCHANGED Stream!vars
BY DEF Stream!vars, Pending, Given, MayMore, Ended, Unreturned

LEMMA AskingStutters ==
  ASSUME RInv, Asking
  PROVE  UNCHANGED Stream!vars
<1>1. /\ pc \in {"request", "headers", "connect", "send"} /\ pc' \notin {"write", "store"}
      /\ UNCHANGED <<answer, arrived, rio_buf, line, left, toClient, stored>>
  BY DEF Asking, ReadRequestLine, StartMessage, NotImplemented, ClientError, CopyHeader,
         EndHeaders, HeadersOverflow, Connect, ConnectFails, SendRequest, SendError, UnixError,
         originvars, relayvars
<1>2. MayMore' = MayMore
  <2>1. CASE Connect
    BY <2>1 DEF Connect, MayMore, RInv, AskedInv
  <2>2. CASE ~Connect
    BY <2>2 DEF Asking, ReadRequestLine, StartMessage, NotImplemented, ClientError, CopyHeader,
           EndHeaders, HeadersOverflow, ConnectFails, SendRequest, SendError, originvars, MayMore
  <2> QED
    BY <2>1, <2>2
<1>3. line = <<>> /\ left = <<>>
  BY <1>1 DEF RInv, AskedInv
<1> QED
  BY <1>1, <1>2, <1>3, SilentStep DEF Pending, Given, Ended, Unreturned

LEMMA EnvironmentRefines ==
  ASSUME RInv, Environment \/ UNCHANGED vars
  PROVE  [Stream!Next]_(Stream!vars)
<1>1. ASSUME NEW b \in Bytes, OriginSends(b) PROVE Stream!Send
  <2>1. /\ MayMore /\ arrived' = Append(arrived, b)
        /\ UNCHANGED <<pc, origin, rio_buf, line, left, toClient, stored>>
    BY <1>1 DEF OriginSends, relayvars, MayMore
  <2>2. arrived \in Seq(Bytes) /\ Unreturned \o rio_buf \in Seq(Bytes)
    <3>1. arrived \in Seq(Bytes) /\ Unreturned \in Seq(Bytes) /\ rio_buf \in Seq(Bytes)
      BY Sequences
    <3> QED
      BY <3>1, ConcatProperties
  <2>3. Pending' = Append(Pending, b)
    <3> DEFINE U == Unreturned \o rio_buf
    <3>1. U' = U
      BY <2>1 DEF Unreturned
    <3> HIDE DEF U
    <3>2. U \in Seq(Bytes) /\ <<b>> \in Seq(Bytes)
      BY <2>2 DEF U
    <3>3. U \o (arrived \o <<b>>) = (U \o arrived) \o <<b>>
      BY <2>2, <3>2, Regroup
    <3>4. U \o arrived \in Seq(Bytes)
      BY <2>2, <3>2, ConcatProperties
    <3>5. arrived' = arrived \o <<b>> /\ Append(U \o arrived, b) = (U \o arrived) \o <<b>>
      BY <2>1, <2>2, <3>4, AppendIsConcat
    <3> QED
      BY <3>1, <3>3, <3>5 DEF Pending, U
  <2>4. UNCHANGED <<MayMore, Given, Ended>>
    BY <2>1 DEF MayMore, Given, Ended
  <2> QED
    BY <2>1, <2>3, <2>4 DEF Stream!Send, Pending, Given, MayMore, Ended, Unreturned
<1>2. ASSUME NEW how \in {"closed", "reset"}, OriginEnds(how) PROVE Stream!Close
  <2>1. /\ MayMore /\ ~MayMore'
        /\ UNCHANGED <<pc, arrived, rio_buf, line, left, toClient, stored>>
    BY <1>2 DEF OriginEnds, relayvars, MayMore
  <2>2. UNCHANGED <<Pending, Given, Ended>>
    BY <2>1 DEF Pending, Given, Ended, Unreturned
  <2> QED
    BY <2>1, <2>2 DEF Stream!Close, Pending, Given, MayMore, Ended, Unreturned
<1>3. ASSUME \/ \E h \in Request : ClientSends(h)
             \/ \E how \in {"shut", "gone"} : ClientEnds(how)
             \/ UNCHANGED vars
      PROVE  UNCHANGED Stream!vars
  <2>1. UNCHANGED <<pc, origin, arrived, rio_buf, line, left, toClient, stored>>
    BY <1>3 DEF ClientSends, ClientEnds, vars, originvars, relayvars
  <2> QED
    BY <2>1, SilentStep DEF Pending, Given, MayMore, Ended, Unreturned
<1> QED
  BY <1>1, <1>2, <1>3 DEF Environment, Stream!Next

\* The bytes of one line, given at once.
LEMMA LineIsGiven ==
  ASSUME NEW l \in Seq(Bytes), NEW rest \in Seq(Bytes), l # <<>>, Len(l) < MAXLINE,
         \A k \in 1 .. Len(l) - 1 : l[k] # Newline,
         l[Len(l)] = Newline \/ Len(l) = MAXLINE - 1 \/ (~MayMore /\ rest = <<>>),
         Pending = l \o rest, Pending' = rest, Given' = Given \o l,
         ~Ended, UNCHANGED <<MayMore, Ended>>
  PROVE  Stream!ReadLine
<1>1. /\ SubSeq(Pending, 1, Len(l)) = l
      /\ SubSeq(Pending, Len(l) + 1, Len(Pending)) = rest
      /\ \A k \in 1 .. Len(l) : Pending[k] = l[k]
      /\ Len(Pending) = Len(l) + Len(rest)
  BY TakeFront
<1>2. Len(l) \in 1 .. Len(Pending) /\ Len(l) \in Nat \ {0}
  BY <1>1
<1>3. Stream!IsLine(Len(l))
  <2>1. \A k \in 1 .. Len(l) - 1 : Pending[k] # Newline
    BY <1>1, <1>2
  <2>2. \/ Pending[Len(l)] = Newline
        \/ Len(l) = MAXLINE - 1
        \/ ~MayMore /\ Len(l) = Len(Pending)
    <3>1. Pending[Len(l)] = l[Len(l)]
      BY <1>1, <1>2
    <3>2. rest = <<>> => Len(l) = Len(Pending)
      BY <1>1, <1>2
    <3> QED
      BY <3>1, <3>2
  <2> QED
    BY <2>1, <2>2 DEF Stream!IsLine, Pending, MayMore, Unreturned
<1>4. /\ Given' = Given \o SubSeq(Pending, 1, Len(l))
      /\ Pending' = SubSeq(Pending, Len(l) + 1, Len(Pending))
  BY <1>1
<1> QED
  BY <1>2, <1>3, <1>4 DEF Stream!ReadLine, Pending, Given, MayMore, Ended, Unreturned

LEMMA CopyLineRefines ==
  ASSUME RInv, CopyLine
  PROVE  [Stream!Next]_(Stream!vars)
<1>1. /\ pc = "line" /\ UNCHANGED <<origin, arrived, toClient, stored>>
      /\ IF LineFull(line') THEN pc' = "write" /\ left' = line' ELSE UNCHANGED <<pc, left>>
  BY DEF CopyLine, originvars
<1>2. /\ RInv' /\ left = <<>> /\ line' \o rio_buf' = line \o rio_buf
      /\ line' # <<>> /\ \A k \in 1 .. Len(line') - 1 : line'[k] # Newline
  BY CopyLineInv
<1>3. /\ line' \in Seq(Bytes) /\ Len(line') < MAXLINE /\ rio_buf' \in Seq(Bytes)
      /\ arrived \in Seq(Bytes) /\ toClient \in Seq(Bytes)
  BY <1>2 DEF RInv, TypeOK
<1>4. UNCHANGED <<MayMore, Ended>> /\ ~Ended
  BY <1>1, <1>2 DEF MayMore, Ended, RInv, EndInv
<1>5. CASE LineFull(line')
  <2> DEFINE rest == rio_buf' \o arrived
  <2>1. rest \in Seq(Bytes)
    BY <1>3, ConcatProperties
  <2>2. Pending = line' \o rest
    <3>1. Pending = (line' \o rio_buf') \o arrived
      BY <1>1, <1>2 DEF Pending, Unreturned
    <3> QED
      BY <1>3, <3>1, Regroup
  <2>3. Pending' = rest
    <3>1. Unreturned' = <<>>
      BY <1>1, <1>5 DEF Unreturned
    <3> QED
      BY <1>1, <1>3, <3>1, ConcatEmptySeq DEF Pending
  <2>4. Given' = Given \o line'
    BY <1>1, <1>2, <1>3, <1>5, ConcatEmptySeq DEF Given
  <2>5. Stream!ReadLine
    <3>1. line'[Len(line')] = Newline \/ Len(line') = MAXLINE - 1
      BY <1>5 DEF LineFull
    <3> HIDE DEF rest
    <3> QED
      BY <1>2, <1>3, <1>4, <2>1, <2>2, <2>3, <2>4, <3>1, LineIsGiven
  <2> QED
    BY <2>5 DEF Stream!Next
<1>6. CASE ~LineFull(line')
  <2>1. UNCHANGED <<Pending, Given>>
    BY <1>1, <1>2, <1>6 DEF Pending, Given, Unreturned
  <2> QED
    BY <1>4, <2>1, SilentStep
<1> QED
  BY <1>5, <1>6

LEMMA ReadEndRefines ==
  ASSUME RInv, ReadEnd
  PROVE  Stream!Next
<1>1. /\ pc = "line" /\ rio_buf = <<>> /\ arrived = <<>> /\ origin = "closed"
      /\ UNCHANGED <<origin, arrived, rio_buf, line, toClient, stored>>
      /\ IF line # <<>> THEN pc' = "write" /\ left' = line
                        ELSE pc' = "store" /\ UNCHANGED left
  BY DEF ReadEnd, originvars
<1>2. /\ line \in Seq(Bytes) /\ toClient \in Seq(Bytes) /\ Len(line) < MAXLINE
      /\ left = <<>> /\ stored = <<>> /\ \A k \in 1 .. Len(line) : line[k] # Newline
  BY <1>1 DEF RInv, TypeOK, LineInv, EndInv
<1>3. ~MayMore /\ ~MayMore' /\ ~Ended
  BY <1>1, <1>2 DEF MayMore, Ended
<1>4. Pending = line
  <2>1. Pending = (line \o <<>>) \o <<>>
    BY <1>1, <1>2 DEF Pending, Unreturned
  <2> QED
    BY <1>2, <2>1, ConcatEmptySeq
<1>5. CASE line # <<>>
  <2>1. Pending' = <<>>
    <3>1. Pending' = (<<>> \o <<>>) \o <<>>
      BY <1>1, <1>5 DEF Pending, Unreturned
    <3> QED
      BY <3>1, EmptySeq, ConcatEmptySeq
  <2>2. Given' = Given \o line
    BY <1>1, <1>2, <1>5, ConcatEmptySeq DEF Given
  <2>3. Stream!ReadLine
    <3>1. UNCHANGED <<MayMore, Ended>>
      BY <1>1, <1>3, <1>5 DEF Ended, MayMore
    <3>2. Pending = line \o <<>> /\ <<>> \in Seq(Bytes)
      BY <1>2, <1>4, ConcatEmptySeq
    <3>3. \A k \in 1 .. Len(line) - 1 : line[k] # Newline
      <4>1. \A k \in 1 .. Len(line) - 1 : k \in 1 .. Len(line)
        BY <1>2
      <4> QED
        BY <1>2, <4>1
    <3>4. PICK rest \in Seq(Bytes) : rest = <<>>
      BY <3>2
    <3> QED
      BY <1>2, <1>3, <1>5, <2>1, <2>2, <3>1, <3>2, <3>3, <3>4, LineIsGiven
  <2> QED
    BY <2>3 DEF Stream!Next
<1>6. CASE line = <<>>
  <2>1. Ended' /\ Pending = <<>>
    BY <1>1, <1>4, <1>6 DEF Ended
  <2>2. UNCHANGED <<Pending, MayMore, Given>>
    BY <1>1, <1>2, <1>6 DEF Pending, Unreturned, MayMore, Given
  <2>3. Stream!ReadEnd
    BY <1>3, <2>1, <2>2 DEF Stream!ReadEnd, Pending, Given, MayMore, Ended, Unreturned
  <2> QED
    BY <2>3 DEF Stream!Next
<1> QED
  BY <1>5, <1>6

LEMMA StepRefines == RInv /\ [Next]_vars => [Stream!Next]_(Stream!vars)
<1> SUFFICES ASSUME RInv, [Next]_vars PROVE [Stream!Next]_(Stream!vars)
  OBVIOUS
<1>1. CASE Asking
  BY <1>1, AskingStutters
<1>2. CASE Environment \/ UNCHANGED vars
  BY <1>2, EnvironmentRefines
<1>3. CASE CopyLine
  BY <1>3, CopyLineRefines
<1>4. CASE ReadEnd
  BY <1>4, ReadEndRefines
<1>5. CASE Refill
  <2>1. /\ UNCHANGED <<pc, origin, line, left, toClient, stored>> /\ RInv'
        /\ rio_buf' \o arrived' = rio_buf \o arrived
    BY <1>5, RefillInv DEF Refill
  <2>2. Pending' = Pending
    <3>1. Unreturned \in Seq(Bytes) /\ rio_buf \in Seq(Bytes) /\ arrived \in Seq(Bytes)
      BY Sequences
    <3>2. rio_buf' \in Seq(Bytes) /\ arrived' \in Seq(Bytes)
      BY <2>1 DEF RInv, TypeOK
    <3>3. Unreturned' = Unreturned
      BY <2>1 DEF Unreturned
    <3>4. (Unreturned \o rio_buf) \o arrived = Unreturned \o (rio_buf \o arrived)
      BY <3>1, Regroup
    <3>5. (Unreturned \o rio_buf') \o arrived' = Unreturned \o (rio_buf' \o arrived')
      BY SMTT(60), <3>1, <3>2, Regroup
    <3> QED
      BY <2>1, <3>3, <3>4, <3>5 DEF Pending
  <2> QED
    BY <2>1, <2>2, SilentStep DEF MayMore, Given, Ended
<1>6. CASE ReadError \/ WriteError
  <2>1. /\ UNCHANGED <<origin, arrived, rio_buf, left, toClient, stored, Unreturned>>
        /\ pc # "store" /\ pc' # "store"
    BY <1>6, ErrorInv DEF ReadError, WriteError, UnixError, originvars, relayvars
  <2> QED
    BY <2>1, SilentStep DEF Pending, MayMore, Given, Ended
<1>7. CASE Write
  <2>1. /\ UNCHANGED <<pc, origin, arrived, rio_buf, line, stored, Given>> /\ pc = "write"
    BY <1>7, WriteInv DEF Write, originvars, Given
  <2> QED
    BY <2>1, SilentStep DEF Pending, Unreturned, MayMore, Ended
<1>8. CASE Keep
  <2>1. /\ UNCHANGED <<origin, arrived, rio_buf, left, toClient, stored>>
        /\ pc = "write" /\ pc' \in {"line", "overflow"} /\ left = <<>> /\ line' = <<>>
    BY <1>8 DEF Keep, originvars
  <2>2. Unreturned' = Unreturned
    BY <2>1 DEF Unreturned
  <2> QED
    BY <2>1, <2>2, SilentStep DEF Pending, MayMore, Given, Ended
<1>9. CASE Store
  <2>1. /\ UNCHANGED <<origin, arrived, rio_buf, line, left, toClient>>
        /\ pc = "store" /\ pc' = "done" /\ stored' # <<>>
    BY <1>9 DEF Store, originvars
  <2> QED
    BY <2>1, SilentStep DEF Pending, Unreturned, MayMore, Given, Ended
<1> QED
  BY <1>1, <1>2, <1>3, <1>4, <1>5, <1>6, <1>7, <1>8, <1>9 DEF Next, Doit, Asking

\* doit() implements LineStream: whatever counts read() and write() return, the client is
\* given the lines of the answer, every byte once and in order, and the end only after the
\* last of them (csapp.c:785-912, proxy.c:257-299).
THEOREM Refinement == Spec => ImplementsStream
BY Invariance, InitRefines, StepRefines, PTL DEF Spec, ImplementsStream, Stream!Spec

-----------------------------------------------------------------------------
(* What construct_message() copies.                                          *)

\* What is selected of the first lines of h, when s is what is selected of those before line n.
Adds(h, s, n) == IF h[n] \in {"own", "blank"} THEN s ELSE Append(s, h[n])
IsSelection(h, m, f) == f = [n \in 0 .. m |-> IF n = 0 THEN <<>> ELSE Adds(h, f[n - 1], n)]

LEMMA Grows ==
  ASSUME NEW h, NEW m \in Nat, NEW f, IsSelection(h, m, f)
  PROVE  \E g : IsSelection(h, m + 1, g)
<1> DEFINE g == [n \in 0 .. m + 1 |-> IF n = m + 1 THEN Adds(h, f[m], m + 1) ELSE f[n]]
<1>1. ASSUME NEW n \in 0 .. m + 1 PROVE g[n] = IF n = 0 THEN <<>> ELSE Adds(h, g[n - 1], n)
  <2>1. CASE n = m + 1
    <3>1. g[m] = f[m] /\ n # 0 /\ n - 1 = m
      BY <2>1
    <3> QED
      BY <2>1, <3>1
  <2>2. CASE n # m + 1 /\ n # 0
    <3>1. n \in 0 .. m /\ n - 1 \in 0 .. m
      BY <2>2
    <3>2. f[n] = Adds(h, f[n - 1], n)
      BY <2>2, <3>1 DEF IsSelection
    <3>3. g[n] = f[n] /\ g[n - 1] = f[n - 1]
      BY <2>2, <3>1
    <3> QED
      BY <2>2, <3>2, <3>3
  <2>3. CASE n = 0
    BY <2>3 DEF IsSelection
  <2> QED
    BY <2>1, <2>2, <2>3
<1>2. g = [n \in 0 .. m + 1 |-> g[n]]
  OBVIOUS
<1> HIDE DEF g
<1> QED
  BY <1>1, <1>2 DEF IsSelection

\* By the least m of which there is none.
LEMMA SelectionExists ==
  ASSUME NEW h, NEW m \in Nat
  PROVE  \E f : IsSelection(h, m, f)
<1> DEFINE S == {n \in 0 .. m : ~\E f : IsSelection(h, n, f)}
<1>1. CASE S = {}
  BY <1>1
<1>2. CASE S # {}
  <2>1. S \in SUBSET (0 .. m)
    OBVIOUS
  <2>2. PICK n \in S : \A k \in S : n <= k
    <3> HIDE DEF S
    <3> QED
      BY <1>2, <2>1, LeastBelow
  <2>3. n # 0
    <3>1. IsSelection(h, 0, [k \in 0 .. 0 |-> <<>>])
      BY DEF IsSelection
    <3> QED
      BY <3>1
  <2>4. n - 1 \in 0 .. m /\ n - 1 \notin S
    BY <2>2, <2>3
  <2>5. PICK f : IsSelection(h, n - 1, f)
    BY <2>4
  <2>6. \E g : IsSelection(h, n - 1 + 1, g)
    BY <2>4, <2>5, Grows
  <2>7. n - 1 + 1 = n
    BY <2>4
  <2> QED
    BY <2>6, <2>7
<1> QED
  BY <1>1, <1>2

LEMMA SelectedIs ==
  ASSUME NEW h, Len(h) \in Nat
  PROVE  IsSelection(h, Len(h), Selected(h))
<1>1. PICK f : IsSelection(h, Len(h), f)
  BY SelectionExists
<1> QED
  BY <1>1 DEF Selected, IsSelection, Adds

Agree(h, j, m) == \A k \in 1 .. m : h[k] = j[k]

\* Two sequences that agree on their first m lines have the same selection of them.
LEMMA SelectionUnique ==
  ASSUME NEW h, NEW j, NEW m \in Nat, NEW n \in Nat, m <= n, NEW f, NEW g,
         IsSelection(h, m, f), IsSelection(j, n, g), Agree(h, j, m)
  PROVE  \A k \in 0 .. m : f[k] = g[k]
<1> DEFINE S == {k \in 0 .. m : f[k] # g[k]}
<1>1. CASE S = {}
  BY <1>1
<1>2. CASE S # {}
  <2>1. S \in SUBSET (0 .. m)
    OBVIOUS
  <2>2. PICK k \in S : \A q \in S : k <= q
    <3> HIDE DEF S
    <3> QED
      BY <1>2, <2>1, LeastBelow
  <2>3. k # 0
    BY DEF IsSelection
  <2>4. k - 1 \in 0 .. m /\ k - 1 \notin S /\ k \in 1 .. m
    BY <2>2, <2>3
  <2>5. f[k - 1] = g[k - 1] /\ h[k] = j[k]
    BY <2>4 DEF Agree
  <2>6. f[k] = Adds(h, f[k - 1], k) /\ g[k] = Adds(j, g[k - 1], k)
    BY <2>3, <2>4 DEF IsSelection
  <2> QED
    BY <2>2, <2>5, <2>6 DEF Adds
<1> QED
  BY <1>1, <1>2

LEMMA CopiedEmpty == Copied(<<>>) = <<>>
BY SelectedIs DEF Copied, IsSelection

LEMMA CopiedAppend ==
  ASSUME NEW h \in Seq(Request), NEW l \in Request
  PROVE  Copied(Append(h, l)) = IF l \in {"own", "blank"} THEN Copied(h) ELSE Append(Copied(h), l)
<1> DEFINE j == Append(h, l)
<1>1. /\ Len(h) \in Nat /\ Len(j) = Len(h) + 1 /\ j[Len(h) + 1] = l
      /\ Agree(h, j, Len(h))
  BY DEF Agree
<1> HIDE DEF j
<1>2. IsSelection(h, Len(h), Selected(h)) /\ IsSelection(j, Len(h) + 1, Selected(j))
  BY <1>1, SelectedIs
<1>3. Selected(h)[Len(h)] = Selected(j)[Len(h)]
  <2>1. Len(h) <= Len(h) + 1 /\ Len(h) + 1 \in Nat /\ Len(h) \in 0 .. Len(h)
    BY <1>1
  <2>2. \A k \in 0 .. Len(h) : Selected(h)[k] = Selected(j)[k]
    BY <1>1, <1>2, <2>1, SelectionUnique
  <2> QED
    BY <2>1, <2>2
<1>4. Selected(j)[Len(h) + 1] = Adds(j, Selected(j)[Len(h)], Len(h) + 1)
  <2>1. Len(h) + 1 \in 0 .. Len(h) + 1 /\ Len(h) + 1 # 0 /\ Len(h) + 1 - 1 = Len(h)
    BY <1>1
  <2> QED
    BY <1>2, <2>1 DEF IsSelection
<1> QED
  BY <1>1, <1>3, <1>4 DEF Copied, Adds, j

\* The headers that were read, r, and those that were not, b, make up what was sent.
LEMMA ReadOne ==
  ASSUME NEW S, NEW r \in Seq(S), NEW b \in Seq(S), b # <<>>
  PROVE  Append(r, Head(b)) \o Tail(b) = r \o b
<1>1. Head(b) \in S /\ Tail(b) \in Seq(S) /\ <<Head(b)>> \in Seq(S)
  OBVIOUS
<1>2. Append(r, Head(b)) = r \o <<Head(b)>>
  BY <1>1, AppendIsConcat
<1>3. <<Head(b)>> \o Tail(b) = b
  <2>1. /\ Len(<<Head(b)>> \o Tail(b)) = 1 + Len(Tail(b))
        /\ <<Head(b)>> \o Tail(b) \in Seq(S)
        /\ \A k \in 1 .. 1 + Len(Tail(b)) :
             (<<Head(b)>> \o Tail(b))[k] = IF k <= 1 THEN Head(b) ELSE Tail(b)[k - 1]
    BY <1>1, ConcatProperties
  <2>2. Len(b) = 1 + Len(Tail(b)) /\ \A k \in 1 .. Len(Tail(b)) : Tail(b)[k] = b[k + 1]
    OBVIOUS
  <2>3. \A k \in 1 .. Len(b) : (<<Head(b)>> \o Tail(b))[k] = b[k]
    <3> SUFFICES ASSUME NEW k \in 1 .. Len(b) PROVE (<<Head(b)>> \o Tail(b))[k] = b[k]
      OBVIOUS
    <3>1. CASE k = 1
      BY <2>1, <2>2, <3>1
    <3>2. CASE k # 1
      BY <2>1, <2>2, <3>2
    <3> QED
      BY <3>1, <3>2
  <2> QED
    BY <2>1, <2>2, <2>3, SeqEqual
<1> QED
  BY <1>1, <1>2, <1>3, ConcatAssociative

\* While the headers are read: r is what was read of them.
HeadersRead(r) ==
  /\ asked = r \o inbox /\ "blank" \notin Values(r)
  /\ Copied(r) \in Seq(Request) /\ count = Len(Preamble) + Len(Copied(r))
  /\ count < HEADLINES => message = Preamble \o Copied(r)
  /\ "part" \in Values(message) => "part" \in Values(r)

\* A request ends with its empty line or with a line that was cut, and until it was sent message
\* holds it.
HeadInv ==
  /\ \A k \in 1 .. Len(asked) : asked[k] \in {"blank", "part"} => k = Len(asked)
  /\ pc = "request" => inbox = asked
  /\ pc = "headers" => \E r \in Seq(Request) : HeadersRead(r)
  /\ pc \in {"connect", "send"} /\ Whole(asked) /\ Fits =>
       message = Preamble \o Copied(asked) \o <<"blank">>

Lines == Request \cup {Preamble[k] : k \in 1 .. 5}

LEMMA PreambleIs ==
  /\ Preamble \in Seq(Lines) /\ Len(Preamble) = 5 /\ "part" \notin Values(Preamble)
  /\ Seq(Request) \subseteq Seq(Lines)
<1>1. Len(Preamble) = 5
  BY DEF Preamble
<1>2. Preamble \in Seq(Lines)
  BY <1>1 DEF Lines, Preamble
<1>3. "part" \notin Values(Preamble)
  BY DEF Values, Preamble
<1>4. Seq(Request) \subseteq Seq(Lines)
  BY SeqMonotonic DEF Lines
<1> QED
  BY <1>1, <1>2, <1>3, <1>4

LEMMA RegroupLines ==
  \A a, b, c \in Seq(Lines) : (a \o b) \o c = a \o (b \o c)
<1> TAKE a, b, c \in Seq(Lines)
<1> QED
  BY SMTT(60), ConcatAssociative

LEMMA ValuesOfAppend ==
  ASSUME NEW S, NEW s \in Seq(S), NEW l \in S
  PROVE  Values(Append(s, l)) = Values(s) \cup {l}
<1>1. /\ Len(s) \in Nat /\ Len(Append(s, l)) = Len(s) + 1
      /\ Append(s, l)[Len(s) + 1] = l
      /\ \A k \in 1 .. Len(s) : Append(s, l)[k] = s[k]
  OBVIOUS
<1>2. 1 .. Len(s) + 1 = (1 .. Len(s)) \cup {Len(s) + 1}
  BY <1>1
<1> QED
  BY <1>1, <1>2 DEF Values

LEMMA HeadInit == Init => HeadInv
BY DEF Init, HeadInv

\* Steps after the request was sent, and those that change nothing it is made of.
Quiet == /\ asked' = asked /\ inbox' = inbox /\ message' = message /\ count' = count
         /\ \/ pc' = pc
            \/ pc' \notin {"request", "headers", "connect", "send"}
            \/ pc = "connect" /\ pc' = "send"

LEMMA HeadQuiet ==
  ASSUME HeadInv, Quiet
  PROVE  HeadInv'
BY DEF Quiet, HeadInv, HeadersRead, Fits, Whole

LEMMA HeadStart ==
  ASSUME RInv, HeadInv, ReadRequestLine
  PROVE  HeadInv'
<1>1. /\ pc = "request" /\ pc' = "headers" /\ asked' = asked /\ inbox' = inbox
      /\ message' = Preamble /\ count' = Len(Preamble)
  BY DEF ReadRequestLine, StartMessage, clientvars
<1>2. <<>> \in Seq(Request) /\ Copied(<<>>) = <<>> /\ Values(<<>>) = {} /\ Len(<<>>) = 0
  BY CopiedEmpty DEF Values
<1>3. asked \in Seq(Request) /\ <<>> \o asked = asked /\ Preamble \o <<>> = Preamble
  BY PreambleIs, ConcatEmptySeq DEF RInv, TypeOK
<1>4. HeadersRead(<<>>)'
  <2>1. asked' = <<>> \o inbox'
    BY <1>1, <1>3 DEF HeadInv
  <2>2. count' = Len(Preamble) + Len(Copied(<<>>)) /\ Copied(<<>>) \in Seq(Request)
    <3>1. Len(Copied(<<>>)) = 0 /\ Copied(<<>>) \in Seq(Request)
      BY <1>2
    <3> QED
      BY <1>1, <3>1, PreambleIs
  <2>3. message' = Preamble \o Copied(<<>>) /\ "part" \notin Values(message')
    BY <1>1, <1>2, <1>3, PreambleIs
  <2> QED
    BY <1>2, <2>1, <2>2, <2>3 DEF HeadersRead
<1> QED
  BY <1>1, <1>2, <1>4 DEF HeadInv

LEMMA HeadSends ==
  ASSUME RInv, HeadInv, NEW h \in Request, ClientSends(h)
  PROVE  HeadInv'
<1>1. /\ pc \in {"request", "headers"} /\ pc' = pc
      /\ asked' = Append(asked, h) /\ inbox' = Append(inbox, h)
      /\ message' = message /\ count' = count
      /\ \A k \in 1 .. Len(asked) : asked[k] \notin {"blank", "part"}
  BY DEF ClientSends
<1>2. asked \in Seq(Request) /\ inbox \in Seq(Request)
  BY DEF RInv, TypeOK
<1>3. \A k \in 1 .. Len(asked') : asked'[k] \in {"blank", "part"} => k = Len(asked')
  BY <1>1, <1>2
<1>4. ASSUME pc = "headers" PROVE \E r \in Seq(Request) : HeadersRead(r)'
  <2>1. PICK r \in Seq(Request) : HeadersRead(r)
    BY <1>4 DEF HeadInv
  <2>2. Append(r \o inbox, h) = r \o Append(inbox, h)
    <3>1. <<h>> \in Seq(Request) /\ r \o inbox \in Seq(Request)
      BY <1>2, ConcatProperties
    <3>2. /\ Append(r \o inbox, h) = (r \o inbox) \o <<h>>
          /\ Append(inbox, h) = inbox \o <<h>>
      BY <1>2, <3>1, AppendIsConcat
    <3>3. r \in Seq(Lines) /\ inbox \in Seq(Lines) /\ <<h>> \in Seq(Lines)
      BY <1>2, <3>1, PreambleIs
    <3>4. (r \o inbox) \o <<h>> = r \o (inbox \o <<h>>)
      BY <3>3, RegroupLines
    <3> QED
      BY <3>2, <3>4
  <2> QED
    BY <1>1, <2>1, <2>2 DEF HeadersRead
<1> QED
  BY <1>1, <1>3, <1>4 DEF HeadInv

LEMMA HeadCopies ==
  ASSUME RInv, HeadInv, CopyHeader
  PROVE  HeadInv'
<1>1. pc = "headers" /\ pc' = pc /\ asked' = asked /\ inbox # <<>> /\ inbox' = Tail(inbox)
  BY DEF CopyHeader
<1>2. /\ inbox \in Seq(Request) /\ message \in Seq(Lines) /\ count \in Nat
  BY DEF RInv, TypeOK, Lines
<1>l. PICK l \in Request : l = Head(inbox)
  BY <1>1, <1>2
<1>3. PICK r \in Seq(Request) : HeadersRead(r)
  BY <1>1 DEF HeadInv
<1>4. \/ l = "own" /\ message' = message /\ count' = count
      \/ /\ l \notin {"own", "blank"} /\ count' = count + 1
         /\ message' = IF count < HEADLINES - 1 THEN Append(message, l) ELSE message
  BY <1>l, HeadersAssumption DEF CopyHeader, SnPrintf, HeadersAssumption
<1>q. PICK q \in Seq(Request) : q = Append(r, l)
  <2>1. Append(r, l) \in Seq(Request)
    OBVIOUS
  <2> QED
    BY <2>1
<1>5. asked' = q \o inbox'
  BY <1>1, <1>2, <1>3, <1>l, <1>q, ReadOne DEF HeadersRead
<1>6. Values(q) = Values(r) \cup {l}
  BY <1>3, <1>q, ValuesOfAppend
<1>7. Copied(q) = IF l \in {"own", "blank"} THEN Copied(r) ELSE Append(Copied(r), l)
  BY <1>3, <1>q, CopiedAppend
<1>m. l \in Lines
  BY DEF Lines
<1>8. HeadersRead(q)'
  <2>1. CASE l = "own"
    <3>1. Copied(q) = Copied(r) /\ message' = message /\ count' = count
      BY <1>4, <1>7, <2>1
    <3>2. "blank" \notin Values(q) /\ ("part" \in Values(q) <=> "part" \in Values(r))
      BY <1>3, <1>6, <2>1 DEF HeadersRead
    <3> QED
      BY <1>3, <1>5, <3>1, <3>2 DEF HeadersRead
  <2>2. CASE l # "own"
    <3>1. Copied(q) = Append(Copied(r), l) /\ count' = count + 1 /\ l # "blank"
          /\ message' = IF count < HEADLINES - 1 THEN Append(message, l) ELSE message
      BY <1>4, <1>7, <2>2
    <3>2. Copied(r) \in Seq(Request) /\ count = Len(Preamble) + Len(Copied(r))
      BY <1>3 DEF HeadersRead
    <3>3. Copied(q) \in Seq(Request) /\ Len(Copied(q)) = Len(Copied(r)) + 1
      BY <1>2, <3>1, <3>2
    <3>4. count' = Len(Preamble) + Len(Copied(q))
      <4>1. Len(Copied(r)) \in Nat
        BY <3>2
      <4> QED
        BY <3>1, <3>2, <3>3, <4>1, PreambleIs
    <3>5. ASSUME count' < HEADLINES PROVE message' = Preamble \o Copied(q)
      <4>1. count < HEADLINES - 1 /\ count < HEADLINES
        BY <1>2, <3>1, <3>5
      <4>2. message = Preamble \o Copied(r)
        BY <1>3, <4>1 DEF HeadersRead
      <4>3. Append(Preamble \o Copied(r), l) = Preamble \o Append(Copied(r), l)
        <5>1. /\ <<l>> \in Seq(Lines) /\ Copied(r) \in Seq(Lines)
              /\ Preamble \o Copied(r) \in Seq(Lines)
          BY <1>m, <3>2, PreambleIs, ConcatProperties
        <5>2. /\ Append(Preamble \o Copied(r), l) = (Preamble \o Copied(r)) \o <<l>>
              /\ Append(Copied(r), l) = Copied(r) \o <<l>>
          BY SMTT(60), <1>m, <5>1, AppendIsConcat
        <5>3. (Preamble \o Copied(r)) \o <<l>> = Preamble \o (Copied(r) \o <<l>>)
          BY SMTT(60), <5>1, PreambleIs, RegroupLines
        <5> QED
          BY <5>2, <5>3
      <4> QED
        BY <3>1, <4>1, <4>2, <4>3
    <3>6. "part" \in Values(message') => "part" \in Values(q)
      <4>1. Values(Append(message, l)) = Values(message) \cup {l}
        BY <1>2, <1>m, ValuesOfAppend
      <4> QED
        BY <1>3, <1>6, <3>1, <4>1 DEF HeadersRead
    <3>7. "blank" \notin Values(q)
      BY <1>3, <1>6, <3>1 DEF HeadersRead
    <3> QED
      BY <1>5, <3>3, <3>4, <3>5, <3>6, <3>7 DEF HeadersRead
  <2> QED
    BY <2>1, <2>2
<1> QED
  BY <1>1, <1>8 DEF HeadInv

LEMMA HeadEnds ==
  ASSUME RInv, HeadInv, EndHeaders
  PROVE  HeadInv'
<1>1. /\ pc = "headers" /\ pc' \notin {"request", "headers"} /\ asked' = asked
      /\ \/ inbox # <<>> /\ Head(inbox) = "blank"
         \/ inbox = <<>>
      /\ IF message[Len(message)] = "part" THEN message' = message ELSE SnPrintf("blank")
  BY DEF EndHeaders, EndOfHeaders, UnixError
<1>2. asked \in Seq(Request) /\ inbox \in Seq(Request) /\ message \in Seq(Lines) /\ count \in Nat
  BY DEF RInv, TypeOK, Lines
<1>3. PICK r \in Seq(Request) : HeadersRead(r)
  BY <1>1 DEF HeadInv
<1>4. ASSUME Whole(asked), Fits
      PROVE  message' = Preamble \o Copied(asked) \o <<"blank">>
  <2>1. /\ Len(r) \in Nat /\ Len(inbox) \in Nat /\ Len(asked) = Len(r) + Len(inbox)
        /\ \A k \in 1 .. Len(asked) :
             asked[k] = IF k <= Len(r) THEN r[k] ELSE inbox[k - Len(r)]
    BY <1>2, <1>3, ConcatProperties DEF HeadersRead
  <2>2. PICK k \in 1 .. Len(asked) : asked[k] = "blank"
    BY <1>4 DEF Whole
  <2>3. k > Len(r)
    BY <1>3, <2>1, <2>2 DEF HeadersRead, Values
  <2>4. inbox # <<>> /\ Head(inbox) = "blank"
    <3>1. Len(inbox) > 0
      BY <2>1, <2>2, <2>3
    <3> QED
      BY <1>1, <3>1
  <2>5. Len(inbox) = 1
    <3>1. inbox[1] = "blank" /\ Len(inbox) >= 1
      BY <1>2, <2>4
    <3>2. Len(r) + 1 \in 1 .. Len(asked) /\ asked[Len(r) + 1] = inbox[1]
      BY <2>1, <3>1
    <3>3. Len(r) + 1 = Len(r) + Len(inbox)
      BY <2>1, <3>1, <3>2 DEF HeadInv
    <3>4. Len(r) \in Nat /\ Len(inbox) \in Nat
      BY <2>1
    <3>5. \A a, b \in Nat : a + 1 = a + b => b = 1
      OBVIOUS
    <3> QED
      BY ZenonT(30), <3>3, <3>4, <3>5
  <2>6. asked = Append(r, "blank")
    <3>1. "blank" \in Request /\ Append(r, "blank") \in Seq(Request)
          /\ Len(Append(r, "blank")) = Len(r) + 1
      BY <1>3 DEF Request
    <3>2. \A n \in 1 .. Len(asked) : asked[n] = Append(r, "blank")[n]
      <4>1. inbox[1] = "blank"
        BY <1>2, <2>4
      <4>2. Len(asked) = Len(r) + 1
        BY <2>1, <2>5
      <4>3. asked[Len(r) + 1] = "blank"
        BY <2>1, <2>5, <4>1
      <4> QED
        BY <1>3, <2>1, <4>2, <4>3
    <3> QED
      BY <1>2, <2>1, <2>5, <3>1, <3>2, SeqEqual
  <2>7. Copied(asked) = Copied(r)
    BY <1>3, <2>6, CopiedAppend DEF Request
  <2>8. count < HEADLINES - 1 /\ message = Preamble \o Copied(r)
    <3>1. /\ count = Len(Preamble) + Len(Copied(r)) /\ Len(Copied(r)) \in Nat
          /\ Len(Copied(r)) + Len(Preamble) + 1 < HEADLINES
      BY <1>3, <1>4, <2>7 DEF HeadersRead, Fits
    <3>2. count < HEADLINES - 1 /\ count < HEADLINES
      BY <3>1, PreambleIs
    <3> QED
      BY <1>3, <3>2 DEF HeadersRead
  <2>9. message[Len(message)] # "part"
    <3>1. "part" \notin Values(r)
      <4> SUFFICES ASSUME NEW n \in 1 .. Len(r), r[n] = "part" PROVE FALSE
        BY DEF Values
      <4>1. n \in 1 .. Len(asked) /\ asked[n] = "part" /\ n # Len(asked)
        BY <2>1, <2>5
      <4> QED
        BY <4>1 DEF HeadInv
    <3>2. "part" \notin Values(message)
      BY <1>3, <3>1 DEF HeadersRead
    <3>3. Len(message) \in 1 .. Len(message)
      <4>1. Copied(r) \in Seq(Lines) /\ Preamble \in Seq(Lines)
        BY <1>3, PreambleIs DEF HeadersRead
      <4>2. Len(Preamble \o Copied(r)) = Len(Preamble) + Len(Copied(r)) /\ Len(Copied(r)) \in Nat
        BY <4>1, ConcatProperties
      <4>3. Len(message) = 5 + Len(Copied(r))
        BY <2>8, <4>2, PreambleIs
      <4> QED
        BY <4>2, <4>3
    <3> QED
      BY <3>2, <3>3 DEF Values
  <2>10. message' = Append(message, "blank")
    BY <1>1, <2>8, <2>9 DEF SnPrintf
  <2>11. "blank" \in Lines
    BY DEF Lines, Request
  <2> QED
    BY <1>2, <2>7, <2>8, <2>10, <2>11, AppendIsConcat
<1>5. Whole(asked)' = Whole(asked) /\ Fits' = Fits
  BY <1>1 DEF Whole, Fits
<1> QED
  BY <1>1, <1>4, <1>5 DEF HeadInv

LEMMA HeadNext ==
  ASSUME RInv, HeadInv, [Next]_vars
  PROVE  HeadInv'
<1>1. CASE ReadRequestLine
  BY <1>1, HeadStart
<1>2. CASE CopyHeader
  BY <1>2, HeadCopies
<1>3. CASE EndHeaders
  BY <1>3, HeadEnds
<1>4. CASE \E h \in Request : ClientSends(h)
  BY <1>4, HeadSends
<1>5. CASE SendRequest
  <2>1. pc' = "line" /\ asked' = <<>>
    BY <1>5 DEF SendRequest
  <2> QED
    BY <2>1 DEF HeadInv
<1>6. CASE \/ NotImplemented \/ ClientError \/ HeadersOverflow \/ Connect \/ ConnectFails \/ SendError
           \/ \E how \in {"shut", "gone"} : ClientEnds(how)
           \/ \E b \in Bytes : OriginSends(b)
           \/ \E how \in {"closed", "reset"} : OriginEnds(how)
           \/ UNCHANGED vars
  <2>1. Quiet
    BY <1>6 DEF Quiet, NotImplemented, ClientError, HeadersOverflow, Connect, ConnectFails,
                SendError, ClientEnds, OriginSends, OriginEnds, UnixError, clientvars, vars
  <2> QED
    BY <2>1, HeadQuiet
<1>7. CASE Refill \/ CopyLine \/ ReadEnd \/ ReadError \/ Write \/ WriteError \/ Keep \/ Store
  <2>1. Quiet
    BY <1>7 DEF Quiet, Refill, CopyLine, ReadEnd, ReadError, Write, WriteError, Keep, Store,
                UnixError, clientvars
  <2> QED
    BY <2>1, HeadQuiet
<1> QED
  BY <1>1, <1>2, <1>3, <1>4, <1>5, <1>6, <1>7 DEF Next, Doit, Environment

\* The origin gets the five lines of the proxy, the headers of the client that are not among those,
\* in order, and the empty line, whatever number of them fits message (proxy.c:149-193).
THEOREM RequestCorrect == Spec => []RequestWhole
<1>1. HeadInv => RequestWhole
  BY DEF HeadInv, RequestWhole
<1> QED
  BY <1>1, HeadInit, HeadNext, Invariance, PTL DEF Spec

=============================================================================
