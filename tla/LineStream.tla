---------------------------- MODULE LineStream ----------------------------
(***************************************************************************)
(* What rio_readlineb() promises of a connection (proxylab/csapp.c:866):   *)
(* a reader is given the bytes that were sent, all of them, in order and   *)
(* once, cut after every newline or when its buffer is full; only the last *)
(* piece may end elsewhere, and the end is reported after the last byte.   *)
(***************************************************************************)
EXTENDS Integers, Sequences

CONSTANTS Bytes, Newline,
          maxlen         \* size of the reader's buffer, its terminator included

VARIABLES stream,        \* sent and not yet given to the reader
          open,          \* the sender may send more
          given,         \* given to the reader so far
          ended          \* the reader was told of the end

vars == <<stream, open, given, ended>>

Init == stream = <<>> /\ open = TRUE /\ given = <<>> /\ ended = FALSE

\* The sender is external.
Send == /\ open
        /\ \E b \in Bytes : stream' = Append(stream, b)
        /\ UNCHANGED <<open, given, ended>>

Close == /\ open
         /\ open' = FALSE
         /\ UNCHANGED <<stream, given, ended>>

\* The first n bytes are one line, one full buffer, or the unfinished line before the end.
IsLine(n) ==
  /\ \A k \in 1 .. n - 1 : stream[k] # Newline
  /\ \/ stream[n] = Newline
     \/ n = maxlen - 1
     \/ ~open /\ n = Len(stream)

ReadLine ==
  /\ ~ended
  /\ \E n \in 1 .. Len(stream) :
       /\ n < maxlen /\ IsLine(n)
       /\ given' = given \o SubSeq(stream, 1, n)
       /\ stream' = SubSeq(stream, n + 1, Len(stream))
  /\ UNCHANGED <<open, ended>>

ReadEnd == /\ ~open /\ stream = <<>> /\ ~ended
           /\ ended' = TRUE
           /\ UNCHANGED <<stream, open, given>>

Next == Send \/ Close \/ ReadLine \/ ReadEnd

Spec == Init /\ [][Next]_vars
=============================================================================
