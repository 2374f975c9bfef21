------------------------------- MODULE Texts -------------------------------
(***************************************************************************)
(* The functions that take a text apart: parseline() of shelllab/tsh.c,    *)
(* parse_url() of proxylab/proxy.c and parse_uri() of proxylab/tiny/tiny.c;*)
(* and sio_putl() of proxylab/csapp.c, which makes one of a number.        *)
(* A text is a sequence of characters; the NUL is its end.  Every text     *)
(* here is composed of the parts that the function is to find in it.       *)
(***************************************************************************)
EXTENDS Integers, Sequences, SequencesExt

CONSTANTS Plain,      \* characters without a meaning
          Digit,      \* those of a number
          MaxArgs,    \* bounds: arguments of a command line, spaces side by side, characters
          MaxSpaces,  \*   of a word and of a path, and digits of a port, which is an int
          MaxWord,
          MaxPath,
          MaxDigits,
          LONG_MAX    \* the largest long

VARIABLE text        \* the parts, and how they are written

Space == " "
Quote == "'"
Slash == "/"
Colon == ":"

\* index(s, c) from a place on: 0 for NULL.
IndexFrom(s, c, from) ==
  LET places == {p \in from .. Len(s) : s[p] = c}
  IN  IF places = {} THEN 0 ELSE CHOOSE p \in places : \A q \in places : p <= q
After(s, from) == SubSeq(s, from, Len(s))

-----------------------------------------------------------------------------
(* parseline().                                                              *)

\* The first character at or after from that is not a space, or the end.
SkipSpaces(s, from) == CHOOSE p \in from .. Len(s) + 1 :
  (p <= Len(s) => s[p] # Space) /\ \A q \in from .. p - 1 : s[q] = Space

\* Mutation: the text of an argument in quotes begins with the quote.
BeginsAt_KeepsQuote(s, p) == p

\* Where the text of the argument at p begins and where its delimiter is, 0 if it has none.
BeginsAt(s, p) == IF p <= Len(s) /\ s[p] = Quote THEN p + 1 ELSE p
DelimAt(s, p) == IF p <= Len(s) /\ s[p] = Quote THEN IndexFrom(s, Quote, p + 1)
                 ELSE IndexFrom(s, Space, p)

\* argv: the loop ends at the first argument without a delimiter, which is lost.
Argv(line) ==
  LET s == [line EXCEPT ![Len(line)] = Space]
      argsFrom[from \in 1 .. Len(s) + 1] ==
        LET p == SkipSpaces(s, from)
            delim == DelimAt(s, p)
        IN  IF delim = 0 THEN <<>>
            ELSE <<SubSeq(s, BeginsAt(s, p), delim - 1)>> \o argsFrom[delim + 1]
  IN  argsFrom[1]

parseline(line) ==
  LET argv == Argv(line)
      bg == argv # <<>> /\ Last(argv) # <<>> /\ Last(argv)[1] = "&"
  IN  IF argv = <<>> THEN [argv |-> argv, bg |-> TRUE]
      ELSE [argv |-> IF bg THEN Front(argv) ELSE argv, bg |-> bg]

-----------------------------------------------------------------------------
(* parse_url(): what a url without `//' leaves in the storage, which is not  *)
(* initialised, is not said.                                                 *)

\* sscanf("%d%s") and sprintf("%d"): the digits without the zeros in front, and the rest.
DigitsEnd(s, from) == CHOOSE p \in from .. Len(s) + 1 :
  (p <= Len(s) => s[p] \notin Digit) /\ \A q \in from .. p - 1 : s[q] \in Digit
Number(s) == CHOOSE n \in Suffixes(s) \ {<<>>} :
  /\ Len(n) = 1 \/ n[1] # "0"
  /\ \A p \in 1 .. Len(s) - Len(n) : s[p] = "0"

\* The first colon after `//', if it is one of a port or not.
PortAt(url, host) == IndexFrom(url, Colon, host)

parse_url(url) ==
  LET host == CHOOSE p \in 3 .. Len(url) :
                /\ url[p - 2] = Slash /\ url[p - 1] = Slash
                /\ \A q \in 3 .. p - 1 : url[q - 2] # Slash \/ url[q - 1] # Slash
      idx == IndexFrom(url, Slash, host)
      port == PortAt(url, host)
      path == DigitsEnd(url, port + 1)
  IN  IF port # 0
      THEN [hostname |-> SubSeq(url, host, port - 1),
            port |-> Number(SubSeq(url, port + 1, path - 1)), filename |-> After(url, path)]
      ELSE [hostname |-> SubSeq(url, host, idx - 1), port |-> <<"8", "0">>, filename |-> After(url, idx)]

-----------------------------------------------------------------------------
(* parse_uri(): "cgi-bin", "home.html" and each suffix are one character.    *)

CGI == "cgi-bin"
HOME == "home.html"

parse_uri(uri) ==
  LET ptr == IndexFrom(uri, "?", 1)
  IN  CASE IndexFrom(uri, CGI, 1) = 0 ->
             [static |-> TRUE, cgiargs |-> <<>>,
              filename |-> <<".">> \o uri \o IF Last(uri) = Slash THEN <<HOME>> ELSE <<>>]
        [] IndexFrom(uri, CGI, 1) # 0 /\ ptr = 0 ->
             [static |-> FALSE, cgiargs |-> <<>>, filename |-> <<".">> \o uri]
        [] OTHER ->
             [static |-> FALSE, cgiargs |-> After(uri, ptr + 1),
              filename |-> <<".">> \o SubSeq(uri, 1, ptr - 1)]

\* strstr(): the name has the suffix anywhere in it; that of "home.html" is one of its own.
FILETYPES == <<<<".html", "text/html">>, <<".gif", "image/gif">>,
               <<".png", "image/png">>, <<".jpg", "image/jpeg">>>>

Suffix == {FILETYPES[k][1] : k \in DOMAIN FILETYPES}
Has(filename, suffix) == \E k \in DOMAIN filename :
  filename[k] = suffix \/ (filename[k] = HOME /\ suffix = ".html")

get_filetype(filename) ==
  LET k == SelectInSeq(FILETYPES, LAMBDA type : Has(filename, type[1]))
  IN  IF k = 0 THEN "text/plain" ELSE FILETYPES[k][2]

-----------------------------------------------------------------------------
(* sio_putl().  A character is its distance from the character 0.            *)

LONG_MIN == -LONG_MAX - 1
MINUS == -3

sio_reverse(s) == Reverse(s)

\* -LONG_MIN overflows: it is LONG_MIN again, of which the loop takes one digit, less than 0.
sio_ltoa(v, b) ==
  LET neg == v < 0
      digits[u \in 0 .. LONG_MAX] == <<u % b>> \o IF u < b THEN <<>> ELSE digits[u \div b]
  IN  sio_reverse((IF v = LONG_MIN THEN <<-((-v) % b)>> ELSE digits[IF neg THEN -v ELSE v])
                    \o IF neg THEN <<MINUS>> ELSE <<>>)

sio_putl(v) == sio_ltoa(v, 10)

-----------------------------------------------------------------------------
(* The texts: arguments with or without quotes, spaces before each of them;  *)
(* a url of host, port and path; a uri of a path and arguments.              *)

Upto(n, S) == UNION {[1 .. k -> S] : k \in 0 .. n}

Arguments == {a \in [quoted : BOOLEAN, word : Upto(MaxWord, Plain \cup {"&", Space, Quote}), spaces : 0 .. MaxSpaces] :
                IF a.quoted THEN \A k \in DOMAIN a.word : a.word[k] # Quote
                ELSE a.word # <<>> /\ a.word[1] # Quote /\ \A k \in DOMAIN a.word : a.word[k] # Space}
Lines == {t \in [kind : {"line"}, args : Upto(MaxArgs, Arguments), spaces : 0 .. MaxSpaces] :
            \A k \in DOMAIN t.args : k = 1 \/ t.args[k - 1].quoted \/ t.args[k].spaces > 0}

Ports == {port \in Upto(MaxDigits, Digit) : port # <<>> => port[1] # "0"}
Urls == [kind : {"url"}, scheme : {<<"http", Colon>>, <<>>}, host : Upto(MaxWord, Plain \cup Digit) \ {<<>>},
         port : Ports, path : Upto(MaxPath, Plain \cup Digit \cup {Slash, Colon})]
Uris == [kind : {"uri"}, path : Upto(MaxPath, Plain \cup {Slash, CGI} \cup Suffix),
         args : Upto(MaxWord, Plain \cup {"?"}), query : BOOLEAN]

Longs == [kind : {"long"}, long : LONG_MIN .. LONG_MAX]

TextsInit == text \in Lines \cup Urls \cup Uris \cup Longs

ASSUME TextsAssumption ==
  /\ "0" \in Digit /\ Digit \cap Plain = {}
  /\ (Plain \cup Digit) \cap ({Space, Quote, Slash, Colon, "&", "?", ".", "\n", "http", CGI, HOME} \cup Suffix) = {}
  /\ MaxArgs \in Nat /\ MaxSpaces \in Nat /\ MaxWord \in Nat /\ MaxPath \in Nat
  /\ MaxDigits \in 0 .. 9 /\ LONG_MAX \in Nat

Spaces(n) == [k \in 1 .. n |-> Space]
Written(arg) == IF arg.quoted THEN <<Quote>> \o arg.word \o <<Quote>> ELSE arg.word

LineOf(t) == FlattenSeq([k \in DOMAIN t.args |-> Spaces(t.args[k].spaces) \o Written(t.args[k])])
               \o Spaces(t.spaces) \o <<"\n">>
UrlOf(t) == t.scheme \o <<Slash, Slash>> \o t.host \o (IF t.port = <<>> THEN <<>> ELSE <<Colon>> \o t.port)
              \o <<Slash>> \o t.path
UriOf(t) == <<Slash>> \o t.path \o IF t.query THEN <<"?">> \o t.args ELSE <<>>

\* A command line gives its arguments, those in quotes with their spaces, whatever spaces are
\* between them, and a last one that begins with & is taken off.
LineRight ==
  LET words == [k \in DOMAIN text.args |-> text.args[k].word]
      bg == words # <<>> /\ Last(words) # <<>> /\ Head(Last(words)) = "&"
      answer == parseline(LineOf(text))
  IN  IF words = <<>> THEN answer.argv = <<>> /\ answer.bg
      ELSE answer.bg = bg /\ answer.argv = IF bg THEN Front(words) ELSE words

\* A url with `//' gives its host, its port, 80 if it has none, and its path with the slash, unless
\* the first colon is one of its path (what the code then takes for a port is no number).
UrlRight ==
  text.port # <<>> \/ IndexFrom(text.path, Colon, 1) = 0 =>
  parse_url(UrlOf(text)) = [hostname |-> text.host, filename |-> <<Slash>> \o text.path,
                            port |-> IF text.port = <<>> THEN <<"8", "0">> ELSE text.port]

\* A uri that names cgi-bin runs what is before the first `?' with what is after it; any other is
\* a file, home.html in a directory, and its type that of its suffix, unless the name has an
\* earlier one of FILETYPES inside.
UriRight ==
  LET answer == parse_uri(UriOf(text))
      name == <<".", Slash>> \o text.path
      suffix == IF Last(name) = Slash THEN ".html" ELSE Last(name)
  IN  IF \E k \in DOMAIN text.path : text.path[k] = CGI
      THEN ~answer.static /\ answer.filename = name /\ answer.cgiargs = IF text.query THEN text.args ELSE <<>>
      ELSE /\ answer.static /\ answer.cgiargs = <<>>
           /\ ~text.query =>
                /\ answer.filename = IF Last(name) = Slash THEN name \o <<HOME>> ELSE name
                /\ \A k \in DOMAIN FILETYPES :
                     suffix = FILETYPES[k][1] /\ (\A j \in 1 .. k - 1 : ~Has(name, FILETYPES[j][1])) =>
                     get_filetype(answer.filename) = FILETYPES[k][2]
                /\ suffix # ".html" /\ (\A e \in Suffix : ~Has(name, e)) =>
                     get_filetype(answer.filename) = "text/plain"

\* The number that digits stand for.
ValueOf(digits) ==
  LET value[k \in 0 .. Len(digits)] == IF k = 0 THEN 0 ELSE 10 * value[k - 1] + digits[k]
  IN  value[Len(digits)]

\* The characters written for a long are its digits, with the sign, except for the smallest.
LongRight ==
  LET written == sio_putl(text.long)
      neg == text.long < 0
      digits == IF neg THEN Tail(written) ELSE written
  IN  text.long # LONG_MIN =>
        /\ (Head(written) = MINUS) = neg
        /\ Len(digits) > 1 => digits[1] # 0
        /\ \A k \in DOMAIN digits : digits[k] \in 0 .. 9
        /\ ValueOf(digits) = IF neg THEN -text.long ELSE text.long

TextRight == CASE text.kind = "line" -> LineRight
               [] text.kind = "url" -> UrlRight
               [] text.kind = "uri" -> UriRight
               [] text.kind = "long" -> LongRight
               [] OTHER -> TRUE
=============================================================================
