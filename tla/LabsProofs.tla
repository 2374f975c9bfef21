---------------------------- MODULE LabsProofs ----------------------------
(***************************************************************************)
(* Proofs about the measurement of time, the cache simulator and the bit   *)
(* puzzles: that the difference of two readings of the cycle counter is    *)
(* the number of cycles between them, for a counter of any width; that     *)
(* what fcyc() and ftimer.c return is right, for any number of samples;    *)
(* the properties of the simulator, for caches of any geometry, traces of  *)
(* any length over any addresses; that the transpose functions transpose   *)
(* matrices of any size; that every puzzle of bits.c returns what its      *)
(* comment says, for the words and floats of the code; and that what       *)
(* parses a command line, a url or a uri, or writes a number, finds its    *)
(* parts, for texts of any length.                                         *)
(***************************************************************************)
EXTENDS Labs, Extrema, SequenceTheorems, TLAPS

-----------------------------------------------------------------------------
(* The cycle counter.                                                        *)

LEMMA Times ==
  ASSUME NEW a \in Int, NEW b \in Int, NEW u \in Int
  PROVE  a * u \in Int /\ (a + b) * u = a * u + b * u /\ (a - b) * u = a * u - b * u
  OBVIOUS

LEMMA TimesMonotonic ==
  ASSUME NEW a \in Int, NEW b \in Int, NEW u \in Nat, a <= b
  PROVE  a * u <= b * u
<1>1. PICK d \in Nat : b = a + d
  <2>1. b - a \in Nat /\ b = a + (b - a)
    OBVIOUS
  <2> QED
    BY <2>1
<1>2. d * u >= 0 /\ d * u \in Int
  OBVIOUS
<1>3. b * u = a * u + d * u /\ a * u \in Int
  BY <1>1, Times
<1> QED
  BY <1>2, <1>3

LEMMA Division ==
  ASSUME NEW n \in Nat, NEW u \in Nat, u > 0
  PROVE  n % u \in 0 .. u - 1 /\ n \div u \in Nat /\ n = u * (n \div u) + (n % u)
  OBVIOUS

\* What / and % give: there is one quotient and one remainder.
LEMMA SameQuotient ==
  ASSUME NEW d \in Nat, NEW q \in Nat, NEW r \in Nat, NEW p \in Nat, NEW s \in Nat,
         d * q + r = d * p + s, r < d, s < d
  PROVE  q = p /\ r = s
<1>1. ASSUME NEW g \in Nat, NEW h \in Nat, NEW i \in Nat, NEW j \in Nat, i < d, j < d,
             d * g + i = d * h + j, g < h
      PROVE  FALSE
  <2>1. (g + 1) * d <= h * d
    BY <1>1, TimesMonotonic
  <2>2. (g + 1) * d = g * d + d /\ g * d = d * g /\ h * d = d * h /\ d * g \in Int /\ d * h \in Int
    OBVIOUS
  <2> QED
    BY <1>1, <2>1, <2>2
<1>2. ~(q < p) /\ ~(p < q)
  BY <1>1
<1>3. q = p
  BY <1>2
<1>4. d * p \in Int /\ d * q = d * p
  BY <1>3
<1> QED
  BY <1>3, <1>4

LEMMA Quotient ==
  ASSUME NEW n \in Nat, NEW d \in Nat, NEW q \in Nat, NEW r \in Nat, n = d * q + r, r < d
  PROVE  n \div d = q /\ n % d = r
<1>1. d > 0
  OBVIOUS
<1>2. n % d \in 0 .. d - 1 /\ n \div d \in Nat /\ d * (n \div d) + (n % d) = d * q + r
  BY <1>1, Division
<1> QED
  BY <1>2, SameQuotient

\* A number below the square of the width has two halves.
LEMMA TwoHalves ==
  ASSUME NEW u \in Nat \ {0}, NEW n \in 0 .. u * u - 1
  PROVE  /\ n \div u \in 0 .. u - 1 /\ n % u \in 0 .. u - 1
         /\ n = (n \div u) * u + (n % u)
<1>1. u \in Nat /\ u > 0 /\ n \in Nat /\ u * u \in Nat /\ n < u * u
  <2>1. u * u \in Nat
    OBVIOUS
  <2> QED
    BY <2>1
<1>2. n % u \in 0 .. u - 1 /\ n \div u \in Nat /\ n = u * (n \div u) + (n % u)
  BY <1>1, Division
<1>3. n \div u < u
  <2> SUFFICES ASSUME n \div u >= u PROVE FALSE
    BY <1>1, <1>2
  <2>1. u * u <= (n \div u) * u
    BY <1>1, <1>2, TimesMonotonic
  <2>2. (n \div u) * u = u * (n \div u) /\ (n \div u) * u \in Int
    BY <1>1, <1>2
  <2> QED
    BY <1>1, <1>2, <2>1, <2>2
<1>4. (n \div u) * u = u * (n \div u)
  BY <1>1, <1>2
<1> QED
  BY <1>1, <1>2, <1>3, <1>4

\* A difference of halves, taken as unsigned.
LEMMA Wraps ==
  ASSUME NEW u \in Nat \ {0}, NEW d \in Int, -u <= d, d < u
  PROVE  d % u = IF d < 0 THEN d + u ELSE d
  OBVIOUS

\* get_counter() returns the cycles since start_counter(), whether the low half or the whole
\* counter has wrapped in between.
LEMMA GetCounterRight ==
  ASSUME NEW from \in (0 .. UINT - 1) \X (0 .. UINT - 1), NEW c \in 0 .. UINT * UINT - 1
  PROVE  /\ Later(from, c) \in (0 .. UINT - 1) \X (0 .. UINT - 1)
         /\ GetCounter(from, Later(from, c)) = c
<1> DEFINE u == UINT
           a == from[1]
           b == from[2]
           w == u * u
           t == a * u + b + c
           n == t % w
           p == n \div u
           q == n % u
           lo == (q - b) % u
           borrow == IF lo > q THEN 1 ELSE 0
           hi == (p - a - borrow) % u
<1>1. /\ u \in Nat \ {0} /\ u \in Int /\ a \in 0 .. u - 1 /\ b \in 0 .. u - 1
      /\ Later(from, c) = <<p, q>> /\ GetCounter(from, <<p, q>>) = hi * u + lo
  BY TimingAssumption DEF TimingAssumption, Later, GetCounter
<1>2. w \in Nat /\ w > 0 /\ c \in 0 .. w - 1 /\ w = u * u
  <2>1. \A k \in Nat \ {0} : k * k \in Nat /\ k * k > 0
    OBVIOUS
  <2> QED
    BY <1>1, <2>1
<1>3. a * u \in Nat /\ a * u <= w - u
  <2>1. a * u <= (u - 1) * u
    BY <1>1, TimesMonotonic
  <2>2. (u - 1) * u = u * u - 1 * u
    BY <1>1, Times
  <2>3. \A k, m \in Nat : k * m \in Nat
    OBVIOUS
  <2> QED
    BY <1>1, <2>1, <2>2, <2>3
<1> HIDE DEF w
<1>4. t \in Nat /\ n \in 0 .. w - 1 /\ n = IF t < w THEN t ELSE t - w
  <2>1. t \in Nat /\ t < w + w
    BY <1>1, <1>2, <1>3
  <2>2. \A m \in Nat : m < w + w => m % w = IF m < w THEN m ELSE m - w
    BY <1>2
  <2> QED
    BY <1>2, <2>1, <2>2
<1> HIDE DEF n
<1>5. p \in 0 .. u - 1 /\ q \in 0 .. u - 1 /\ n = p * u + q
  <2>1. n \in 0 .. u * u - 1
    BY <1>2, <1>4
  <2> QED
    BY <1>1, <2>1, TwoHalves
<1> HIDE DEF p, q, t
<1>6. /\ lo \in 0 .. u - 1 /\ borrow \in {0, 1}
      /\ q - b = lo - borrow * u
  <2>0. q - b \in Int /\ -u <= q - b /\ q - b < u
    BY <1>1, <1>5
  <2>1. lo = IF q - b < 0 THEN q - b + u ELSE q - b
    BY <1>1, <2>0, Wraps
  <2> QED
    BY <1>1, <1>5, <2>1
<1> HIDE DEF lo, borrow
<1> DEFINE d == p - a - borrow
<1>7. d \in Int /\ -u <= d /\ d < u
  <2>1. \A k \in Nat : \A g, h \in 0 .. k - 1, e \in {0, 1} :
          g - h - e \in Int /\ -k <= g - h - e /\ g - h - e < k
    OBVIOUS
  <2> QED
    BY <1>1, <1>5, <1>6, <2>1
<1>8. hi = IF d < 0 THEN d + u ELSE d
  BY <1>1, <1>7, Wraps
<1>9. n - (a * u + b) = d * u + lo
  <2>0. u \in Int /\ p \in Int /\ a \in Int /\ borrow \in Int /\ p - a \in Int
    BY <1>1, <1>5, <1>6
  <2>1. p * u \in Int /\ a * u \in Int /\ borrow * u \in Int /\ (p - a) * u = p * u - a * u
    BY <2>0, Times
  <2>2. (p - a - borrow) * u = (p - a) * u - borrow * u
    BY <2>0, Times
  <2> QED
    BY <1>1, <1>5, <1>6, <2>1, <2>2
<1> HIDE DEF d, hi
<1>10. n - (a * u + b) = IF t < w THEN c ELSE c - w
  BY <1>1, <1>2, <1>3, <1>4 DEF t
<1>11. d * u \in Int
  BY <1>1, <1>7
<1>12. CASE d < 0
  <2>1. d * u <= (-1) * u
    BY <1>1, <1>7, <1>12, TimesMonotonic
  <2>2. d * u + lo < 0
    BY <1>1, <1>6, <1>11, <2>1
  <2>3. c - w = d * u + lo
    BY <1>2, <1>9, <1>10, <2>2
  <2>4. hi * u = d * u + u * u
    BY <1>1, <1>7, <1>8, <1>12, Times
  <2>5. hi * u + lo = c
    BY <1>1, <1>2, <1>6, <1>11, <2>3, <2>4
  <2> QED
    BY <1>1, <1>5, <2>5
<1>13. CASE d >= 0
  <2>1. 0 * u <= d * u
    BY <1>1, <1>7, <1>13, TimesMonotonic
  <2>2. d * u + lo >= 0
    BY <1>1, <1>6, <1>11, <2>1
  <2>3. c = d * u + lo
    BY <1>2, <1>9, <1>10, <2>2
  <2>4. hi * u + lo = c
    BY <1>7, <1>8, <1>13, <2>3
  <2> QED
    BY <1>1, <1>5, <2>4
<1> QED
  BY <1>7, <1>12, <1>13

-----------------------------------------------------------------------------
(* The samples that fcyc() keeps.                                            *)

Ascending(s) == \A i, j \in DOMAIN s : i <= j => s[i] <= s[j]
Among(s, val) == \E i \in DOMAIN s : val = s[i]

\* The insertion sort stops at place, and val is put behind it.
Splits(s, val, place) == /\ place \in 0 .. Len(s)
                         /\ \A p \in 1 .. place : s[p] <= val
                         /\ \A p \in place + 1 .. Len(s) : val < s[p]
Inserted(new, s, val, place) ==
  \A p \in 1 .. Len(s) + 1 :
    new[p] = IF p <= place THEN s[p] ELSE IF p = place + 1 THEN val ELSE s[p - 1]

LEMMA SortedPlace ==
  ASSUME NEW s \in Seq(Int), NEW val \in Int, Ascending(s)
  PROVE  Splits(s, val, Max({p \in DOMAIN s : s[p] <= val} \cup {0}))
<1> DEFINE P == {p \in DOMAIN s : s[p] <= val} \cup {0}
           place == Max(P)
<1>1. Len(s) \in Nat /\ DOMAIN s = 1 .. Len(s) /\ \A p \in 1 .. Len(s) : s[p] \in Int
  BY ElementOfSeq
<1>2. P \subseteq 0 .. Len(s) /\ P # {} /\ P \subseteq Nat
  BY <1>1
<1>3. IsFiniteSet(P)
  <2>1. IsFiniteSet(0 .. Len(s))
    BY <1>1, FS_Interval
  <2> HIDE DEF P
  <2> QED
    BY <1>2, <2>1, FS_Subset
<1>4. place \in P /\ \A p \in P : p <= place
  <2> HIDE DEF P
  <2>1. \E m \in P : \A p \in P : p <= m
    BY <1>2, <1>3, GreatestExists
  <2>2. \E m \in P : \A p \in P : m >= p
    BY <1>2, <2>1
  <2> DEFINE great == CHOOSE m \in P : \A p \in P : m >= p
  <2>3. great \in P /\ \A p \in P : great >= p
    BY <2>2
  <2>4. place = great
    BY DEF Max
  <2> QED
    BY <1>2, <2>3, <2>4
<1> HIDE DEF place
<1>5. place \in 0 .. Len(s)
  BY <1>2, <1>4
<1>6. \A p \in 1 .. place : s[p] <= val
  <2> SUFFICES ASSUME NEW p \in 1 .. place PROVE s[p] <= val
    OBVIOUS
  <2>1. place \in DOMAIN s /\ s[place] <= val
    BY <1>1, <1>4, <1>5
  <2>2. p \in DOMAIN s /\ s[p] <= s[place]
    BY SMTT(60), <1>1, <1>5, <2>1 DEF Ascending
  <2> QED
    BY <1>1, <2>1, <2>2
<1>7. \A p \in place + 1 .. Len(s) : val < s[p]
  <2> SUFFICES ASSUME NEW p \in place + 1 .. Len(s), ~(val < s[p]) PROVE FALSE
    OBVIOUS
  <2>1. p \in 1 .. Len(s) /\ place < p
    BY <1>1, <1>5
  <2>2. p \in P
    BY <1>1, <2>1
  <2> HIDE DEF P
  <2> QED
    BY <1>1, <1>4, <1>5, <2>1, <2>2
<1> QED
  BY <1>5, <1>6, <1>7 DEF place, Splits

\* There is only one such place.
LEMMA OnePlace ==
  ASSUME NEW s \in Seq(Int), NEW val \in Int, NEW a, NEW b, Splits(s, val, a), Splits(s, val, b)
  PROVE  a = b
<1>1. Len(s) \in Nat /\ \A p \in 1 .. Len(s) : s[p] \in Int
  BY ElementOfSeq
<1>2. a \in 0 .. Len(s) /\ b \in 0 .. Len(s)
  BY DEF Splits
<1>3. ASSUME NEW c \in 0 .. Len(s), NEW d \in 0 .. Len(s), Splits(s, val, c), Splits(s, val, d), c < d
      PROVE  FALSE
  <2>1. c + 1 \in 1 .. d /\ c + 1 \in c + 1 .. Len(s) /\ c + 1 \in 1 .. Len(s)
    BY <1>1, <1>3
  <2>2. s[c + 1] <= val /\ val < s[c + 1] /\ s[c + 1] \in Int
    BY <1>1, <1>3, <2>1 DEF Splits
  <2> QED
    BY <2>2
<1> QED
  BY <1>1, <1>2, <1>3

\* What SortIn() makes of a list, element by element.
LEMMA SortInIs ==
  ASSUME NEW s \in Seq(Int), NEW val \in Int, Ascending(s), NEW place \in 0 .. Len(s), Splits(s, val, place)
  PROVE  /\ SortIn(s, val) \in Seq(Int) /\ Len(SortIn(s, val)) = Len(s) + 1
         /\ Inserted(SortIn(s, val), s, val, place)
<1> DEFINE new == SortIn(s, val)
<1>1. /\ place = Max({p \in DOMAIN s : s[p] <= val} \cup {0}) /\ place \in 0 .. Len(s)
      /\ \A p \in 1 .. place : s[p] <= val
      /\ \A p \in place + 1 .. Len(s) : val < s[p]
  BY SortedPlace, OnePlace DEF Splits
<1>2. Len(s) \in Nat /\ DOMAIN s = 1 .. Len(s) /\ \A p \in 1 .. Len(s) : s[p] \in Int
  BY ElementOfSeq
<1>3. new = (SubSeq(s, 1, place) \o <<val>>) \o SubSeq(s, place + 1, Len(s))
  <2>1. (place + 1) - 1 = place
    OBVIOUS
  <2> QED
    BY <1>1, <2>1 DEF SortIn, InsertAt
<1>4. /\ SubSeq(s, 1, place) \in Seq(Int) /\ Len(SubSeq(s, 1, place)) = place
      /\ \A p \in 1 .. place : SubSeq(s, 1, place)[p] = s[p]
  BY <1>2
<1>5. /\ SubSeq(s, place + 1, Len(s)) \in Seq(Int) /\ Len(SubSeq(s, place + 1, Len(s))) = Len(s) - place
      /\ \A p \in 1 .. Len(s) - place : SubSeq(s, place + 1, Len(s))[p] = s[place + p]
  <2> DEFINE part == SubSeq(s, place + 1, Len(s))
  <2>1. /\ part \in Seq(Int)
        /\ Len(part) = IF place + 1 <= Len(s) THEN Len(s) - (place + 1) + 1 ELSE 0
        /\ \A p \in 1 .. Len(s) - (place + 1) + 1 : part[p] = s[(place + 1) + p - 1]
    BY <1>2, SubSeqProperties
  <2> HIDE DEF part
  <2>2. Len(part) = Len(s) - place /\ Len(s) - (place + 1) + 1 = Len(s) - place
    <3>1. ASSUME NEW m \in Nat, NEW n \in 0 .. m
          PROVE  /\ m - (n + 1) + 1 = m - n
                 /\ n + 1 <= m \/ m - n = 0
      OBVIOUS
    <3> QED
      BY <1>2, <2>1, <3>1
  <2>3. \A p \in 1 .. Len(s) - place : (place + 1) + p - 1 = place + p
    BY <1>2
  <2>4. part \in Seq(Int) /\ Len(part) = Len(s) - place /\ \A p \in 1 .. Len(s) - place : part[p] = s[place + p]
    BY <2>1, <2>2, <2>3
  <2> QED
    BY <2>4 DEF part
<1> DEFINE low == SubSeq(s, 1, place)
           high == SubSeq(s, place + 1, Len(s))
<1> HIDE DEF low, high
<1>6. /\ new \in Seq(Int) /\ Len(new) = Len(s) + 1
      /\ \A p \in 1 .. Len(s) + 1 :
           new[p] = IF p <= place THEN s[p] ELSE IF p = place + 1 THEN val ELSE s[p - 1]
  <2>1. low \in Seq(Int) /\ Len(low) = place /\ \A p \in 1 .. place : low[p] = s[p]
    BY <1>4 DEF low
  <2>2. /\ high \in Seq(Int) /\ Len(high) = Len(s) - place
        /\ \A p \in 1 .. Len(s) - place : high[p] = s[place + p]
    BY <1>5 DEF high
  <2>3. /\ <<val>> \in Seq(Int) /\ low \o <<val>> \in Seq(Int) /\ Len(low \o <<val>>) = place + 1
        /\ \A p \in 1 .. place + 1 : (low \o <<val>>)[p] = IF p <= place THEN s[p] ELSE val
    BY <2>1
  <2> DEFINE begin == low \o <<val>>
  <2>4. new = begin \o high
    BY <1>3 DEF low, high
  <2> HIDE DEF begin, new
  <2>0. begin \in Seq(Int) /\ Len(begin) = place + 1
    BY <2>3 DEF begin
  <2>9. /\ new \in Seq(Int) /\ Len(new) = Len(begin) + Len(high)
        /\ \A p \in 1 .. Len(begin) + Len(high) :
             new[p] = IF p <= Len(begin) THEN begin[p] ELSE high[p - Len(begin)]
    BY <2>2, <2>0, <2>4, ConcatProperties
  <2>8. Len(begin) + Len(high) = Len(s) + 1
    BY <1>2, <2>0, <2>2
  <2>5. /\ new \in Seq(Int) /\ Len(new) = Len(s) + 1
        /\ \A p \in 1 .. Len(s) + 1 :
             new[p] = IF p <= place + 1 THEN begin[p] ELSE high[p - (place + 1)]
    BY <2>0, <2>8, <2>9
  <2>6. Len(new) = Len(s) + 1
    BY <1>2, <2>5
  <2>7. ASSUME NEW p \in 1 .. Len(s) + 1
        PROVE  new[p] = IF p <= place THEN s[p] ELSE IF p = place + 1 THEN val ELSE s[p - 1]
    <3>1. CASE p <= place + 1
      <4>1. p \in 1 .. place + 1 /\ new[p] = begin[p]
        BY <1>2, <2>5, <3>1
      <4> QED
        BY <2>3, <4>1 DEF begin
    <3>2. CASE p > place + 1
      <4>1. new[p] = high[p - (place + 1)]
        BY SMTT(60), <1>2, <2>5, <3>2
      <4>2. p - (place + 1) \in 1 .. Len(s) - place /\ place + (p - (place + 1)) = p - 1
        BY <1>2, <3>2
      <4>3. new[p] = s[p - 1]
        BY <2>2, <4>1, <4>2
      <4> QED
        BY <3>2, <4>3
    <3> QED
      BY <3>1, <3>2
  <2> QED
    BY <2>5, <2>6, <2>7
<1> QED
  BY <1>6 DEF Inserted

\* It stays in order.
LEMMA InsertedAscends ==
  ASSUME NEW s \in Seq(Int), NEW val \in Int, Ascending(s), NEW place \in 0 .. Len(s), Splits(s, val, place),
         NEW new, DOMAIN new = 1 .. Len(s) + 1, Inserted(new, s, val, place)
  PROVE  Ascending(new)
<1>1. /\ place \in 0 .. Len(s) /\ \A p \in 1 .. place : s[p] <= val
      /\ \A p \in place + 1 .. Len(s) : val < s[p]
  BY DEF Splits
<1>2. Len(s) \in Nat /\ DOMAIN s = 1 .. Len(s) /\ \A p \in 1 .. Len(s) : s[p] \in Int
  BY ElementOfSeq
<1>6. \A p \in 1 .. Len(s) + 1 :
        new[p] = IF p <= place THEN s[p] ELSE IF p = place + 1 THEN val ELSE s[p - 1]
  BY DEF Inserted
<1>7. DOMAIN new = 1 .. Len(s) + 1
  OBVIOUS
<1>8. Ascending(new)
  <2> SUFFICES ASSUME NEW i \in 1 .. Len(s) + 1, NEW j \in 1 .. Len(s) + 1, i <= j
               PROVE  new[i] <= new[j]
    BY <1>7 DEF Ascending
  <2>1. \A p, q \in 1 .. Len(s) : p <= q => s[p] <= s[q]
    BY <1>2 DEF Ascending
  <2>2. CASE j <= place
    BY SMTT(60), <1>2, <1>6, <2>1, <2>2
  <2>3. CASE i <= place /\ j = place + 1
    BY SMTT(60), <1>1, <1>2, <1>6, <2>3
  <2>4. CASE i <= place /\ j > place + 1
    BY <1>2, <1>6, <2>1, <2>4
  <2>5. CASE i = place + 1 /\ j = place + 1
    BY <1>2, <1>6, <2>5
  <2>6. CASE i = place + 1 /\ j > place + 1
    <3>1. j - 1 \in place + 1 .. Len(s) /\ new[j] = s[j - 1] /\ new[i] = val
      BY <1>2, <1>6, <2>6
    <3>2. val < s[j - 1] /\ s[j - 1] \in Int
      BY SMTT(60), <1>1, <1>2, <3>1
    <3> QED
      BY <3>1, <3>2
  <2>7. CASE i > place + 1
    <3>1. j > place + 1 /\ i - 1 \in 1 .. Len(s) /\ j - 1 \in 1 .. Len(s) /\ i - 1 <= j - 1
      BY <1>2, <2>7
    <3>2. new[i] = s[i - 1] /\ new[j] = s[j - 1]
      BY <1>2, <1>6, <2>7, <3>1
    <3> QED
      BY <2>1, <3>1, <3>2
  <2> QED
    BY <1>2, <2>2, <2>3, <2>4, <2>5, <2>6, <2>7
<1> QED
  BY <1>8

\* A sample is sorted in: the others stay, in order.
LEMMA SortedIn ==
  ASSUME NEW s \in Seq(Int), NEW val \in Int, Ascending(s)
  PROVE  /\ SortIn(s, val) \in Seq(Int) /\ Len(SortIn(s, val)) = Len(s) + 1
         /\ Ascending(SortIn(s, val))
         /\ \A w : Among(SortIn(s, val), w) <=> Among(s, w) \/ w = val
<1> DEFINE new == SortIn(s, val)
<1>1. PICK place \in 0 .. Len(s) : Splits(s, val, place)
  BY SortedPlace DEF Splits
<1>2. Len(s) \in Nat /\ DOMAIN s = 1 .. Len(s) /\ \A p \in 1 .. Len(s) : s[p] \in Int
  BY ElementOfSeq
<1>6. /\ new \in Seq(Int) /\ Len(new) = Len(s) + 1
      /\ \A p \in 1 .. Len(s) + 1 :
           new[p] = IF p <= place THEN s[p] ELSE IF p = place + 1 THEN val ELSE s[p - 1]
  BY <1>1, SortInIs DEF Inserted
<1> HIDE DEF new
<1>7. DOMAIN new = 1 .. Len(s) + 1
  BY <1>6
<1>8. Ascending(new)
  BY <1>1, <1>6, <1>7, InsertedAscends DEF Inserted
<1>9. ASSUME NEW w PROVE Among(new, w) <=> Among(s, w) \/ w = val
  <2>1. ASSUME Among(new, w) PROVE Among(s, w) \/ w = val
    <3>1. PICK i \in 1 .. Len(s) + 1 : w = new[i]
      BY <1>7, <2>1 DEF Among
    <3>2. CASE i <= place
      <4>1. i \in DOMAIN s /\ w = s[i]
        BY <1>2, <1>6, <3>1, <3>2
      <4> QED
        BY <4>1 DEF Among
    <3>3. CASE i = place + 1
      BY <1>2, <1>6, <3>1, <3>3
    <3>4. CASE i > place + 1
      <4>1. i - 1 \in DOMAIN s /\ w = s[i - 1]
        BY <1>2, <1>6, <3>1, <3>4
      <4> QED
        BY <4>1 DEF Among
    <3> QED
      BY <1>2, <3>2, <3>3, <3>4
  <2>2. ASSUME Among(s, w) PROVE Among(new, w)
    <3>1. PICK i \in 1 .. Len(s) : w = s[i]
      BY <1>2, <2>2 DEF Among
    <3>2. CASE i <= place
      <4>1. i \in DOMAIN new /\ w = new[i]
        BY <1>2, <1>6, <1>7, <3>1, <3>2
      <4> QED
        BY <4>1 DEF Among
    <3>3. CASE i > place
      <4>1. i + 1 \in 1 .. Len(s) + 1 /\ i + 1 > place + 1 /\ (i + 1) - 1 = i
        BY <1>2, <3>3
      <4>2. new[i + 1] = w
        BY <1>2, <1>6, <3>1, <4>1
      <4> QED
        BY <1>7, <4>1, <4>2 DEF Among
    <3> QED
      BY <1>2, <3>2, <3>3
  <2>3. ASSUME w = val PROVE Among(new, w)
    <3>1. place + 1 \in 1 .. Len(s) + 1 /\ new[place + 1] = val
      BY <1>2, <1>6
    <3> QED
      BY <1>7, <2>3, <3>1 DEF Among
  <2> QED
    BY <2>1, <2>2, <2>3
<1> QED
  BY <1>6, <1>8, <1>9 DEF new

-----------------------------------------------------------------------------
(* add_sample().                                                             *)

USE TimingAssumption DEF TimingAssumption

Kept == IF samplecount < K THEN samplecount ELSE K
SamplesOk == /\ samplecount \in 0 .. MAXSAMPLES
             /\ values \in Seq(Int) /\ Ascending(values) /\ Len(values) = Kept

\* val is kept, or is no less than any of the K that are.
Counted(s, val) == Among(s, val) \/ (Len(s) = K /\ s[K] <= val)

LEMMA FrontIs ==
  ASSUME NEW s \in Seq(Int), Ascending(s), Len(s) = K
  PROVE  /\ Front(s) \in Seq(Int) /\ Len(Front(s)) = K - 1 /\ Ascending(Front(s))
         /\ \A p \in 1 .. K - 1 : Front(s)[p] = s[p]
         /\ \A w : Among(Front(s), w) => Among(s, w)
         /\ \A w : Among(s, w) => Among(Front(s), w) \/ w = s[K]
         /\ \A w : Among(s, w) => w <= s[K]
<1> DEFINE front == Front(s)
<1>1. K \in Nat /\ K >= 1 /\ DOMAIN s = 1 .. K /\ \A p \in 1 .. K : s[p] \in Int
  BY ElementOfSeq
<1>2. /\ front \in Seq(Int) /\ Len(front) = K - 1
      /\ \A p \in 1 .. K - 1 : front[p] = s[p]
  BY <1>1 DEF Front
<1> HIDE DEF front
<1>3. DOMAIN front = 1 .. K - 1
  BY <1>1, <1>2
<1>4. Ascending(front)
  BY <1>1, <1>2, <1>3 DEF Ascending
<1>5. ASSUME NEW w, Among(front, w) PROVE Among(s, w)
  <2>1. PICK p \in 1 .. K - 1 : w = front[p]
    BY <1>3, <1>5 DEF Among
  <2>2. p \in 1 .. K /\ w = s[p]
    BY <1>1, <1>2, <2>1
  <2> QED
    BY <1>1, <2>2 DEF Among
<1>6. ASSUME NEW w, Among(s, w) PROVE (Among(front, w) \/ w = s[K]) /\ w <= s[K]
  <2>1. PICK p \in 1 .. K : w = s[p]
    BY <1>1, <1>6 DEF Among
  <2>2. w <= s[K]
    <3>1. \A i, j \in 1 .. K : i <= j => s[i] <= s[j]
      BY <1>1 DEF Ascending
    <3> QED
      BY <1>1, <2>1, <3>1
  <2>3. CASE p = K
    BY <2>1, <2>2, <2>3
  <2>4. CASE p # K
    <3>1. p \in 1 .. K - 1
      BY <1>1, <2>4
    <3>2. p \in DOMAIN front /\ w = front[p]
      BY <1>2, <1>3, <2>1, <3>1
    <3> QED
      BY <2>2, <3>2 DEF Among
  <2> QED
    BY <2>3, <2>4
<1> QED
  BY <1>2, <1>4, <1>5, <1>6 DEF front

\* The greatest is the last.
LEMMA LastIs ==
  ASSUME NEW s \in Seq(Int), Ascending(s), Len(s) = K
  PROVE  Among(s, s[K]) /\ s[K] \in Int /\ Last(s) = s[K]
<1>1. K \in DOMAIN s /\ s[K] \in Int
  BY ElementOfSeq
<1> QED
  BY <1>1 DEF Among, Last

LEMMA SampleAdded ==
  ASSUME SamplesOk, samplecount < MAXSAMPLES, NEW val \in Int, AddSample(val)
  PROVE  /\ SamplesOk' /\ samplecount' = samplecount + 1
         /\ \A w : Among(values', w) => Among(values, w) \/ w = val
         /\ Counted(values', val)
         /\ \A w \in Int : Counted(values, w) => Counted(values', w)
<1>1. samplecount \in Nat /\ samplecount' = samplecount + 1 /\ samplecount' \in 0 .. MAXSAMPLES
  BY DEF AddSample, SamplesOk
<1>2. values \in Seq(Int) /\ Ascending(values) /\ Len(values) = Kept
  BY DEF SamplesOk
<1>3. CASE samplecount < K
  <2>1. values' = SortIn(values, val)
    BY <1>3 DEF AddSample
  <2>2. /\ values' \in Seq(Int) /\ Len(values') = Len(values) + 1
        /\ Ascending(values')
        /\ \A w : Among(values', w) <=> Among(values, w) \/ w = val
    BY <1>2, <2>1, SortedIn
  <2>3. Len(values') = Kept' /\ Len(values) # K
    BY <1>1, <1>2, <1>3, <2>2 DEF Kept
  <2>4. SamplesOk'
    BY <1>1, <2>2, <2>3 DEF SamplesOk
  <2> QED
    BY <1>1, <2>2, <2>3, <2>4 DEF Counted
<1>4. CASE samplecount >= K /\ val < Last(values)
  <2>1. values' = SortIn(Front(values), val)
    BY <1>1, <1>4 DEF AddSample
  <2>2. Len(values) = K
    BY <1>1, <1>2, <1>4 DEF Kept
  <2>3. /\ Front(values) \in Seq(Int) /\ Len(Front(values)) = K - 1 /\ Ascending(Front(values))
        /\ \A w : Among(Front(values), w) => Among(values, w)
        /\ \A w : Among(values, w) => Among(Front(values), w) \/ w = values[K]
        /\ \A w : Among(values, w) => w <= values[K]
    BY <1>2, <2>2, FrontIs
  <2>4. /\ values' \in Seq(Int) /\ Len(values') = K /\ Ascending(values')
        /\ \A w : Among(values', w) <=> Among(Front(values), w) \/ w = val
    <3>1. (K - 1) + 1 = K
      OBVIOUS
    <3> QED
      BY <2>1, <2>3, <3>1, SortedIn
  <2>5. values[K] \in Int /\ val <= values[K]
    BY <1>2, <1>4, <2>2, LastIs
  <2>6. values'[K] \in Int /\ values'[K] <= values[K]
    <3>1. Among(values', values'[K]) /\ values'[K] \in Int
      BY <2>4, LastIs
    <3>2. Among(values, values'[K]) \/ values'[K] = val
      BY <2>3, <2>4, <3>1
    <3> QED
      BY <2>3, <2>5, <3>1, <3>2
  <2>7. SamplesOk'
    BY <1>1, <1>4, <2>4 DEF SamplesOk, Kept
  <2>8. ASSUME NEW w \in Int, Counted(values, w) PROVE Counted(values', w)
    <3>1. Among(Front(values), w) \/ values[K] <= w
      BY <2>3, <2>5, <2>8 DEF Counted
    <3> QED
      BY <2>4, <2>5, <2>6, <3>1 DEF Counted
  <2> QED
    BY <1>1, <2>3, <2>4, <2>7, <2>8 DEF Counted
<1>5. CASE samplecount >= K /\ ~(val < Last(values))
  <2>1. values' = values
    BY <1>1, <1>5 DEF AddSample
  <2>2. Len(values) = K
    BY <1>1, <1>2, <1>5 DEF Kept
  <2>3. values[K] <= val
    BY <1>2, <1>5, <2>2, LastIs
  <2>4. SamplesOk'
    BY <1>1, <1>2, <1>5, <2>1, <2>2 DEF SamplesOk, Kept
  <2> QED
    BY <1>1, <2>1, <2>2, <2>3, <2>4 DEF Counted
<1> QED
  BY <1>1, <1>3, <1>4, <1>5

-----------------------------------------------------------------------------
(* The ranks of the samples.                                                 *)

\* p ranks the elements of s: it gives them in order.
InOrder(p, s) == [i \in DOMAIN s |-> s[p[i]]]
Ranked(p, s) == p \in Bijection(DOMAIN s, DOMAIN s) /\ Ascending(InOrder(p, s))
Begins(t, k, p, s) == \A i \in 1 .. k : t[i] = s[p[i]]

\* Another element takes the rank behind those that are not greater.
LEMMA RankWith ==
  ASSUME NEW s \in Seq(Int), NEW val \in Int, NEW p, Ranked(p, s),
         NEW place \in 0 .. Len(s), Splits(InOrder(p, s), val, place)
  PROVE  \E q : /\ Ranked(q, Append(s, val))
                /\ Inserted(InOrder(q, Append(s, val)), InOrder(p, s), val, place)
<1> DEFINE n == Len(s)
           new == Append(s, val)
           u == InOrder(p, s)
           q == [i \in 1 .. n + 1 |-> IF i <= place THEN p[i] ELSE IF i = place + 1 THEN n + 1 ELSE p[i - 1]]
<1>1. n \in Nat /\ DOMAIN s = 1 .. n /\ \A i \in 1 .. n : s[i] \in Int
  BY ElementOfSeq
<1>2. /\ DOMAIN new = 1 .. n + 1 /\ new[n + 1] = val
      /\ \A i \in 1 .. n : new[i] = s[i]
  BY <1>1, AppendProperties
<1>3. /\ \A i \in 1 .. n : p[i] \in 1 .. n
      /\ \A i, j \in 1 .. n : p[i] = p[j] => i = j
      /\ \A i \in 1 .. n : \E j \in 1 .. n : p[j] = i
  <2>1. /\ p \in [1 .. n -> 1 .. n] /\ \A t \in 1 .. n : \E i \in 1 .. n : p[i] = t
        /\ IsInjective(p)
    BY <1>1 DEF Ranked, Bijection, Injection, Surjection
  <2>2. \A i, j \in 1 .. n : p[i] = p[j] => i = j
    BY <2>1 DEF IsInjective
  <2> HIDE DEF n
  <2>3. \A i \in 1 .. n : p[i] \in 1 .. n
    BY <2>1
  <2> QED
    BY <2>1, <2>2, <2>3
<1>4. /\ u \in Seq(Int) /\ Len(u) = n /\ DOMAIN u = 1 .. n /\ Ascending(u)
      /\ \A i \in 1 .. n : u[i] = s[p[i]]
  <2>1. u = [i \in 1 .. n |-> s[p[i]]] /\ \A i \in 1 .. n : s[p[i]] \in Int
    BY <1>1, <1>3 DEF InOrder
  <2>2. u \in Seq(Int) /\ Len(u) = n
    BY <1>1, <2>1, IsASeq
  <2> QED
    BY <2>1, <2>2 DEF Ranked
<1>5. place \in 0 .. n /\ Splits(u, val, place)
  BY <1>4 DEF Splits
<1> HIDE DEF n, u, new
<1>6. ASSUME NEW i \in 1 .. n + 1
      PROVE  /\ i <= place => i \in 1 .. n /\ q[i] = p[i] /\ p[i] \in 1 .. n
             /\ i = place + 1 => q[i] = n + 1
             /\ i > place + 1 => i - 1 \in 1 .. n /\ q[i] = p[i - 1] /\ p[i - 1] \in 1 .. n
  <2>1. CASE i <= place
    <3>1. i \in 1 .. n
      BY <1>1, <1>5, <2>1
    <3> QED
      BY <1>3, <2>1, <3>1
  <2>2. CASE i = place + 1
    <3>1. ~(i <= place)
      BY <1>5, <2>2
    <3> QED
      BY <1>1, <1>5, <2>2, <3>1
  <2>3. CASE i > place + 1
    <3>1. i - 1 \in 1 .. n /\ ~(i <= place) /\ i # place + 1
      BY <1>1, <1>5, <2>3
    <3> QED
      BY <1>3, <2>3, <3>1
  <2> QED
    BY <1>1, <1>5, <2>1, <2>2, <2>3
<1>7. ASSUME NEW i \in 1 .. n + 1 PROVE q[i] \in 1 .. n + 1
  <2>1. \A j \in 1 .. n : j \in 1 .. n + 1
    BY <1>1
  <2>2. n + 1 \in 1 .. n + 1
    BY <1>1
  <2> HIDE DEF q
  <2>3. i <= place \/ i = place + 1 \/ i > place + 1
    BY <1>1, <1>5
  <2>4. q[i] \in 1 .. n \/ q[i] = n + 1
    BY <1>6, <2>3
  <2> QED
    BY <2>1, <2>2, <2>4
<1>8. q = [i \in 1 .. n + 1 |-> q[i]] /\ DOMAIN q = 1 .. n + 1
  OBVIOUS
<1> HIDE DEF q
<1>9. ASSUME NEW i \in 1 .. n + 1, NEW j \in 1 .. n + 1, q[i] = q[j] PROVE i = j
  <2>1. CASE i = place + 1 \/ j = place + 1
    <3>1. \A t \in 1 .. n + 1 : q[t] = n + 1 <=> t = place + 1
      <4> SUFFICES ASSUME NEW t \in 1 .. n + 1, t # place + 1 PROVE q[t] # n + 1
        BY <1>6
      <4>0. t <= place \/ t > place + 1
        BY <1>1, <1>5
      <4>1. q[t] \in 1 .. n
        BY <1>6, <4>0
      <4> QED
        BY <1>1, <4>1
    <3> QED
      BY <1>9, <2>1, <3>1
  <2>2. CASE i <= place /\ j <= place
    BY <1>3, <1>6, <1>9, <2>2
  <2>3. CASE i <= place /\ j > place + 1
    BY <1>1, <1>3, <1>5, <1>6, <1>9, <2>3
  <2>4. CASE i > place + 1 /\ j <= place
    BY <1>1, <1>3, <1>5, <1>6, <1>9, <2>4
  <2>5. CASE i > place + 1 /\ j > place + 1
    <3>1. i - 1 = j - 1
      BY <1>3, <1>6, <1>9, <2>5
    <3> QED
      BY <1>1, <3>1
  <2> QED
    BY <1>1, <1>5, <2>1, <2>2, <2>3, <2>4, <2>5
<1>10. ASSUME NEW t \in 1 .. n + 1 PROVE \E i \in 1 .. n + 1 : q[i] = t
  <2>1. CASE t = n + 1
    <3>1. place + 1 \in 1 .. n + 1
      BY <1>1, <1>5
    <3> QED
      BY <1>6, <2>1, <3>1
  <2>2. CASE t # n + 1
    <3>1. t \in 1 .. n
      BY <1>1, <2>2
    <3>2. PICK j \in 1 .. n : p[j] = t
      BY <1>3, <3>1
    <3>3. CASE j <= place
      <4>1. j \in 1 .. n + 1
        BY <1>1
      <4> QED
        BY <1>6, <3>2, <3>3, <4>1
    <3>4. CASE j > place
      <4>1. j + 1 \in 1 .. n + 1 /\ j + 1 > place + 1 /\ (j + 1) - 1 = j
        BY <1>1, <1>5, <3>4
      <4> QED
        BY <1>6, <3>2, <4>1
    <3> QED
      BY <1>1, <1>5, <3>3, <3>4
  <2> QED
    BY <2>1, <2>2
<1>11. q \in Bijection(DOMAIN new, DOMAIN new)
  <2>1. q \in [1 .. n + 1 -> 1 .. n + 1]
    BY <1>7, <1>8
  <2> QED
    BY <1>2, <1>8, <1>9, <1>10, <2>1 DEF Bijection, Injection, Surjection, IsInjective
<1>12. Inserted(InOrder(q, new), u, val, place)
  <2> SUFFICES ASSUME NEW i \in 1 .. n + 1
               PROVE  InOrder(q, new)[i] =
                        IF i <= place THEN u[i] ELSE IF i = place + 1 THEN val ELSE u[i - 1]
    BY <1>4 DEF Inserted
  <2>1. InOrder(q, new)[i] = new[q[i]]
    BY <1>2 DEF InOrder
  <2>2. CASE i <= place
    BY SMTT(60), <1>2, <1>4, <1>6, <2>1, <2>2
  <2>3. CASE i = place + 1
    BY <1>2, <1>5, <1>6, <2>1, <2>3
  <2>4. CASE i > place + 1
    <3>1. new[q[i]] = s[p[i - 1]] /\ u[i - 1] = s[p[i - 1]]
      BY <1>2, <1>4, <1>6, <2>4
    <3> QED
      BY <1>1, <1>5, <2>1, <2>4, <3>1
  <2> QED
    BY <1>1, <1>5, <2>2, <2>3, <2>4
<1>13. Ascending(InOrder(q, new))
  <2>1. DOMAIN InOrder(q, new) = 1 .. Len(u) + 1
    BY <1>2, <1>4 DEF InOrder
  <2> QED
    BY <1>4, <1>5, <1>12, <2>1, InsertedAscends
<1> QED
  BY <1>11, <1>12, <1>13 DEF Ranked, new, u

\* What is kept of the samples are those of the first ranks, with one more sample as well.
LEMMA RankKept ==
  ASSUME SamplesOk, samplecount < MAXSAMPLES, NEW val \in Int, AddSample(val),
         NEW s \in Seq(Int), Len(s) = samplecount, NEW p, Ranked(p, s), Begins(values, Kept, p, s)
  PROVE  \E q : Ranked(q, Append(s, val)) /\ Begins(values', Kept', q, Append(s, val))
<1> DEFINE n == Len(s)
           new == Append(s, val)
           u == InOrder(p, s)
<1>1. n \in Nat /\ DOMAIN s = 1 .. n /\ \A i \in 1 .. n : s[i] \in Int
  BY ElementOfSeq
<1>2. /\ u \in Seq(Int) /\ Len(u) = n /\ DOMAIN u = 1 .. n /\ Ascending(u)
      /\ \A i \in 1 .. n : u[i] = s[p[i]] /\ u[i] \in Int
  <2>1. \A i \in 1 .. n : p[i] \in 1 .. n
    BY <1>1 DEF Ranked, Bijection, Injection
  <2>2. u = [i \in 1 .. n |-> s[p[i]]] /\ \A i \in 1 .. n : s[p[i]] \in Int
    BY <1>1, <2>1 DEF InOrder
  <2>3. u \in Seq(Int) /\ Len(u) = n
    BY SMTT(60), <1>1, <2>2, IsASeq
  <2> QED
    BY <2>2, <2>3 DEF Ranked
<1>3. PICK place \in 0 .. n : Splits(u, val, place)
  BY <1>2, SortedPlace DEF Splits
<1>4. PICK q : Ranked(q, new) /\ Inserted(InOrder(q, new), u, val, place)
  BY <1>3, RankWith
<1>5. /\ n = samplecount /\ samplecount' = n + 1
      /\ values \in Seq(Int) /\ Ascending(values) /\ Len(values) = Kept
  BY DEF SamplesOk, AddSample
<1>6. \A i \in 1 .. Kept : values[i] = u[i]
  <2>1. \A i \in 1 .. Kept : i \in 1 .. n
    BY <1>1, <1>5 DEF Kept
  <2> QED
    BY <1>2, <2>1 DEF Begins
<1>7. \A i \in 1 .. n + 1 : InOrder(q, new)[i] = new[q[i]]
  <2>1. DOMAIN new = 1 .. n + 1
    BY <1>1, AppendProperties
  <2> QED
    BY <2>1 DEF InOrder
<1> DEFINE w == InOrder(q, new)
<1>8. place \in 0 .. n /\ Inserted(w, u, val, place) /\ Splits(u, val, place)
  BY <1>2, <1>3, <1>4 DEF Splits
<1> HIDE DEF n, new, u, w
<1>9. SUFFICES \A i \in 1 .. Kept' : values'[i] = w[i]
  <2>1. \A i \in 1 .. Kept' : i \in 1 .. n + 1
    BY <1>1, <1>5 DEF Kept
  <2>2. \A i \in 1 .. Kept' : values'[i] = new[q[i]]
    BY <1>7, <1>9, <2>1 DEF w
  <2>3. Begins(values', Kept', q, new)
    BY <2>2 DEF Begins
  <2> QED
    BY <1>4, <2>3 DEF new
<1>10. \A i \in 1 .. n + 1 : w[i] = IF i <= place THEN u[i] ELSE IF i = place + 1 THEN val ELSE u[i - 1]
  BY <1>2, <1>8 DEF Inserted
<1>11. CASE samplecount < K
  <2>1. values' = SortIn(values, val) /\ Kept = n /\ Kept' = n + 1
    BY <1>1, <1>5, <1>11 DEF AddSample, Kept
  <2>2. Splits(values, val, place)
    BY <1>1, <1>2, <1>5, <1>6, <1>8, <2>1 DEF Splits
  <2>3. Inserted(values', values, val, place)
    BY <1>5, <2>1, <2>2, SortInIs
  <2> QED
    <3> SUFFICES ASSUME NEW i \in 1 .. n + 1 PROVE values'[i] = w[i]
      BY <2>1
    <3>1. values'[i] = IF i <= place THEN values[i] ELSE IF i = place + 1 THEN val ELSE values[i - 1]
      BY <1>5, <2>1, <2>3 DEF Inserted
    <3>2. CASE i <= place
      BY <1>1, <1>6, <1>8, <1>10, <2>1, <3>1, <3>2
    <3>3. CASE i = place + 1
      BY <1>1, <1>8, <1>10, <3>1, <3>3
    <3>4. CASE i > place + 1
      <4>1. i - 1 \in 1 .. n
        BY <1>1, <1>8, <3>4
      <4> QED
        BY <1>1, <1>6, <1>8, <1>10, <2>1, <3>1, <3>4, <4>1
    <3> QED
      BY <1>1, <1>8, <3>2, <3>3, <3>4
<1>12. CASE samplecount >= K /\ val < Last(values)
  <2> DEFINE front == Front(values)
  <2>1. values' = SortIn(front, val) /\ Kept = K /\ Kept' = K /\ n >= K
    BY <1>1, <1>5, <1>12 DEF AddSample, Kept
  <2>2. /\ front \in Seq(Int) /\ Len(front) = K - 1 /\ Ascending(front)
        /\ \A i \in 1 .. K - 1 : front[i] = values[i]
    BY <1>5, <2>1, FrontIs
  <2> HIDE DEF front
  <2>3. val < u[K] /\ u[K] \in Int
    <3>1. K \in 1 .. K /\ K \in 1 .. n
      BY <1>1, <2>1
    <3>2. values[K] = u[K]
      BY <1>6, <2>1, <3>1
    <3> QED
      BY <1>2, <1>5, <1>12, <2>1, <3>1, <3>2, LastIs
  <2>4. place < K
    <3> SUFFICES ASSUME place >= K PROVE FALSE
      BY <1>1, <1>8
    <3>1. K \in 1 .. place
      BY <1>1, <1>8
    <3> QED
      BY <1>8, <2>3, <3>1 DEF Splits
  <2>5. \A i \in 1 .. K - 1 : front[i] = u[i]
    <3>1. \A i \in 1 .. K - 1 : i \in 1 .. K
      OBVIOUS
    <3> QED
      BY <1>6, <2>1, <2>2, <3>1
  <2>6. Splits(front, val, place)
    <3>1. place \in 0 .. K - 1
      BY <1>1, <1>8, <2>4
    <3>2. \A i \in 1 .. place : i \in 1 .. K - 1 /\ i \in 1 .. place
      BY <3>1
    <3>3. \A i \in place + 1 .. K - 1 : i \in 1 .. K - 1 /\ i \in place + 1 .. n
      BY <1>1, <2>1, <3>1
    <3> QED
      BY <1>2, <1>8, <2>2, <2>5, <3>1, <3>2, <3>3 DEF Splits
  <2>7. Inserted(values', front, val, place)
    <3>1. place \in 0 .. Len(front)
      BY <2>6 DEF Splits
    <3> QED
      BY <2>1, <2>2, <2>6, <3>1, SortInIs
  <2> QED
    <3> SUFFICES ASSUME NEW i \in 1 .. K PROVE values'[i] = w[i]
      BY <2>1
    <3>1. i \in 1 .. n + 1 /\ i \in 1 .. (K - 1) + 1
      BY <1>1, <2>1
    <3>2. values'[i] = IF i <= place THEN front[i] ELSE IF i = place + 1 THEN val ELSE front[i - 1]
      BY <2>2, <2>7, <3>1 DEF Inserted
    <3>3. CASE i <= place
      <4>1. i \in 1 .. K - 1
        BY <1>1, <1>8, <2>4, <3>3
      <4> QED
        BY <1>10, <2>5, <3>1, <3>2, <3>3, <4>1
    <3>4. CASE i = place + 1
      <4>1. ~(i <= place)
        BY <1>1, <1>8, <3>4
      <4> QED
        BY <1>10, <3>1, <3>2, <3>4, <4>1
    <3>5. CASE i > place + 1
      <4>1. i - 1 \in 1 .. K - 1 /\ ~(i <= place) /\ i # place + 1
        BY <1>1, <1>8, <3>5
      <4> QED
        BY <1>10, <2>5, <3>1, <3>2, <4>1
    <3> QED
      BY <1>1, <1>8, <3>3, <3>4, <3>5
<1>13. CASE samplecount >= K /\ ~(val < Last(values))
  <2>1. values' = values /\ Kept = K /\ Kept' = K /\ n >= K
    BY <1>1, <1>5, <1>13 DEF AddSample, Kept
  <2>2. u[K] <= val /\ u[K] \in Int
    <3>1. K \in 1 .. K /\ K \in 1 .. n
      BY <1>1, <2>1
    <3>2. values[K] = u[K]
      BY <1>6, <2>1, <3>1
    <3> QED
      BY SMTT(60), <1>2, <1>5, <1>13, <2>1, <3>1, <3>2, LastIs
  <2>3. place >= K
    <3> SUFFICES ASSUME place < K PROVE FALSE
      BY <1>1, <1>8
    <3>1. K \in place + 1 .. n
      BY <1>1, <1>8, <2>1
    <3> QED
      BY SMTT(60), <1>2, <1>8, <2>2, <3>1 DEF Splits
  <2> QED
    <3> SUFFICES ASSUME NEW i \in 1 .. K PROVE values[i] = w[i]
      BY <2>1
    <3>1. i \in 1 .. n + 1 /\ i <= place
      BY <1>1, <1>8, <2>1, <2>3
    <3> QED
      BY <1>6, <1>10, <2>1, <3>1
<1> QED
  BY <1>1, <1>5, <1>11, <1>12, <1>13

\* Those are the smallest, and in order.
LEMMA RankedSmallest ==
  ASSUME SamplesOk, NEW s \in Seq(Int), Len(s) = samplecount, NEW p, Ranked(p, s),
         Begins(values, Kept, p, s)
  PROVE  Smallest(values, K, s)
<1>1. samplecount \in Nat /\ DOMAIN s = 1 .. samplecount
  BY DEF SamplesOk
<1>2. \A i, j \in DOMAIN s : i <= j => s[p[i]] <= s[p[j]]
  <2>1. DOMAIN InOrder(p, s) = DOMAIN s /\ \A i \in DOMAIN s : InOrder(p, s)[i] = s[p[i]]
    BY DEF InOrder
  <2>2. \A i, j \in DOMAIN s : i <= j => InOrder(p, s)[i] <= InOrder(p, s)[j]
    BY <2>1 DEF Ranked, Ascending
  <2> QED
    BY <2>1, <2>2
<1>3. values = [i \in 1 .. Kept |-> s[p[i]]]
  <2>1. values = [i \in 1 .. Kept |-> values[i]]
    BY DEF SamplesOk
  <2> QED
    BY <2>1 DEF Begins
<1>4. Kept = IF Len(s) < K THEN Len(s) ELSE K
  BY DEF Kept
<1>5. p \in Bijection(DOMAIN s, DOMAIN s)
  BY DEF Ranked
<1> QED
  BY <1>2, <1>3, <1>4, <1>5 DEF Smallest

-----------------------------------------------------------------------------
(* The invariant of a measurement.                                           *)

Counter == Nat \X (0 .. UINT - 1)
ClockOk == now \in Counter /\ start \in Counter /\ cyc_per_tick \in Nat
ListOk == samplecount \in 0 .. MAXSAMPLES /\ values \in Seq(Int) /\ Len(values) <= K
FcycOk == method = "fcyc" => /\ now[1] < UINT /\ SamplesOk
                             /\ timed \/ samplecount < MAXSAMPLES
                             /\ compensate \/ cyc_per_tick = 0
TimingOk == ClockOk /\ ListOk /\ FcycOk

\* What the samples should be, elapsed, against those that are kept.
Sampled ==
  method = "fcyc" =>
    /\ elapsed \in Seq(Int)
    /\ \A val : Among(values, val) => Among(elapsed, val)
    /\ \A val \in Int : Among(elapsed, val) => Counted(values, val)

\* The samples, in order, begin with those that are kept.
Ordered ==
  method = "fcyc" =>
    /\ elapsed \in Seq(Int) /\ Len(elapsed) = samplecount
    /\ \E p : Ranked(p, elapsed) /\ Begins(values, Kept, p, elapsed)

\* When fcyc() stops.
EndsRight ==
  method = "fcyc" /\ samplecount > 0 => timed = (Converged(values) \/ samplecount >= MAXSAMPLES)

LEMMA OneValue ==
  ASSUME NEW val \in Int
  PROVE  <<val>> \in Seq(Int) /\ Len(<<val>>) <= K
<1>1. <<val>> \in Seq(Int) /\ Len(<<val>>) = 1
  OBVIOUS
<1> QED
  BY <1>1

\* What callibrate() finds is a number.
LEMMA CallibrateType ==
  ASSUME NEW seen \in [1 .. NEVENT -> CYC_PER_TICK]
  PROVE  Callibrate(seen) \in Nat
<1> DEFINE taken == {cpt \in Range(seen) : cpt > RECORDTHRESH}
<1>1. Range(seen) = {seen[i] : i \in 1 .. NEVENT}
  BY DEF Range
<1>2. IsFiniteSet(Range(seen))
  <2>1. IsFiniteSet(1 .. NEVENT)
    BY FS_Interval
  <2>2. seen \in Surjection(1 .. NEVENT, Range(seen))
    BY <1>1 DEF Surjection
  <2> QED
    BY <2>1, <2>2, FS_Surjection
<1>3. taken \in SUBSET Nat /\ IsFiniteSet(taken)
  <2>1. taken \subseteq Range(seen) /\ Range(seen) \subseteq Nat
    BY <1>1
  <2> HIDE DEF taken
  <2> QED
    BY <1>2, <2>1, FS_Subset
<1>4. Callibrate(seen) = IF taken = {} THEN 0 ELSE Min(taken)
  BY DEF Callibrate
<1>5. taken # {} => Min(taken) \in taken
  <2> HIDE DEF taken
  <2>1. taken # {} => \E m \in taken : \A p \in taken : m <= p
    BY <1>3, LeastExists
  <2> QED
    BY <2>1 DEF Min
<1> HIDE DEF taken
<1>6. CASE taken = {}
  BY <1>4, <1>6
<1>7. CASE taken # {}
  BY <1>3, <1>4, <1>5, <1>7
<1> QED
  BY <1>6, <1>7

LEMMA LaterType ==
  ASSUME NEW from \in (0 .. UINT - 1) \X (0 .. UINT - 1), NEW c \in Nat
  PROVE  Later(from, c) \in (0 .. UINT - 1) \X (0 .. UINT - 1)
<1> DEFINE n == (from[1] * UINT + from[2] + c) % (UINT * UINT)
<1>1. UINT * UINT \in Nat /\ UINT * UINT > 0
  <2>1. \A k \in Nat \ {0} : k * k \in Nat /\ k * k > 0
    OBVIOUS
  <2> QED
    BY <2>1
<1>2. from[1] * UINT + from[2] + c \in Nat
  <2>1. \A g, h \in Nat : g * h \in Nat
    OBVIOUS
  <2>2. from[1] \in Nat /\ from[2] \in Nat
    OBVIOUS
  <2> QED
    BY <2>1, <2>2
<1>3. n \in 0 .. UINT * UINT - 1
  BY <1>1, <1>2
<1> HIDE DEF n
<1>4. n \div UINT \in 0 .. UINT - 1 /\ n % UINT \in 0 .. UINT - 1
  BY <1>3, TwoHalves
<1>5. Later(from, c) = <<n \div UINT, n % UINT>>
  BY DEF Later, n
<1> QED
  BY <1>4, <1>5

LEMMA ReadingType ==
  ASSUME NEW from \in Counter, NEW to \in Counter
  PROVE  GetCounter(from, to) \in Int /\ GetTimeOfDay(from, to) \in Int /\ GetEtime(to) \in Int
<1>1. /\ from[1] \in Int /\ from[2] \in Int /\ to[1] \in Int /\ to[2] \in Int
      /\ UINT \in Int /\ UINT > 0 /\ MAX_ETIME \in Int
  BY DEF Counter
<1>2. \A g, h \in Int : g * h \in Int /\ g + h \in Int /\ g - h \in Int
  OBVIOUS
<1>3. \A g \in Int : g % UINT \in Int
  BY <1>1
<1>4. GetCounter(from, to) \in Int
  <2> DEFINE lo == (to[2] - from[2]) % UINT
             borrow == IF lo > to[2] THEN 1 ELSE 0
             hi == (to[1] - from[1] - borrow) % UINT
  <2>1. lo \in Int /\ borrow \in Int
    BY <1>1, <1>2, <1>3
  <2> HIDE DEF lo, borrow
  <2>2. hi \in Int
    BY <1>1, <1>2, <1>3, <2>1
  <2> HIDE DEF hi
  <2>3. hi * UINT + lo \in Int
    BY <1>1, <1>2, <2>1, <2>2
  <2> QED
    BY <2>3 DEF GetCounter, lo, borrow, hi
<1>5. GetTimeOfDay(from, to) \in Int
  BY <1>1, <1>2 DEF GetTimeOfDay
<1>6. GetEtime(to) \in Int
  BY <1>1, <1>2 DEF GetEtime
<1> QED
  BY <1>4, <1>5, <1>6

-----------------------------------------------------------------------------
(* The steps of a measurement.                                               *)

LEMMA AppendAmong ==
  ASSUME NEW s \in Seq(Int), NEW val \in Int
  PROVE  /\ Append(s, val) \in Seq(Int)
         /\ \A w : Among(Append(s, val), w) <=> Among(s, w) \/ w = val
<1>1. /\ Append(s, val) \in Seq(Int) /\ Len(Append(s, val)) = Len(s) + 1
      /\ \A i \in 1 .. Len(s) : Append(s, val)[i] = s[i]
      /\ Append(s, val)[Len(s) + 1] = val
  BY AppendProperties
<1> DEFINE new == Append(s, val)
<1> HIDE DEF new
<1>2. Len(s) \in Nat /\ DOMAIN s = 1 .. Len(s) /\ DOMAIN new = 1 .. Len(s) + 1
  BY <1>1 DEF new
<1>3. \A i \in 1 .. Len(s) + 1 : i \in 1 .. Len(s) \/ i = Len(s) + 1
  BY <1>2
<1>4. \A i \in 1 .. Len(s) : i \in 1 .. Len(s) + 1
  BY <1>2
<1>5. Len(s) + 1 \in 1 .. Len(s) + 1
  BY <1>2
<1>6. /\ \A i \in 1 .. Len(s) : new[i] = s[i]
      /\ new[Len(s) + 1] = val /\ new \in Seq(Int)
  BY <1>1 DEF new
<1>7. \A w : Among(new, w) <=> Among(s, w) \/ w = val
  BY <1>2, <1>3, <1>4, <1>5, <1>6 DEF Among
<1> QED
  BY <1>6, <1>7 DEF new

LEMMA SampleKeeps ==
  ASSUME TimingOk, Sample
  PROVE  /\ TimingOk' /\ EndsRight'
         /\ (\A c \in CYCLES : c + TICK < UINT * UINT) =>
              (Sampled => Sampled') /\ (Ordered => Ordered')
<1>1. method = "fcyc" /\ method' = "fcyc" /\ ~timed /\ compensate' = compensate
  BY DEF Sample
<1>2. /\ now \in (0 .. UINT - 1) \X (0 .. UINT - 1) /\ cyc_per_tick \in Nat
      /\ SamplesOk /\ samplecount < MAXSAMPLES
  BY <1>1 DEF TimingOk, ClockOk, FcycOk, Counter
<1>3. cyc_per_tick' \in Nat
  <2>1. CASE compensate /\ cyc_per_tick = 0
    <3>1. PICK seen \in [1 .. NEVENT -> CYC_PER_TICK] : cyc_per_tick' = Callibrate(seen)
      BY <2>1 DEF Sample, StartCompCounter
    <3> QED
      BY <3>1, CallibrateType
  <2>2. CASE ~(compensate /\ cyc_per_tick = 0)
    BY <1>2, <2>2 DEF Sample, StartCompCounter
  <2> QED
    BY <2>1, <2>2
<1>4. PICK cycles \in CYCLES, ticks \in 0 .. 1 :
        LET end == Later(now, cycles + ticks * TICK)
        IN  /\ now' = end /\ start' = now
            /\ AddSample(IF compensate THEN GetCompCounter(now, end, ticks) ELSE GetCounter(now, end))
            /\ elapsed' = Append(elapsed, cycles + ticks * (TICK - cyc_per_tick'))
  BY DEF Sample
<1> DEFINE took == cycles + ticks * TICK
           end == Later(now, took)
           val == IF compensate THEN GetCompCounter(now, end, ticks) ELSE GetCounter(now, end)
           sample == cycles + ticks * (TICK - cyc_per_tick')
<1>5. /\ cycles \in Nat /\ took \in Nat /\ sample \in Int
      /\ ticks * cyc_per_tick' \in Int /\ took - ticks * cyc_per_tick' = sample
      /\ took <= cycles + TICK
  <2>1. cycles \in Nat /\ TICK \in Int /\ TICK >= 0 /\ cyc_per_tick' \in Int /\ TICK - cyc_per_tick' \in Int
    BY <1>3
  <2>0. \A g \in Int : 0 * g = 0 /\ 1 * g = g
    OBVIOUS
  <2>2. CASE ticks = 0
    <3>1. took = cycles + 0 /\ sample = cycles + 0 /\ ticks * cyc_per_tick' = 0
      BY <2>0, <2>1, <2>2
    <3> QED
      BY <2>1, <3>1
  <2>3. CASE ticks = 1
    <3>1. /\ took = cycles + TICK /\ sample = cycles + (TICK - cyc_per_tick')
          /\ ticks * cyc_per_tick' = cyc_per_tick'
      BY <2>0, <2>1, <2>3
    <3> QED
      BY <1>3, <2>1, <3>1
  <2> QED
    BY <2>2, <2>3
<1>6. end \in (0 .. UINT - 1) \X (0 .. UINT - 1)
  BY <1>2, <1>5, LaterType
<1>7. val \in Int
  <2>1. GetCounter(now, end) \in Int
    BY <1>2, <1>6, ReadingType DEF Counter
  <2> QED
    BY <1>5, <2>1 DEF GetCompCounter
<1>8. now' = end /\ start' = now /\ AddSample(val) /\ elapsed' = Append(elapsed, sample)
  BY <1>4
<1>9. ASSUME \A c \in CYCLES : c + TICK < UINT * UINT
      PROVE  val = sample
  <2>1. took < UINT * UINT
    <3>1. cycles + TICK < UINT * UINT /\ UINT * UINT \in Int
      BY <1>9
    <3> QED
      BY <1>5, <3>1
  <2>2. took \in 0 .. UINT * UINT - 1
    <3>1. UINT * UINT \in Int
      OBVIOUS
    <3> QED
      BY <1>5, <2>1, <3>1
  <2>3. GetCounter(now, end) = took
    BY <1>2, <2>2, GetCounterRight
  <2>4. CASE compensate
    BY <1>5, <2>3, <2>4 DEF GetCompCounter
  <2>5. CASE ~compensate
    <3>1. cyc_per_tick' = 0
      BY <1>1, <2>5 DEF Sample, TimingOk, FcycOk
    <3>2. ticks * 0 = 0 /\ took - 0 = took
      BY <1>5
    <3>3. sample = took
      BY <1>5, <3>1, <3>2
    <3> QED
      BY <2>3, <2>5, <3>3
  <2> QED
    BY <2>4, <2>5
<1> HIDE DEF took, end, val, sample
<1>10. /\ SamplesOk' /\ samplecount' = samplecount + 1
       /\ \A w : Among(values', w) => Among(values, w) \/ w = val
       /\ Counted(values', val)
       /\ \A w \in Int : Counted(values, w) => Counted(values', w)
  BY <1>2, <1>7, <1>8, SampleAdded
<1>11. timed' \/ samplecount' < MAXSAMPLES
  <2>1. samplecount' \in Int
    BY <1>10 DEF SamplesOk
  <2>2. timed' = (Converged(values') \/ samplecount' >= MAXSAMPLES)
    BY DEF Sample
  <2>3. CASE samplecount' >= MAXSAMPLES
    BY <2>2, <2>3
  <2>4. CASE ~(samplecount' >= MAXSAMPLES)
    BY <2>1, <2>4
  <2> QED
    BY <2>3, <2>4
<1>12. TimingOk'
  <2>1. ClockOk'
    BY <1>2, <1>3, <1>6, <1>8 DEF ClockOk, Counter
  <2>2. ListOk'
    <3>1. Kept' <= K
      BY <1>10 DEF SamplesOk, Kept
    <3> QED
      BY <1>10, <3>1 DEF ListOk, SamplesOk
  <2>3. now'[1] < UINT
    BY <1>6, <1>8
  <2>4. compensate' \/ cyc_per_tick' = 0
    <3>1. ~compensate => cyc_per_tick' = cyc_per_tick
      BY DEF Sample
    <3> QED
      BY <1>1, <3>1 DEF TimingOk, FcycOk
  <2> QED
    BY <1>1, <1>10, <1>11, <2>1, <2>2, <2>3, <2>4 DEF TimingOk, FcycOk
<1>13. ASSUME \A c \in CYCLES : c + TICK < UINT * UINT, Sampled
       PROVE  Sampled'
  <2>1. val = sample
    BY <1>9, <1>13
  <2>2. elapsed \in Seq(Int) /\ elapsed' = Append(elapsed, val)
    BY <1>1, <1>8, <1>13, <2>1 DEF Sampled
  <2>3. elapsed' \in Seq(Int) /\ \A w : Among(elapsed', w) <=> Among(elapsed, w) \/ w = val
    BY <1>7, <2>2, AppendAmong
  <2>4. ASSUME NEW w \in Int, Among(elapsed', w) PROVE Counted(values', w)
    BY <1>1, <1>10, <1>13, <2>3, <2>4 DEF Sampled
  <2>5. ASSUME NEW w, Among(values', w) PROVE Among(elapsed', w)
    BY <1>1, <1>10, <1>13, <2>3, <2>5 DEF Sampled
  <2> QED
    BY <2>3, <2>4, <2>5 DEF Sampled
<1>14. ASSUME \A c \in CYCLES : c + TICK < UINT * UINT, Ordered
       PROVE  Ordered'
  <2>1. elapsed \in Seq(Int) /\ Len(elapsed) = samplecount /\ elapsed' = Append(elapsed, val)
    BY <1>1, <1>8, <1>9, <1>14 DEF Ordered
  <2>2. PICK p : Ranked(p, elapsed) /\ Begins(values, Kept, p, elapsed)
    BY <1>1, <1>14 DEF Ordered
  <2>3. PICK q : Ranked(q, elapsed') /\ Begins(values', Kept', q, elapsed')
    BY <1>2, <1>7, <1>8, <2>1, <2>2, RankKept
  <2>4. elapsed' \in Seq(Int) /\ Len(elapsed') = samplecount'
    BY <1>7, <1>10, <2>1, AppendProperties
  <2> QED
    BY <2>3, <2>4 DEF Ordered
<1>15. EndsRight'
  BY DEF Sample, EndsRight
<1> QED
  BY <1>12, <1>13, <1>14, <1>15

LEMMA RunKeeps ==
  ASSUME TimingOk, Run
  PROVE  TimingOk' /\ Sampled'
<1>1. method = "gettod" /\ method' = "gettod" /\ start' = start /\ cyc_per_tick' = cyc_per_tick
      /\ samplecount' = samplecount
  BY DEF Run
<1>2. PICK cycles \in CYCLES :
        now' = <<now[1] + (now[2] + cycles) \div UINT, (now[2] + cycles) % UINT>>
  BY DEF Run
<1>3. now' \in Counter
  <2>1. now[1] \in Nat /\ now[2] + cycles \in Nat
    BY DEF TimingOk, ClockOk, Counter
  <2>2. \A n \in Nat : n \div UINT \in Nat /\ n % UINT \in 0 .. UINT - 1
    BY Division
  <2> QED
    BY SMTT(60), <1>2, <2>1, <2>2 DEF Counter
<1>4. ClockOk'
  BY <1>1, <1>3 DEF TimingOk, ClockOk
<1>5. ListOk'
  <2>1. GetTimeOfDay(start, now') \in Int
    BY <1>3, ReadingType DEF TimingOk, ClockOk
  <2>2. values' = <<GetTimeOfDay(start, now')>> \/ values' = values
    BY DEF Run
  <2> QED
    BY <1>1, <2>1, <2>2, OneValue DEF TimingOk, ListOk
<1> QED
  BY <1>1, <1>4, <1>5 DEF TimingOk, FcycOk, Sampled

LEMMA RunItimerKeeps ==
  ASSUME TimingOk, RunItimer
  PROVE  TimingOk' /\ Sampled'
<1>1. method = "itimer" /\ method' = "itimer" /\ start' = start /\ cyc_per_tick' = cyc_per_tick
      /\ samplecount' = samplecount
  BY DEF RunItimer
<1>2. PICK cycles \in CYCLES :
        LET left == now[1] * UINT + now[2] - cycles
        IN  left > 0 /\ now' = <<left \div UINT, left % UINT>>
  BY DEF RunItimer
<1> DEFINE left == now[1] * UINT + now[2] - cycles
<1>3. left > 0 /\ now' = <<left \div UINT, left % UINT>>
  BY <1>2
<1>4. left \in Nat
  <2>1. now[1] \in Nat /\ now[2] \in Nat /\ cycles \in Nat
    BY DEF TimingOk, ClockOk, Counter
  <2>2. now[1] * UINT \in Nat
    BY <2>1
  <2>3. left \in Int
    BY <2>1, <2>2
  <2> QED
    BY <1>3, <2>3
<1> HIDE DEF left
<1>5. now' \in Counter
  BY <1>3, <1>4, Division DEF Counter
<1>6. ClockOk'
  BY <1>1, <1>5 DEF TimingOk, ClockOk
<1>7. ListOk'
  <2>1. GetEtime(now') \in Int /\ GetEtime(start) \in Int
    BY <1>5, ReadingType DEF TimingOk, ClockOk
  <2>2. GetEtime(now') - GetEtime(start) \in Int
    BY <2>1
  <2>3. values' = <<GetEtime(now') - GetEtime(start)>> \/ values' = values
    BY DEF RunItimer
  <2> QED
    BY <1>1, <2>2, <2>3, OneValue DEF TimingOk, ListOk
<1> QED
  BY <1>1, <1>6, <1>7 DEF TimingOk, FcycOk, Sampled

\* Every step keeps the invariant.
LEMMA TimingKeeps ==
  ASSUME TimingOk, [TimingNext]_timingvars
  PROVE  /\ TimingOk'
         /\ (\A c \in CYCLES : c + TICK < UINT * UINT) /\ Sampled => Sampled'
<1>1. CASE Sample
  BY <1>1, SampleKeeps
<1>2. CASE Run
  BY <1>2, RunKeeps
<1>3. CASE RunItimer
  BY <1>3, RunItimerKeeps
<1>4. CASE Expire
  BY <1>4 DEF Expire, TimingOk, ClockOk, ListOk, FcycOk, Sampled
<1>5. CASE UNCHANGED timingvars
  BY <1>5 DEF timingvars, TimingOk, ClockOk, ListOk, FcycOk, SamplesOk, Kept, Sampled, Ascending,
              Among, Counted
<1> QED
  BY <1>1, <1>2, <1>3, <1>4, <1>5 DEF TimingNext

\* Before the first sample there is nothing.
LEMMA NoSamples ==
  ASSUME values = <<>>, samplecount = 0, elapsed = <<>>, timed = FALSE, cyc_per_tick = 0
  PROVE  ListOk /\ SamplesOk /\ Sampled
<1>1. <<>> \in Seq(Int) /\ Len(<<>>) = 0 /\ DOMAIN (<<>>) = {}
  OBVIOUS
<1>2. Ascending(values) /\ \A w : ~Among(values, w) /\ ~Among(elapsed, w)
  BY <1>1 DEF Ascending, Among
<1> QED
  BY <1>1, <1>2 DEF ListOk, SamplesOk, Kept, Sampled

LEMMA TimingStarts ==
  ASSUME TimingInit
  PROVE  TimingOk /\ Sampled
<1>1. ListOk /\ SamplesOk /\ Sampled
  BY NoSamples DEF TimingInit, InitSampler
<1>2. CASE method = "itimer"
  <2>1. now \in Counter
    BY <1>2 DEF TimingInit, InitEtime, Counter
  <2> QED
    BY <1>1, <1>2, <2>1 DEF TimingInit, TimingOk, ClockOk, FcycOk
<1>3. CASE method # "itimer"
  <2>1. now \in (0 .. UINT - 1) \X (0 .. UINT - 1)
    BY <1>3 DEF TimingInit
  <2>2. ClockOk /\ now[1] < UINT
    BY <2>1 DEF TimingInit, ClockOk, Counter
  <2> QED
    BY <1>1, <2>2 DEF TimingInit, InitSampler, TimingOk, FcycOk
<1> QED
  BY <1>2, <1>3

\* Of the samples, the first that is kept is the least: what fcyc() returns.
LEMMA FirstIsLeast ==
  ASSUME TimingOk, Sampled, method = "fcyc", samplecount > 0
  PROVE  Among(elapsed, values[1]) /\ \A i \in DOMAIN elapsed : values[1] <= elapsed[i]
<1>1. values \in Seq(Int) /\ Len(values) = Kept /\ Ascending(values) /\ samplecount \in Nat
  BY DEF TimingOk, FcycOk, SamplesOk
<1>2. 1 \in DOMAIN values /\ Len(values) \in Nat /\ DOMAIN values = 1 .. Len(values)
      /\ \A i \in DOMAIN values : values[i] \in Int
  BY <1>1 DEF Kept
<1>3. Among(elapsed, values[1])
  BY <1>2 DEF Sampled, Among
<1>4. ASSUME NEW i \in DOMAIN elapsed PROVE values[1] <= elapsed[i]
  <2>1. elapsed[i] \in Int /\ Among(elapsed, elapsed[i])
    BY <1>4 DEF Sampled, Among
  <2>2. CASE Among(values, elapsed[i])
    <3>1. PICK j \in DOMAIN values : elapsed[i] = values[j]
      BY <2>2 DEF Among
    <3>2. 1 <= j
      BY <1>2
    <3> QED
      BY <1>1, <1>2, <3>1, <3>2 DEF Ascending
  <2>3. CASE Len(values) = K /\ values[K] <= elapsed[i]
    <3>1. K \in DOMAIN values /\ 1 <= K
      BY <1>2, <2>3
    <3>2. values[1] <= values[K] /\ values[1] \in Int /\ values[K] \in Int
      BY <1>1, <1>2, <3>1 DEF Ascending
    <3> QED
      BY <2>1, <2>3, <3>2
  <2> QED
    BY <2>1, <2>2, <2>3 DEF Sampled, Counted
<1> QED
  BY <1>3, <1>4

-----------------------------------------------------------------------------
(* What a measurement gives is right.                                        *)

\* The time that a clock shows, and that has passed since the first reading.
Shown(clock) == clock[1] * UINT + clock[2]
Passed == IF method = "gettod" THEN Shown(now) - Shown(start) ELSE Shown(start) - Shown(now)
RunsOk ==
  method \in {"gettod", "itimer"} =>
    /\ elapsed \in Seq(Nat) /\ Passed = TimeOf(elapsed)
    /\ method = "itimer" => start = <<MAX_ETIME, 0>>
    /\ timed => values = <<TimeOf(elapsed)>>

Exact == Ordered /\ EndsRight /\ RunsOk

\* Another run adds its time.
LEMMA TimeWith ==
  ASSUME NEW s \in Seq(Nat), NEW val \in Nat
  PROVE  /\ Append(s, val) \in Seq(Nat) /\ TimeOf(s) \in Nat
         /\ TimeOf(Append(s, val)) = TimeOf(s) + val
<1> DEFINE n == Len(s)
           new == Append(s, val)
<1>1. /\ n \in Nat /\ DOMAIN s = 1 .. n /\ DOMAIN new = 1 .. n + 1 /\ new \in Seq(Nat)
      /\ new[n + 1] = val /\ \A i \in 1 .. n : new[i] = s[i] /\ s[i] \in Nat
  BY AppendProperties, ElementOfSeq
<1>2. \A t : TimeOf(t) = Total(t, DOMAIN t)
  BY DEF TimeOf, Total
<1>3. IsFiniteSet(1 .. n) /\ IsFiniteSet(1 .. n + 1)
  BY <1>1, FS_Interval
<1> HIDE DEF new, n
<1>4. \A i \in 1 .. n + 1 : new[i] \in Int
  BY <1>1
<1>5. n + 1 \in 1 .. n + 1 /\ (1 .. n + 1) \ {n + 1} = 1 .. n
  BY <1>1
<1>6. Total(new, 1 .. n + 1) = val + Total(new, 1 .. n)
  BY <1>1, <1>3, <1>4, <1>5, TotalWith
<1>7. Total(new, 1 .. n) = Total(s, 1 .. n)
  BY <1>1, <1>3, TotalSame
<1>8. Total(s, 1 .. n) \in Nat
  BY <1>1, <1>3, TotalNat
<1>9. TimeOf(new) = TimeOf(s) + val /\ TimeOf(s) \in Nat
  BY <1>1, <1>2, <1>6, <1>7, <1>8
<1> QED
  BY <1>1, <1>9 DEF new

\* No run takes no time.
LEMMA NoTime == <<>> \in Seq(Nat) /\ TimeOf(<<>>) = 0
<1>1. IsFiniteSet({}) /\ DOMAIN (<<>>) = {} /\ <<>> \in Seq(Nat)
  BY FS_EmptySet
<1>2. \A bs : Total(bs, {}) = 0
  BY <1>1, TotalNat
<1>3. TimeOf(<<>>) = Total(<<>>, DOMAIN (<<>>))
  BY DEF TimeOf, Total
<1> QED
  BY <1>1, <1>2, <1>3

LEMMA ShownType == ASSUME NEW c \in Counter PROVE Shown(c) \in Nat
<1>1. c[1] \in Nat /\ c[2] \in Nat /\ UINT \in Nat
  BY DEF Counter
<1>2. \A g, h \in Nat : g * h \in Nat
  OBVIOUS
<1> QED
  BY <1>1, <1>2 DEF Shown

\* The time of day is the carry and the rest.
LEMMA RunExact ==
  ASSUME TimingOk, RunsOk, Run
  PROVE  RunsOk'
<1>1. /\ method = "gettod" /\ method' = "gettod" /\ start' = start /\ ~timed
      /\ values' = IF timed' THEN <<GetTimeOfDay(start, now')>> ELSE values
  BY DEF Run
<1>2. PICK cycles \in CYCLES :
        /\ now' = <<now[1] + (now[2] + cycles) \div UINT, (now[2] + cycles) % UINT>>
        /\ elapsed' = Append(elapsed, cycles)
  BY DEF Run
<1>3. now \in Counter /\ now' \in Counter /\ start \in Counter /\ cycles \in Nat
  BY <1>1, RunKeeps DEF TimingOk, ClockOk
<1>4. elapsed \in Seq(Nat) /\ Shown(now) - Shown(start) = TimeOf(elapsed)
  BY <1>1 DEF RunsOk, Passed
<1>5. elapsed' \in Seq(Nat) /\ TimeOf(elapsed) \in Nat /\ TimeOf(elapsed') = TimeOf(elapsed) + cycles
  BY <1>2, <1>3, <1>4, TimeWith
<1>6. Shown(now') = Shown(now) + cycles
  <2> DEFINE a == now[1]
             b == now[2] + cycles
             q == b \div UINT
             r == b % UINT
  <2>1. a \in Nat /\ b \in Nat /\ UINT \in Nat /\ UINT > 0 /\ now[2] \in Nat
    BY <1>3 DEF Counter
  <2>2. now'[1] = a + q /\ now'[2] = r
    BY <1>2
  <2> HIDE DEF a, b
  <2>3. q \in Nat /\ r \in Nat /\ b = UINT * q + r
    BY <2>1, Division
  <2> HIDE DEF q, r
  <2>4. (a + q) * UINT = a * UINT + q * UINT /\ q * UINT = UINT * q /\ a * UINT \in Int /\ q * UINT \in Int
    BY <2>1, <2>3, Times
  <2>5. (a + q) * UINT + r = a * UINT + b
    BY <2>1, <2>3, <2>4
  <2>6. Shown(now') = (a + q) * UINT + r /\ Shown(now) = a * UINT + now[2] /\ now[2] + cycles = b
    BY <2>2 DEF Shown, a, b
  <2> QED
    BY <1>3, <2>1, <2>4, <2>5, <2>6
<1>7. Shown(now) \in Nat /\ Shown(now') \in Nat /\ Shown(start) \in Nat
  BY <1>3, ShownType
<1>8. Shown(now') - Shown(start) = TimeOf(elapsed')
  BY <1>3, <1>4, <1>5, <1>6, <1>7
<1>9. GetTimeOfDay(start, now') = Shown(now') - Shown(start)
  <2>1. /\ start[1] \in Int /\ start[2] \in Int /\ now'[1] \in Int /\ now'[2] \in Int /\ UINT \in Int
    BY <1>3 DEF Counter
  <2>2. /\ (now'[1] - start[1]) * UINT = now'[1] * UINT - start[1] * UINT
        /\ now'[1] * UINT \in Int /\ start[1] * UINT \in Int
    BY <2>1, Times
  <2> QED
    BY <2>1, <2>2 DEF GetTimeOfDay, Shown
<1>10. timed' => values' = <<TimeOf(elapsed')>>
  BY <1>1, <1>8, <1>9
<1> QED
  BY <1>1, <1>5, <1>8, <1>10 DEF RunsOk, Passed, Shown

\* The interval timer counts down.
LEMMA RunItimerExact ==
  ASSUME TimingOk, RunsOk, RunItimer
  PROVE  RunsOk'
<1>1. /\ method = "itimer" /\ method' = "itimer" /\ start' = start /\ ~timed
      /\ values' = IF timed' THEN <<GetEtime(now') - GetEtime(start)>> ELSE values
  BY DEF RunItimer
<1>2. PICK cycles \in CYCLES :
        LET left == now[1] * UINT + now[2] - cycles
        IN  /\ left > 0 /\ now' = <<left \div UINT, left % UINT>>
            /\ elapsed' = Append(elapsed, cycles)
  BY DEF RunItimer
<1> DEFINE left == now[1] * UINT + now[2] - cycles
<1>3. left > 0 /\ now' = <<left \div UINT, left % UINT>> /\ elapsed' = Append(elapsed, cycles)
  BY <1>2
<1>4. now \in Counter /\ now' \in Counter /\ start \in Counter /\ cycles \in Nat
  BY <1>1, RunItimerKeeps DEF TimingOk, ClockOk
<1>5. elapsed \in Seq(Nat) /\ Shown(start) - Shown(now) = TimeOf(elapsed) /\ start = <<MAX_ETIME, 0>>
  BY <1>1 DEF RunsOk, Passed
<1>6. elapsed' \in Seq(Nat) /\ TimeOf(elapsed) \in Nat /\ TimeOf(elapsed') = TimeOf(elapsed) + cycles
  BY <1>3, <1>4, <1>5, TimeWith
<1>7. Shown(now) \in Nat /\ Shown(now') \in Nat /\ Shown(start) \in Nat
  BY <1>4, ShownType
<1>8. Shown(now') = Shown(now) - cycles
  <2>1. Shown(now) - cycles = left
    <3>1. now[1] \in Nat /\ now[2] \in Nat /\ UINT \in Nat /\ now[1] * UINT \in Nat
      BY <1>4 DEF Counter
    <3> QED
      BY <1>4, <3>1 DEF Shown
  <2>2. left \in Nat
    BY <1>3, <1>4, <1>7, <2>1
  <2> HIDE DEF left
  <2> DEFINE q == left \div UINT
             r == left % UINT
  <2>3. now'[1] = q /\ now'[2] = r
    BY <1>3
  <2>4. q \in Nat /\ r \in Nat /\ left = UINT * q + r
    BY <2>2, Division
  <2> HIDE DEF q, r
  <2>5. UINT * q = q * UINT
    BY <2>4
  <2>6. Shown(now') = q * UINT + r
    BY <2>3 DEF Shown
  <2> QED
    BY <2>1, <2>4, <2>5, <2>6
<1> HIDE DEF left
<1>9. Shown(start) - Shown(now') = TimeOf(elapsed')
  BY <1>4, <1>5, <1>6, <1>7, <1>8
<1>10. GetEtime(now') - GetEtime(start) = Shown(start) - Shown(now')
  <2>1. now'[1] \in Int /\ now'[2] \in Int /\ UINT \in Int /\ MAX_ETIME \in Int
    BY <1>4 DEF Counter
  <2>2. /\ (MAX_ETIME - now'[1]) * UINT = MAX_ETIME * UINT - now'[1] * UINT
        /\ MAX_ETIME * UINT \in Int /\ now'[1] * UINT \in Int
    BY <2>1, Times
  <2>3. GetEtime(now') = MAX_ETIME * UINT - now'[1] * UINT - now'[2]
    BY <2>2 DEF GetEtime
  <2>4. MAX_ETIME - MAX_ETIME = 0 /\ 0 * UINT = 0
    BY <2>1
  <2>5. GetEtime(start) = 0 /\ Shown(start) = MAX_ETIME * UINT + 0
    BY <1>5, <2>4 DEF GetEtime, Shown
  <2> QED
    BY <2>1, <2>2, <2>3, <2>5 DEF Shown
<1>11. timed' => values' = <<TimeOf(elapsed')>>
  BY <1>1, <1>9, <1>10
<1> QED
  BY <1>1, <1>5, <1>6, <1>9, <1>11 DEF RunsOk, Passed, Shown

\* Every step keeps it.
LEMMA ExactKeeps ==
  ASSUME TimingOk, Exact, [TimingNext]_timingvars, \A c \in CYCLES : c + TICK < UINT * UINT
  PROVE  Exact'
<1>1. CASE Sample
  <2>1. Ordered' /\ EndsRight'
    BY <1>1, SampleKeeps DEF Exact
  <2>2. RunsOk'
    BY <1>1 DEF Sample, RunsOk
  <2> QED
    BY <2>1, <2>2 DEF Exact
<1>2. CASE Run
  <2>1. RunsOk'
    BY <1>2, RunExact DEF Exact
  <2> QED
    BY <1>2, <2>1 DEF Exact, Run, Ordered, EndsRight
<1>3. CASE RunItimer
  <2>1. RunsOk'
    BY <1>3, RunItimerExact DEF Exact
  <2> QED
    BY <1>3, <2>1 DEF Exact, RunItimer, Ordered, EndsRight
<1>4. CASE Expire
  BY <1>4 DEF Expire, Exact, Ordered, EndsRight, RunsOk
<1>5. CASE UNCHANGED timingvars
  <2>1. /\ method' = method /\ now' = now /\ start' = start /\ values' = values /\ timed' = timed
        /\ samplecount' = samplecount /\ elapsed' = elapsed /\ Kept' = Kept
    BY <1>5 DEF timingvars, Kept
  <2>2. Ordered' /\ EndsRight' /\ RunsOk'
    BY <2>1 DEF Exact, Ordered, EndsRight, RunsOk, Passed
  <2> QED
    BY <2>2 DEF Exact
<1> QED
  BY <1>1, <1>2, <1>3, <1>4, <1>5 DEF TimingNext

\* It holds before the first run.
LEMMA ExactStarts ==
  ASSUME TimingInit \/ NoTiming
  PROVE  Exact
<1>1. samplecount = 0 /\ elapsed = <<>> /\ timed = FALSE /\ start = now
  BY DEF TimingInit, InitSampler, NoTiming
<1>2. Ordered
  <2>1. <<>> \in Seq(Int) /\ Len(<<>>) = 0 /\ DOMAIN (<<>>) = {} /\ <<>> \in [{} -> {}]
    OBVIOUS
  <2>2. Ranked(<<>>, <<>>)
    BY <2>1 DEF Ranked, InOrder, Ascending, Bijection, Injection, Surjection, IsInjective
  <2>3. Begins(values, Kept, <<>>, elapsed)
    BY <1>1 DEF Begins, Kept
  <2> QED
    BY <1>1, <2>1, <2>2, <2>3 DEF Ordered
<1>3. RunsOk
  <2> SUFFICES ASSUME method \in {"gettod", "itimer"} PROVE RunsOk
    BY DEF RunsOk
  <2>1. TimingInit
    BY DEF NoTiming
  <2>2. start \in Counter /\ (method = "itimer" => start = <<MAX_ETIME, 0>>)
    BY <2>1, TimingStarts DEF TimingOk, ClockOk, TimingInit, InitEtime
  <2>3. Passed = 0
    BY <1>1, <2>2, ShownType DEF Passed
  <2> QED
    BY <1>1, <2>2, <2>3, NoTime DEF RunsOk
<1> QED
  BY <1>1, <1>2, <1>3 DEF Exact, EndsRight

\* It gives what is asked of a measurement.
LEMMA ExactIsRight ==
  ASSUME TimingOk, Exact
  PROVE  TimingRight
<1>1. CASE method = "fcyc"
  <2>1. SamplesOk
    BY <1>1 DEF TimingOk, FcycOk
  <2>2. Smallest(values, K, elapsed)
    BY <1>1, <2>1, RankedSmallest DEF Exact, Ordered
  <2>3. ASSUME samplecount >= K, samplecount < MAXSAMPLES, values[1] >= 0
        PROVE  timed <=> 100 * (values[K] - values[1]) <= EPSILON * values[1]
    <3>1. samplecount \in Nat /\ samplecount > 0 /\ ~(samplecount >= MAXSAMPLES) /\ Len(values) = K
      BY <2>1, <2>3 DEF SamplesOk, Kept
    <3>2. timed <=> (100 + EPSILON) * values[1] >= 100 * values[K]
      <4>1. timed = (Converged(values) \/ samplecount >= MAXSAMPLES)
        BY <1>1, <3>1 DEF Exact, EndsRight
      <4>2. timed <=> Converged(values)
        BY <3>1, <4>1
      <4> QED
        BY <3>1, <4>2 DEF Converged
    <3>3. values[1] \in Int /\ values[K] \in Int
      BY <2>1, <3>1 DEF SamplesOk
    <3>4. /\ (100 + EPSILON) * values[1] = 100 * values[1] + EPSILON * values[1]
          /\ EPSILON * values[1] \in Int
      BY <3>3, Times
    <3>5. 100 * (values[K] - values[1]) = 100 * values[K] - 100 * values[1]
      BY <3>3
    <3> QED
      BY <3>2, <3>3, <3>4, <3>5
  <2> QED
    BY <1>1, <2>2, <2>3 DEF TimingRight
<1>2. CASE method \in {"gettod", "itimer"}
  BY <1>2 DEF Exact, RunsOk, TimingRight
<1>3. CASE method \notin {"fcyc", "gettod", "itimer"}
  BY <1>3 DEF TimingRight
<1> QED
  BY <1>1, <1>2, <1>3

HIDE TimingAssumption DEF TimingAssumption
USE CsimAssumption DEF CsimAssumption

-----------------------------------------------------------------------------
(* The inductive invariant.                                                  *)

Line == [valid : BOOLEAN, tag : Nat, lru_counter : Nat]

GeometryOk == geometry \in (Nat \ {0}) \X (Nat \ {0})

\* Where the first loop stops, the tag is or is nowhere.
LinesOk(set) ==
  /\ \A i, j \in Ways : set[j].valid /\ i < j => set[i].valid
  /\ \A i, j \in Ways : set[i].valid /\ set[j].valid /\ set[i].tag = set[j].tag => i = j

\* The counters against the order of use, order: of two lines, the one used before looks no
\* younger, and of three it looks older than the last.
UsedAfter(set, order, i, j) ==
  set[i].valid /\ set[j].valid /\ <<set[i].tag, set[j].tag>> \in order
OrderOk(set, order) ==
  /\ \A p \in order : \E i, j \in Ways :
       i # j /\ set[i].valid /\ set[j].valid /\ p = <<set[i].tag, set[j].tag>>
  /\ \A i, j \in Ways : set[i].valid /\ set[j].valid /\ i # j =>
       UsedAfter(set, order, i, j) \/ UsedAfter(set, order, j, i)
  /\ \A i, j \in Ways : UsedAfter(set, order, i, j) =>
       set[j].lru_counter >= set[i].lru_counter /\ set[j].lru_counter >= 1
  /\ \A i, j, k \in Ways : UsedAfter(set, order, i, j) /\ UsedAfter(set, order, j, k) =>
       set[k].lru_counter > set[i].lru_counter

\* Line k has just been used for tag; the others have grown older.
JustUsed(set, new, k, tag) ==
  /\ new[k].valid /\ new[k].tag = tag /\ new[k].lru_counter \in {0, 1}
  /\ \A i \in Ways \ {k} :
       /\ new[i].valid = set[i].valid /\ new[i].tag = set[i].tag
       /\ new[i].lru_counter = set[i].lru_counter + 1
       /\ set[i].valid => set[i].tag # tag
  /\ \A i \in Ways : i < k => set[i].valid
Others(set, k) == {set[i].tag : i \in {j \in Ways : j # k /\ set[j].valid}}

LEMMA UseKeepsLines ==
  ASSUME GeometryOk, NEW set, NEW new, NEW k \in Ways, NEW tag,
         LinesOk(set), JustUsed(set, new, k, tag)
  PROVE  LinesOk(new)
<1>1. ASSUME NEW i \in Ways, NEW j \in Ways, new[j].valid, i < j PROVE new[i].valid
  <2>1. CASE i = k
    BY <2>1 DEF JustUsed
  <2>2. CASE i # k /\ j = k
    BY <1>1, <2>2 DEF JustUsed
  <2>3. CASE i # k /\ j # k
    BY <1>1, <2>3 DEF JustUsed, LinesOk
  <2> QED
    BY <2>1, <2>2, <2>3
<1>2. ASSUME NEW i \in Ways, NEW j \in Ways, new[i].valid, new[j].valid, new[i].tag = new[j].tag
      PROVE  i = j
  BY <1>2 DEF JustUsed, LinesOk
<1> QED
  BY <1>1, <1>2 DEF LinesOk

LEMMA UseKeepsOrder ==
  ASSUME GeometryOk, NEW set \in [Ways -> Line], NEW new \in [Ways -> Line], NEW order,
         NEW k \in Ways, NEW tag,
         LinesOk(set), OrderOk(set, order), JustUsed(set, new, k, tag)
  PROVE  OrderOk(new, Used(order, tag, Others(set, k)))
<1> DEFINE O == Others(set, k)
           used == Used(order, tag, O)
<1>1. /\ \A i \in Ways \ {k} : set[i].valid => set[i].tag \in O /\ set[i].tag # tag
      /\ tag \notin O
      /\ \A t \in O : \E i \in Ways \ {k} : set[i].valid /\ t = set[i].tag
  BY DEF Others, JustUsed
<1>2. /\ new[k].valid /\ new[k].tag = tag /\ new[k].lru_counter \in {0, 1}
      /\ \A i \in Ways \ {k} : /\ new[i].valid = set[i].valid /\ new[i].tag = set[i].tag
                               /\ new[i].lru_counter = set[i].lru_counter + 1
      /\ \A i \in Ways : set[i].lru_counter \in Nat /\ new[i].lru_counter \in Nat
  BY DEF JustUsed, Line
<1>3. \A p \in used : \E i, j \in Ways :
        i # j /\ new[i].valid /\ new[j].valid /\ p = <<new[i].tag, new[j].tag>>
  <2> SUFFICES ASSUME NEW p \in used
               PROVE  \E i, j \in Ways : i # j /\ new[i].valid /\ new[j].valid /\ p = <<new[i].tag, new[j].tag>>
    OBVIOUS
  <2>1. CASE p \in order /\ p \in O \X O
    <3>1. PICK i, j \in Ways : i # j /\ set[i].valid /\ set[j].valid /\ p = <<set[i].tag, set[j].tag>>
      BY <2>1 DEF OrderOk
    <3>2. i # k
      <4>1. set[i].tag \in O
        BY <2>1, <3>1
      <4>2. PICK n \in Ways \ {k} : set[n].valid /\ set[i].tag = set[n].tag
        BY <1>1, <4>1
      <4> QED
        BY <3>1, <4>2 DEF LinesOk
    <3>3. j # k
      <4>1. set[j].tag \in O
        BY <2>1, <3>1
      <4>2. PICK n \in Ways \ {k} : set[n].valid /\ set[j].tag = set[n].tag
        BY <1>1, <4>1
      <4> QED
        BY <3>1, <4>2 DEF LinesOk
    <3> QED
      BY <1>2, <3>1, <3>2, <3>3
  <2>2. CASE p \in {tag} \X O
    <3>1. PICK t \in O : p = <<tag, t>>
      BY <2>2
    <3>2. PICK j \in Ways \ {k} : set[j].valid /\ t = set[j].tag
      BY <1>1
    <3> QED
      BY <1>2, <3>1, <3>2
  <2> QED
    BY <2>1, <2>2 DEF Used
\* What UsedAfter() says of the new set: as before, or of the line just used.
<1>4. ASSUME NEW i \in Ways, NEW j \in Ways
      PROVE  UsedAfter(new, used, i, j) <=>
               j # k /\ (IF i = k THEN set[j].valid ELSE UsedAfter(set, order, i, j))
  <2>1. CASE i = k /\ j = k
    BY <1>1, <1>2, <2>1 DEF UsedAfter, Used
  <2>2. CASE i = k /\ j # k
    BY <1>1, <1>2, <2>2 DEF UsedAfter, Used
  <2>3. CASE i # k /\ j = k
    BY <1>1, <1>2, <2>3 DEF UsedAfter, Used
  <2>4. CASE i # k /\ j # k
    BY <1>1, <1>2, <2>4 DEF UsedAfter, Used
  <2> QED
    BY <2>1, <2>2, <2>3, <2>4
<1> HIDE DEF used, O
<1>5. ASSUME NEW i \in Ways, NEW j \in Ways, new[i].valid, new[j].valid, i # j
      PROVE  UsedAfter(new, used, i, j) \/ UsedAfter(new, used, j, i)
  <2>1. CASE i = k \/ j = k
    BY <1>2, <1>4, <1>5, <2>1
  <2>2. CASE i # k /\ j # k
    BY <1>2, <1>4, <1>5, <2>2 DEF OrderOk
  <2> QED
    BY <2>1, <2>2
<1>6. ASSUME NEW i \in Ways, NEW j \in Ways, UsedAfter(new, used, i, j)
      PROVE  new[j].lru_counter >= new[i].lru_counter /\ new[j].lru_counter >= 1
  <2>1. CASE i = k
    BY <1>2, <1>4, <1>6, <2>1
  <2>2. CASE i # k
    BY <1>2, <1>4, <1>6, <2>2 DEF OrderOk
  <2> QED
    BY <2>1, <2>2
<1>7. ASSUME NEW i \in Ways, NEW j \in Ways, NEW m \in Ways,
             UsedAfter(new, used, i, j), UsedAfter(new, used, j, m)
      PROVE  new[m].lru_counter > new[i].lru_counter
  <2>1. j # k /\ m # k /\ UsedAfter(set, order, j, m)
    BY <1>4, <1>7
  <2>2. CASE i = k
    BY <1>2, <2>1, <2>2 DEF OrderOk
  <2>3. CASE i # k
    <3>1. UsedAfter(set, order, i, j)
      BY <1>4, <1>7, <2>3
    <3> QED
      BY <1>2, <2>1, <2>3, <3>1 DEF OrderOk
  <2> QED
    BY <2>2, <2>3
<1>8. OrderOk(new, used)
  BY <1>3, <1>5, <1>6, <1>7 DEF OrderOk
<1> QED
  BY <1>8 DEF used, O

-----------------------------------------------------------------------------
(* What the loops of access_cache() find.                                    *)

LEMMA LeastIs ==
  ASSUME NEW I \in SUBSET Nat, IsFiniteSet(I), I # {}
  PROVE  Least(I) \in I /\ \A j \in I : Least(I) <= j
<1>1. \E i \in I : \A j \in I : i <= j
  BY LeastExists
<1> QED
  BY <1>1 DEF Least

LEMMA WaysFinite ==
  ASSUME GeometryOk
  PROVE  /\ Ways \subseteq Nat /\ Ways # {} /\ IsFiniteSet(Ways) /\ IsFiniteSet(Sets \X Ways)
         /\ \A I \in SUBSET Ways : IsFiniteSet(I)
<1>1. E \in Nat \ {0} /\ S \in Nat \ {0}
  BY DEF GeometryOk, E, S
<1>2. IsFiniteSet(Ways) /\ IsFiniteSet(Sets)
  BY <1>1, FS_Interval DEF Ways, Sets
<1>3. IsFiniteSet(Sets \X Ways)
  BY <1>2, FS_Product
<1>4. 1 \in Ways /\ Ways \subseteq Nat
  BY <1>1 DEF Ways
<1> QED
  BY <1>2, <1>3, <1>4, FS_Subset

LEMMA FirstStop ==
  ASSUME GeometryOk, NEW set \in [Ways -> Line], NEW tag, Stops(set, tag) # {}
  PROVE  /\ Least(Stops(set, tag)) \in Ways
         /\ LET k == Least(Stops(set, tag))
            IN  /\ set[k].valid => set[k].tag = tag
                /\ \A i \in Ways : i < k => set[i].valid /\ set[i].tag # tag
                /\ \A i \in Ways : set[i].tag = tag => k <= i
<1> DEFINE I == Stops(set, tag)
<1>1. I \in SUBSET Ways
  BY DEF Stops
<1>2. I \in SUBSET Nat /\ IsFiniteSet(I)
  BY <1>1, WaysFinite
<1>3. Least(I) \in I /\ \A j \in I : Least(I) <= j
  <2> HIDE DEF I
  <2> QED
    BY <1>2, LeastIs DEF I
<1>4. \A i \in Ways : i < Least(I) => i \notin I
  BY <1>1, <1>2, <1>3
<1> QED
  BY <1>1, <1>3, <1>4 DEF Stops

LEMMA OldestIs ==
  ASSUME GeometryOk, NEW set \in [Ways -> Line]
  PROVE  Oldest(set) \in Ways /\ \A j \in Ways : set[j].lru_counter <= set[Oldest(set)].lru_counter
<1> DEFINE counter == [i \in Ways |-> set[i].lru_counter]
           C == {counter[i] : i \in Ways}
           I == {i \in Ways : \A j \in Ways : set[j].lru_counter <= set[i].lru_counter}
<1>1. \A i \in Ways : set[i].lru_counter \in Nat
  BY DEF Line
<1>2. C \in SUBSET Nat
  BY <1>1
<1>3. C # {}
  BY WaysFinite
<1>4. IsFiniteSet(C)
  <2>1. counter \in Surjection(Ways, C)
    BY DEF Surjection
  <2> HIDE DEF C, counter
  <2> QED
    BY <2>1, WaysFinite, FS_Surjection
<1>5. PICK c \in C : \A d \in C : d <= c
  <2> HIDE DEF C
  <2> QED
    BY <1>2, <1>3, <1>4, GreatestExists
<1>6. PICK i \in Ways : c = set[i].lru_counter
  BY <1>5
<1>7. I # {}
  BY <1>5, <1>6
<1>8. I \in SUBSET Ways
  OBVIOUS
<1>9. I \in SUBSET Nat /\ IsFiniteSet(I)
  <2> HIDE DEF I
  <2> QED
    BY <1>8, WaysFinite
<1>10. Least(I) \in I
  <2> HIDE DEF I
  <2> QED
    BY <1>7, <1>9, LeastIs
<1> QED
  BY <1>10 DEF Oldest

-----------------------------------------------------------------------------
(* access_cache(): in each of its cases it uses one line for the tag.        *)

CountsOk ==
  /\ hit_count \in Nat /\ miss_count \in Nat /\ eviction_count \in Nat
  /\ \A s \in Sets, i \in Ways : lines[s][i].lru_counter <= hit_count + miss_count
Holding == {p \in Sets \X Ways : p[2] \in Valid(p[1])}
ShapeOk == GeometryOk /\ lines \in [Sets -> [Ways -> Line]] /\ recent \in [Sets -> SUBSET (Nat \X Nat)]
SetsOk == \A s \in Sets : LinesOk(lines[s]) /\ OrderOk(lines[s], recent[s])
CacheInv ==
  /\ ShapeOk /\ SetsOk /\ CountsOk
  /\ miss_count = eviction_count + Cardinality(Holding)

UseOf(s, tag, k, new) ==
  /\ lines' = [lines EXCEPT ![s] = new]
  /\ recent' = [recent EXCEPT ![s] = Used(@, tag, Others(lines[s], k))]
  /\ JustUsed(lines[s], new, k, tag)

LEMMA Older ==
  ASSUME NEW r \in Line
  PROVE  LET a == [r EXCEPT !.lru_counter = @ + 1]
         IN  a \in Line /\ a.valid = r.valid /\ a.tag = r.tag /\ a.lru_counter = r.lru_counter + 1
  BY DEF Line

LEMMA OthersAre ==
  ASSUME ShapeOk, SetsOk, NEW s \in Sets, NEW k \in Ways
  PROVE  /\ lines[s][k].valid => Others(lines[s], k) = Cached(s) \ {lines[s][k].tag}
         /\ ~lines[s][k].valid => Others(lines[s], k) = Cached(s)
<1>1. \A i, j \in Ways : lines[s][i].valid /\ lines[s][j].valid
                         /\ lines[s][i].tag = lines[s][j].tag => i = j
  BY DEF SetsOk, LinesOk
<1>2. \A t : t \in Others(lines[s], k) <=> \E i \in Ways : i # k /\ lines[s][i].valid /\ t = lines[s][i].tag
  BY DEF Others
<1>3. \A t : t \in Cached(s) <=> \E i \in Ways : lines[s][i].valid /\ t = lines[s][i].tag
  BY DEF Cached, Valid
<1>4. CASE lines[s][k].valid
  BY <1>1, <1>2, <1>3, <1>4
<1>5. CASE ~lines[s][k].valid
  BY ZenonT(60), <1>2, <1>3, <1>5
<1> QED
  BY <1>4, <1>5

\* The first loop has stopped at line k: a hit or a cold start.
LEMMA TouchUses ==
  ASSUME ShapeOk, SetsOk, NEW s \in Sets, NEW tag \in Nat, Stops(lines[s], tag) # {}
  PROVE  LET k == Least(Stops(lines[s], tag))
             new == Age(Touch(lines[s], tag))
         IN  /\ k \in Ways /\ new \in [Ways -> Line]
             /\ JustUsed(lines[s], new, k, tag)
             /\ lines[s][k].valid => lines[s][k].tag = tag
             /\ Others(lines[s], k) = Cached(s) \ {tag}
<1> DEFINE k == Least(Stops(lines[s], tag))
           new == Age(Touch(lines[s], tag))
<1>1. lines[s] \in [Ways -> Line] /\ GeometryOk
  BY DEF ShapeOk
<1>2. /\ k \in Ways
      /\ lines[s][k].valid => lines[s][k].tag = tag
      /\ \A i \in Ways : i < k => lines[s][i].valid /\ lines[s][i].tag # tag
      /\ \A i \in Ways : lines[s][i].tag = tag => k <= i
  BY <1>1, FirstStop
<1> HIDE DEF k
<1>3. new = [i \in Ways |-> [[lines[s] EXCEPT ![k] = Filled(tag)][i] EXCEPT !.lru_counter = @ + 1]]
  BY DEF Age, Touch, k
<1>4. /\ new[k] \in Line /\ new[k].valid /\ new[k].tag = tag /\ new[k].lru_counter = 1
      /\ \A i \in Ways \ {k} : new[i] = [lines[s][i] EXCEPT !.lru_counter = @ + 1]
  <2> DEFINE set == [lines[s] EXCEPT ![k] = Filled(tag)]
  <2>1. /\ set[k] = Filled(tag)
        /\ \A i \in Ways \ {k} : set[i] = lines[s][i]
    BY <1>1, <1>2
  <2>2. new = [i \in Ways |-> [set[i] EXCEPT !.lru_counter = @ + 1]]
    BY <1>3
  <2> HIDE DEF set, new
  <2>3. new[k] = [Filled(tag) EXCEPT !.lru_counter = @ + 1]
    BY <1>2, <2>1, <2>2
  <2>4. Filled(tag) \in Line /\ Filled(tag).valid /\ Filled(tag).tag = tag /\ Filled(tag).lru_counter = 0
    BY DEF Filled, Line
  <2>5. new[k] \in Line /\ new[k].valid /\ new[k].tag = tag /\ new[k].lru_counter = 1
    BY <2>3, <2>4, Older
  <2> QED
    BY <2>1, <2>2, <2>5
<1>5. new \in [Ways -> Line]
  <2>1. \A i \in Ways : lines[s][i] \in Line
    BY <1>1
  <2>2. \A r \in Line : [r EXCEPT !.lru_counter = @ + 1] \in Line
    BY Older
  <2>3. new[k] \in Line
    BY <1>4
  <2>4. \A i \in Ways : new[i] \in Line
    BY <1>4, <2>1, <2>2, <2>3
  <2> QED
    BY <1>3, <2>4
<1>6. \A i \in Ways \ {k} : lines[s][i].valid => lines[s][i].tag # tag
  <2> SUFFICES ASSUME NEW i \in Ways, i # k, lines[s][i].valid, lines[s][i].tag = tag
               PROVE  FALSE
    OBVIOUS
  <2>1. k < i
    BY <1>1, <1>2, WaysFinite
  <2>2. lines[s][k].valid
    BY <1>2, <2>1 DEF SetsOk, LinesOk
  <2> QED
    BY <1>2, <2>2 DEF SetsOk, LinesOk
<1>7. JustUsed(lines[s], new, k, tag)
  <2>1. \A i \in Ways \ {k} : /\ new[i].valid = lines[s][i].valid /\ new[i].tag = lines[s][i].tag
                              /\ new[i].lru_counter = lines[s][i].lru_counter + 1
    <3>1. \A i \in Ways : lines[s][i] \in Line
      BY <1>1
    <3> QED
      BY <1>4, <3>1, Older
  <2> QED
    BY <1>2, <1>4, <1>6, <2>1 DEF JustUsed
<1>8. Others(lines[s], k) = Cached(s) \ {tag}
  <2>1. CASE lines[s][k].valid
    BY <1>2, <2>1, OthersAre
  <2>2. CASE ~lines[s][k].valid
    <3>1. tag \notin Cached(s)
      BY <1>6, <2>2 DEF Cached, Valid
    <3> QED
      BY <1>2, <2>2, <3>1, OthersAre
  <2> QED
    BY <2>1, <2>2
<1> QED
  BY <1>2, <1>5, <1>7, <1>8 DEF k

LEMMA EvictUses ==
  ASSUME ShapeOk, SetsOk, NEW s \in Sets, NEW tag \in Nat, Stops(lines[s], tag) = {}
  PROVE  LET k == Oldest(lines[s])
             new == [Age(lines[s]) EXCEPT ![k] = Filled(tag)]
         IN  /\ k \in Ways /\ new \in [Ways -> Line]
             /\ JustUsed(lines[s], new, k, tag)
             /\ lines[s][k].valid
             /\ \A j \in Ways : lines[s][j].lru_counter <= lines[s][k].lru_counter
             /\ Others(lines[s], k) = Cached(s) \ {lines[s][k].tag}
<1> DEFINE k == Oldest(lines[s])
           new == [Age(lines[s]) EXCEPT ![k] = Filled(tag)]
<1>1. lines[s] \in [Ways -> Line] /\ GeometryOk
  BY DEF ShapeOk
<1>2. k \in Ways /\ \A j \in Ways : lines[s][j].lru_counter <= lines[s][k].lru_counter
  BY <1>1, OldestIs
<1> HIDE DEF k
<1>3. \A i \in Ways : lines[s][i].valid /\ lines[s][i].tag # tag
  BY DEF Stops
<1>4. /\ new[k] = [valid |-> TRUE, tag |-> tag, lru_counter |-> 0]
      /\ \A i \in Ways \ {k} : new[i] = [lines[s][i] EXCEPT !.lru_counter = @ + 1]
  BY <1>1, <1>2 DEF Age, Filled
<1>5. new \in [Ways -> Line]
  <2>1. \A i \in Ways : lines[s][i] \in Line
    BY <1>1
  <2>2. \A r \in Line : [r EXCEPT !.lru_counter = @ + 1] \in Line
    BY Older
  <2>3. Filled(tag) \in Line
    BY DEF Line, Filled
  <2>4. Age(lines[s]) \in [Ways -> Line]
    BY <2>1, <2>2 DEF Age
  <2> QED
    BY <2>3, <2>4
<1>6. JustUsed(lines[s], new, k, tag)
  <2>1. \A i \in Ways \ {k} : /\ new[i].valid = lines[s][i].valid /\ new[i].tag = lines[s][i].tag
                              /\ new[i].lru_counter = lines[s][i].lru_counter + 1
    <3>1. \A i \in Ways : lines[s][i] \in Line
      BY <1>1
    <3> QED
      BY <1>4, <3>1, Older
  <2> QED
    BY <1>3, <1>4, <2>1 DEF JustUsed
<1>7. Others(lines[s], k) = Cached(s) \ {lines[s][k].tag}
  BY <1>2, <1>3, OthersAre
<1> QED
  BY <1>2, <1>3, <1>5, <1>6, <1>7 DEF k

-----------------------------------------------------------------------------
(* The use of a line keeps the invariant of the cache.                       *)

LEMMA UseFills ==
  ASSUME ShapeOk, NEW s \in Sets, NEW tag, NEW k \in Ways, NEW new \in [Ways -> Line],
         UseOf(s, tag, k, new), UNCHANGED geometry
  PROVE  /\ Sets' = Sets /\ Ways' = Ways
         /\ lines'[s] = new /\ \A r \in Sets \ {s} : lines'[r] = lines[r]
         /\ Holding' = Holding \cup {<<s, k>>}
         /\ Cached(s)' = Others(lines[s], k) \cup {tag}
         /\ \A r \in Sets \ {s} : Cached(r)' = Cached(r)
<1>1. Sets' = Sets /\ Ways' = Ways
  BY DEF Sets, Ways, S, E
<1>2. lines'[s] = new /\ \A r \in Sets \ {s} : lines'[r] = lines[r]
  BY DEF UseOf, ShapeOk
<1>3. \A r \in Sets : Valid(r)' = {i \in Ways : lines'[r][i].valid}
  BY <1>1 DEF Valid
<1>4. Valid(s)' = Valid(s) \cup {k}
  BY <1>2, <1>3 DEF UseOf, JustUsed, Valid
<1>5. \A r \in Sets \ {s} : Valid(r)' = Valid(r)
  BY <1>2, <1>3 DEF Valid
<1>6. Holding' = Holding \cup {<<s, k>>}
  <2>1. ASSUME NEW r \in Sets, NEW i \in Ways
        PROVE  i \in Valid(r)' <=> i \in Valid(r) \/ (r = s /\ i = k)
    BY <1>4, <1>5
  <2>2. Holding' = {p \in Sets \X Ways : p[2] \in Valid(p[1]) \/ (p[1] = s /\ p[2] = k)}
    <3>1. Holding' = {p \in Sets' \X Ways' : p[2] \in (Valid(p[1]))'}
      BY DEF Holding
    <3>2. \A p \in Sets \X Ways : p[2] \in (Valid(p[1]))' <=> p[2] \in Valid(p[1]) \/ (p[1] = s /\ p[2] = k)
      BY <2>1
    <3> QED
      BY <1>1, <3>1, <3>2
  <2>3. \A p \in Sets \X Ways : p[1] = s /\ p[2] = k <=> p = <<s, k>>
    OBVIOUS
  <2> QED
    BY <2>2, <2>3 DEF Holding
<1>7. Cached(s)' = {new[i].tag : i \in Valid(s) \cup {k}}
  BY <1>1, <1>2, <1>4 DEF Cached
<1>8. Cached(s)' = Others(lines[s], k) \cup {tag}
  <2>1. \A t : t \in Cached(s)' <=> \E i \in Valid(s) \cup {k} : t = new[i].tag
    BY <1>7
  <2>2. \A t : t \in Others(lines[s], k) <=> \E i \in Ways : i # k /\ lines[s][i].valid /\ t = lines[s][i].tag
    BY DEF Others
  <2>3. \A i : i \in Valid(s) \cup {k} <=> i = k \/ (i \in Ways \ {k} /\ lines[s][i].valid)
    BY DEF Valid
  <2>4. new[k].tag = tag /\ \A i \in Ways \ {k} : new[i].tag = lines[s][i].tag
    BY DEF UseOf, JustUsed
  <2> HIDE DEF Others
  <2> QED
    BY <2>1, <2>2, <2>3, <2>4
<1>9. \A r \in Sets \ {s} : Cached(r)' = Cached(r)
  BY <1>2, <1>5 DEF Cached
<1> QED
  BY <1>1, <1>2, <1>6, <1>8, <1>9

LEMMA UseKeepsCache ==
  ASSUME CacheInv, NEW s \in Sets, NEW tag \in Nat, NEW k \in Ways, NEW new \in [Ways -> Line],
         UseOf(s, tag, k, new), UNCHANGED geometry,
         hit_count' \in Nat, miss_count' \in Nat, eviction_count' \in Nat,
         hit_count' + miss_count' = hit_count + miss_count + 1,
         miss_count' - eviction_count' =
           miss_count - eviction_count + IF lines[s][k].valid THEN 0 ELSE 1
  PROVE  CacheInv'
<1>1. /\ Sets' = Sets /\ Ways' = Ways
      /\ lines'[s] = new /\ \A r \in Sets \ {s} : lines'[r] = lines[r]
      /\ Holding' = Holding \cup {<<s, k>>}
  BY UseFills DEF CacheInv
<1>2. recent'[s] = Used(recent[s], tag, Others(lines[s], k))
      /\ \A r \in Sets \ {s} : recent'[r] = recent[r]
  BY DEF UseOf, CacheInv, ShapeOk
<1>3. LinesOk(new) /\ OrderOk(new, recent'[s])
  BY <1>2, UseKeepsLines, UseKeepsOrder DEF CacheInv, SetsOk, ShapeOk, UseOf
<1>4. SetsOk'
  <2>1. \A r \in Sets : LinesOk(lines'[r]) /\ OrderOk(lines'[r], recent'[r])
    BY <1>1, <1>2, <1>3 DEF CacheInv, SetsOk
  <2>2. ASSUME NEW r \in Sets
        PROVE  (LinesOk(lines[r]))' /\ (OrderOk(lines[r], recent[r]))'
    <3>1. (LinesOk(lines[r]))' <=> LinesOk(lines'[r])
      BY <1>1 DEF LinesOk
    <3>2. (OrderOk(lines[r], recent[r]))' <=> OrderOk(lines'[r], recent'[r])
      BY <1>1 DEF OrderOk, UsedAfter
    <3> QED
      BY <2>1, <3>1, <3>2
  <2> QED
    BY <1>1, <2>2 DEF SetsOk
<1>5. ShapeOk'
  <2>1. lines' \in [Sets -> [Ways -> Line]]
    BY DEF UseOf, CacheInv, ShapeOk
  <2>2. Others(lines[s], k) \in SUBSET Nat
    BY DEF Others, CacheInv, ShapeOk, Line
  <2>3. \A order, O : order \in SUBSET (Nat \X Nat) /\ O \in SUBSET Nat
                      => Used(order, tag, O) \in SUBSET (Nat \X Nat)
    BY DEF Used
  <2>4. recent' \in [Sets -> SUBSET (Nat \X Nat)]
    BY <2>2, <2>3 DEF UseOf, CacheInv, ShapeOk
  <2> QED
    BY <1>1, <2>1, <2>4 DEF ShapeOk, GeometryOk, CacheInv
<1>6. CountsOk'
  <2>1. ASSUME NEW r \in Sets, NEW i \in Ways
        PROVE  lines'[r][i].lru_counter <= hit_count' + miss_count'
    <3>1. lines[r][i].lru_counter \in Nat /\ lines[r][i].lru_counter <= hit_count + miss_count
          /\ hit_count \in Nat /\ miss_count \in Nat
      BY DEF CacheInv, ShapeOk, CountsOk, Line
    <3>2. CASE r # s
      BY <1>1, <3>1, <3>2
    <3>3. CASE r = s /\ i # k
      <4>1. lines'[r][i].lru_counter = lines[r][i].lru_counter + 1
        BY <1>1, <3>3 DEF UseOf, JustUsed
      <4> QED
        BY <3>1, <4>1
    <3>4. CASE r = s /\ i = k
      <4>1. lines'[r][i].lru_counter \in {0, 1}
        BY <1>1, <3>4 DEF UseOf, JustUsed
      <4>2. hit_count' + miss_count' \in Nat /\ 1 <= hit_count' + miss_count'
        <5>1. \A h, m \in Nat, n \in Int : n = h + m + 1 => n \in Nat /\ 1 <= n
          OBVIOUS
        <5>2. hit_count' + miss_count' \in Int
          OBVIOUS
        <5>3. hit_count' + miss_count' = hit_count + miss_count + 1
          OBVIOUS
        <5> QED
          BY <3>1, <5>1, <5>2, <5>3
      <4>3. \A c \in {0, 1}, n \in Nat : 1 <= n => c <= n
        OBVIOUS
      <4> QED
        BY <4>1, <4>2, <4>3
    <3> QED
      BY <3>2, <3>3, <3>4
  <2> QED
    BY <1>1, <2>1 DEF CountsOk
<1>7. miss_count' = eviction_count' + Cardinality(Holding')
  <2>1. IsFiniteSet(Holding) /\ Cardinality(Holding) \in Nat
    <3>1. Holding \subseteq Sets \X Ways
      BY DEF Holding
    <3>2. IsFiniteSet(Sets \X Ways)
      BY WaysFinite DEF CacheInv, ShapeOk
    <3> QED
      BY <3>1, <3>2, FS_Subset, FS_CardinalityType
  <2>2. <<s, k>> \in Holding <=> lines[s][k].valid
    BY DEF Holding, Valid
  <2>3. Cardinality(Holding') = IF lines[s][k].valid THEN Cardinality(Holding) ELSE Cardinality(Holding) + 1
    BY <1>1, <2>1, <2>2, FS_AddElement
  <2>4. miss_count = eviction_count + Cardinality(Holding) /\ miss_count \in Nat /\ eviction_count \in Nat
    BY DEF CacheInv, CountsOk
  <2> QED
    BY <2>1, <2>3, <2>4
<1> QED
  BY <1>4, <1>5, <1>6, <1>7 DEF CacheInv

-----------------------------------------------------------------------------
(* An access: what it does to the log, and which tags it lets go.            *)

\* NearlyLru of one step.
LetsGo == \A s \in Sets : \A tag \in Cached(s) \ Cached(s)' :
            \A t, u \in Cached(s) : {<<tag, t>>, <<tag, u>>} \subseteq recent[s] => t = u

\* A use of a free line, or of the line that has the tag, lets nothing go.
LEMMA UseLetsGo ==
  ASSUME CacheInv, NEW s \in Sets, NEW tag, NEW k \in Ways, NEW new \in [Ways -> Line],
         UseOf(s, tag, k, new), UNCHANGED geometry,
         \/ ~lines[s][k].valid \/ lines[s][k].tag = tag
         \/ /\ lines[s][k].valid
            /\ \A j \in Ways : lines[s][j].lru_counter <= lines[s][k].lru_counter
  PROVE  LetsGo
<1>1. /\ Cached(s)' = Others(lines[s], k) \cup {tag}
      /\ \A r \in Sets \ {s} : Cached(r)' = Cached(r)
  BY UseFills DEF CacheInv
<1>2. CASE ~lines[s][k].valid
  <2>1. Cached(s) = Others(lines[s], k)
    BY <1>2, OthersAre DEF CacheInv
  <2> QED
    BY <1>1, <2>1 DEF LetsGo
<1>3. CASE lines[s][k].valid /\ lines[s][k].tag = tag
  <2>1. Others(lines[s], k) = Cached(s) \ {tag}
    BY <1>3, OthersAre DEF CacheInv
  <2> QED
    BY <1>1, <2>1 DEF LetsGo
<1>4. CASE /\ lines[s][k].valid
           /\ \A j \in Ways : lines[s][j].lru_counter <= lines[s][k].lru_counter
  <2> DEFINE old == lines[s][k].tag
  <2>1. Others(lines[s], k) = Cached(s) \ {old}
    BY <1>4, OthersAre DEF CacheInv
  <2> SUFFICES ASSUME NEW t \in Cached(s), NEW u \in Cached(s), t # u,
                      <<old, t>> \in recent[s], <<old, u>> \in recent[s]
               PROVE  FALSE
    BY <1>1, <2>1 DEF LetsGo
  <2>2. PICK i \in Ways : lines[s][i].valid /\ t = lines[s][i].tag
    BY DEF Cached, Valid
  <2>3. PICK j \in Ways : lines[s][j].valid /\ u = lines[s][j].tag
    BY DEF Cached, Valid
  <2>4. UsedAfter(lines[s], recent[s], k, i) /\ UsedAfter(lines[s], recent[s], k, j)
    BY <1>4, <2>2, <2>3 DEF UsedAfter
  <2>5. UsedAfter(lines[s], recent[s], i, j) \/ UsedAfter(lines[s], recent[s], j, i)
    BY <2>2, <2>3 DEF CacheInv, SetsOk, OrderOk
  <2>6. lines[s][j].lru_counter > lines[s][k].lru_counter \/ lines[s][i].lru_counter > lines[s][k].lru_counter
    BY <2>4, <2>5 DEF CacheInv, SetsOk, OrderOk
  <2>7. \A m \in Ways : lines[s][m].lru_counter \in Nat
    BY DEF CacheInv, ShapeOk, Line
  <2> QED
    BY <1>4, <2>6, <2>7
<1>5. lines[s][k].valid \in BOOLEAN
  BY DEF CacheInv, ShapeOk, Line
<1> QED
  BY <1>2, <1>3, <1>4, <1>5

LEMMA AccessKeeps ==
  ASSUME CacheInv, NEW block \in Nat, NEW log \in Nat, Access(block, log)
  PROVE  /\ CacheInv' /\ LetsGo
         /\ access_log' \in Nat /\ access_log' <= log + 14
         /\ TagOf(block) \in Cached(SetOf(block)) => access_log' = log + 4
         /\ (TagOf(block) \in Cached(SetOf(block)))'
<1>0. SetOf(block) \in Sets /\ TagOf(block) \in Nat
  <2>1. S \in Nat /\ S > 0
    BY DEF CacheInv, ShapeOk, GeometryOk, S
  <2>2. block % S \in 0 .. S - 1 /\ block \div S \in Nat
    BY <2>1
  <2> QED
    BY <2>2 DEF Sets, SetOf, TagOf
<1> PICK s \in Sets, tag \in Nat : s = SetOf(block) /\ tag = TagOf(block)
  BY <1>0
<1>1. s \in Sets /\ tag \in Nat /\ UNCHANGED geometry
  BY DEF Access
<1>2. /\ (TagOf(block) \in Cached(SetOf(block)))' <=> tag \in Cached(s)'
      /\ TagOf(block) \in Cached(SetOf(block)) <=> tag \in Cached(s)
  <2>1. SetOf(block)' = s /\ TagOf(block)' = tag
    BY <1>1 DEF SetOf, TagOf, S
  <2>2. (TagOf(block) \in Cached(SetOf(block)))' <=> TagOf(block)' \in (Cached(s))'
    BY <2>1 DEF Cached, Valid
  <2> QED
    BY <2>1, <2>2
<1>3. hit_count \in Nat /\ miss_count \in Nat /\ eviction_count \in Nat /\ ShapeOk /\ SetsOk
  BY DEF CacheInv, CountsOk
<1>4. Hit(s, tag, log) \/ Cold(s, tag, log) \/ Evict(s, tag, log)
  BY DEF Access
<1>5. ASSUME NEW k \in Ways, NEW new \in [Ways -> Line], UseOf(s, tag, k, new)
      PROVE  tag \in Cached(s)'
  <2>1. Cached(s)' = Others(lines[s], k) \cup {tag}
    BY <1>1, <1>3, <1>5, UseFills
  <2> QED
    BY <2>1
<1>6. CASE Stops(lines[s], tag) # {}
  <2> DEFINE k == Least(Stops(lines[s], tag))
             new == Age(Touch(lines[s], tag))
  <2>1. /\ k \in Ways /\ new \in [Ways -> Line]
        /\ JustUsed(lines[s], new, k, tag)
        /\ lines[s][k].valid => lines[s][k].tag = tag
        /\ Others(lines[s], k) = Cached(s) \ {tag}
    BY <1>1, <1>3, <1>6, TouchUses
  <2>2. Hit(s, tag, log) => lines[s][k].valid
    BY DEF Hit
  <2>3. Cold(s, tag, log) => ~lines[s][k].valid
    BY DEF Cold
  <2>4. ~Evict(s, tag, log)
    BY <1>6 DEF Evict
  <2>5. UseOf(s, tag, k, new)
    <3>1. lines' = [lines EXCEPT ![s] = new] /\ recent' = [recent EXCEPT ![s] = Used(@, tag, Cached(s) \ {tag})]
      BY <1>4, <2>4 DEF Hit, Cold
    <3> QED
      BY <2>1, <3>1 DEF UseOf
  <2> HIDE DEF k, new
  <2>6. LetsGo
    BY <1>1, <2>1, <2>5, UseLetsGo
  <2>7. tag \in Cached(s)'
    BY <1>5, <2>1, <2>5
  <2>8. CASE Hit(s, tag, log)
    <3>1. /\ hit_count' = hit_count + 1 /\ miss_count' = miss_count
          /\ eviction_count' = eviction_count /\ access_log' = log + 4
      BY <2>8 DEF Hit, HIT
    <3>2. CacheInv'
      BY <1>1, <1>3, <2>1, <2>2, <2>5, <2>8, <3>1, UseKeepsCache
    <3> QED
      BY <1>2, <2>6, <2>7, <3>1, <3>2
  <2>9. CASE Cold(s, tag, log)
    <3>1. /\ hit_count' = hit_count /\ miss_count' = miss_count + 1
          /\ eviction_count' = eviction_count /\ access_log' = log + 5
      BY <2>9 DEF Cold, MISS
    <3>2. CacheInv'
      BY <1>1, <1>3, <2>1, <2>3, <2>5, <2>9, <3>1, UseKeepsCache
    <3>3. tag \notin Cached(s)
      <4>1. Cached(s) = Cached(s) \ {tag}
        BY <1>3, <1>1, <2>1, <2>3, <2>9, OthersAre
      <4> QED
        BY <4>1
    <3> QED
      BY <1>2, <2>6, <2>7, <3>1, <3>2, <3>3
  <2> QED
    BY <1>4, <2>4, <2>8, <2>9
<1>7. CASE Stops(lines[s], tag) = {}
  <2> DEFINE k == Oldest(lines[s])
             new == [Age(lines[s]) EXCEPT ![k] = Filled(tag)]
  <2>1. /\ k \in Ways /\ new \in [Ways -> Line]
        /\ JustUsed(lines[s], new, k, tag)
        /\ lines[s][k].valid
        /\ \A j \in Ways : lines[s][j].lru_counter <= lines[s][k].lru_counter
        /\ Others(lines[s], k) = Cached(s) \ {lines[s][k].tag}
    BY <1>1, <1>3, <1>7, EvictUses
  <2>2. Evict(s, tag, log)
    BY <1>4, <1>7 DEF Hit, Cold
  <2>3. lines' = [lines EXCEPT ![s] = new]
    <3>1. lines' = [lines EXCEPT ![s] = [Age(lines[s]) EXCEPT ![k] = Filled(tag)]]
      BY <1>1, <1>3, <2>2 DEF Evict, ShapeOk
    <3> QED
      BY <3>1
  <2>4. recent' = [recent EXCEPT ![s] = Used(@, tag, Cached(s) \ {lines[s][k].tag})]
    BY <2>2 DEF Evict
  <2> HIDE DEF k, new
  <2>5. UseOf(s, tag, k, new)
    BY <2>1, <2>3, <2>4 DEF UseOf
  <2>6. LetsGo
    BY <1>1, <2>1, <2>5, UseLetsGo
  <2>7. tag \in Cached(s)'
    BY <1>5, <2>1, <2>5
  <2>8. /\ hit_count' = hit_count /\ miss_count' = miss_count + 1
        /\ eviction_count' = eviction_count + 1 /\ access_log' = log + 14
    BY <2>2 DEF Evict, MISS_EVICTION
  <2>9. CacheInv'
    BY <1>1, <1>3, <2>1, <2>5, <2>8, UseKeepsCache
  <2>10. tag \notin Cached(s)
    BY <1>7 DEF Stops, Cached, Valid
  <2> QED
    BY <1>2, <2>6, <2>7, <2>8, <2>9, <2>10
<1> QED
  BY <1>6, <1>7

-----------------------------------------------------------------------------
(* The loops of the transpose functions stay within A and B, and move every  *)
(* element.                                                                  *)

\* Row a and column b of a matrix with n columns, and the place of this element.
LEMMA PlaceIs ==
  ASSUME NEW m \in Nat, NEW n \in Nat, NEW a \in 0 .. m - 1, NEW b \in 0 .. n - 1
  PROVE  a * n + b \in 0 .. m * n - 1
<1>1. (a + 1) * n <= m * n
  BY TimesMonotonic
<1>2. (a + 1) * n = a * n + n /\ a * n \in Nat /\ m * n \in Nat
  OBVIOUS
<1> QED
  BY <1>1, <1>2

LEMMA PlaceOf ==
  ASSUME NEW m \in Nat, NEW n \in Nat, NEW p \in 0 .. m * n - 1
  PROVE  p % n \in 0 .. n - 1 /\ p \div n \in 0 .. m - 1 /\ (p \div n) * n + (p % n) = p
<1>1. m * n \in Nat /\ p \in Nat /\ p < m * n
  OBVIOUS
<1>2. n > 0
  <2>1. n = 0 => m * n = 0
    OBVIOUS
  <2> QED
    BY <1>1, <2>1
<1>3. p % n \in 0 .. n - 1 /\ p \div n \in Nat /\ n * (p \div n) + (p % n) = p
  BY <1>1, <1>2, Division
<1>4. n * (p \div n) = (p \div n) * n /\ (p \div n) * n \in Nat
  BY <1>3
<1>5. p \div n < m
  <2>1. m <= p \div n => m * n <= (p \div n) * n
    BY <1>3, TimesMonotonic
  <2> QED
    BY <1>1, <1>3, <1>4, <2>1
<1>6. (p \div n) * n + (p % n) = p
  <2> DEFINE q == p \div n
             s == p % n
  <2>1. s \in Nat /\ n * q + s = p /\ n * q = q * n
    BY <1>3, <1>4
  <2> HIDE DEF q, s
  <2>2. q * n + s = p
    BY <2>1
  <2> QED
    BY <2>2 DEF q, s
<1>7. p \div n \in 0 .. m - 1
  BY <1>3, <1>5
<1> QED
  BY <1>3, <1>6, <1>7

SizeOk == size \in Nat \X Nat /\ M \in 1 .. MAXN /\ N \in 1 .. MAXN /\ (M \in {32, 64} => N = M)
InTile(i, j, k, l) == /\ i <= k /\ k < Edge(i, Rows) /\ j <= l /\ l + Burst <= Edge(j, M)
                      /\ Blocked => j % Tile = 0

\* The elements that the rounds before have moved, and what B then holds.
Before(i, j, k, l, r, c) ==
  r < i \/ (r < Edge(i, Rows) /\ (c < j \/ (c < Edge(j, M) /\ (r < k \/ (r = k /\ c < l)))))
Moved(i, j, k, l) ==
  \A r \in 0 .. N - 1, c \in 0 .. M - 1 : Before(i, j, k, l, r, c) => B[c * N + r] = A(r, c)

\* The column of the element that is read first or is written next.
From == IF reading THEN at[4] ELSE at[4] + Burst - Len(v)
LoopOk == at # Ended => /\ at \in Nat \X Nat \X Nat \X Nat /\ InTile(at[1], at[2], at[3], at[4])
                        /\ Moved(at[1], at[2], at[3], From)
BurstOk ==
  /\ v \in Seq(0 .. M * N - 1) /\ Len(v) <= Burst
  /\ IF reading THEN Len(v) < Burst ELSE v # <<>>
  /\ at # Ended => \A n \in 1 .. Len(v) : v[n] = A(at[3], From + n - 1)

\* The functions on any size.
Shape(tile, burst) == Tile = tile /\ Burst = burst
LEMMA Shapes ==
  ASSUME SizeOk, fn \in 0 .. func_counter, fn < func_counter
  PROVE  /\ M \in Nat /\ N \in Nat /\ Rows = N /\ 1 <= N /\ N <= MAXN /\ 1 <= M /\ M <= MAXN
         /\ \/ Blocked /\ M = 32 /\ Shape(8, 8)
            \/ Blocked /\ M = 64 /\ Shape(4, 4)
            \/ ~Blocked /\ Shape(17, 1)
            \/ ~Blocked /\ Shape(MAXN, 1)
<1>1. M \in Nat /\ N \in Nat /\ 1 <= N /\ N <= MAXN /\ 1 <= M /\ M <= MAXN /\ (M \in {32, 64} => N = M)
  BY DEF SizeOk, MAXN
<1>2. Rows = N
  BY <1>1 DEF Rows, Blocked
<1>3. CASE fn = Submission
  BY <1>1, <1>2, <1>3 DEF Shape, Tile, Burst, Blocked
<1>4. CASE fn # Submission
  BY <1>1, <1>2, <1>4 DEF Shape, Tile, Burst, Blocked
<1> QED
  BY <1>3, <1>4

LEMMA RoundNumbers ==
  ASSUME SizeOk, fn \in 0 .. func_counter, fn < func_counter
  PROVE  /\ Tile \in Nat /\ Burst \in Nat /\ Rows \in Nat /\ M \in Nat /\ 1 <= Burst /\ Burst <= Tile
         /\ Rows = N /\ 1 <= M /\ 1 <= Rows
         /\ Blocked => Burst = Tile /\ Tile <= M
         /\ ~Blocked => Burst = 1
         /\ \A j \in Nat : Blocked /\ j % Tile = 0 => /\ (j + Tile) % Tile = 0
                                                      /\ j < M => j + Tile <= M
<1>1. /\ Tile \in Nat /\ Burst \in Nat /\ Rows \in Nat /\ M \in Nat /\ 1 <= Burst /\ Burst <= Tile
      /\ Rows = N /\ 1 <= M /\ 1 <= Rows
      /\ Blocked => Burst = Tile /\ Tile <= M
      /\ ~Blocked => Burst = 1
  BY Shapes DEF Shape, MAXN
<1>2. ASSUME NEW j \in Nat, Blocked, j % Tile = 0
      PROVE  (j + Tile) % Tile = 0 /\ (j < M => j + Tile <= M)
  <2>1. CASE M = 32 /\ Tile = 8
    BY <1>2, <2>1
  <2>2. CASE M = 64 /\ Tile = 4
    BY <1>2, <2>2
  <2> QED
    BY <1>2, <2>1, <2>2, Shapes DEF Shape
<1> QED
  BY <1>1, <1>2

\* The round after one that is whole, and that the rounds miss no element.
LEMMA RoundKeeps ==
  ASSUME SizeOk, fn \in 0 .. func_counter, fn < func_counter,
         NEW i \in Nat, NEW j \in Nat, NEW k \in Nat, NEW l \in Nat, InTile(i, j, k, l),
         NEW next, next = Round(i, j, k, l)
  PROVE  /\ next # Ended =>
              /\ next \in Nat \X Nat \X Nat \X Nat /\ InTile(next[1], next[2], next[3], next[4])
              /\ \A r \in 0 .. N - 1, c \in 0 .. M - 1 :
                   Before(next[1], next[2], next[3], next[4], r, c) => Before(i, j, k, l + Burst, r, c)
         /\ next = Ended =>
              \A r \in 0 .. N - 1, c \in 0 .. M - 1 : Before(i, j, k, l + Burst, r, c)
<1> DEFINE Follows(a, b, d, e) ==
             /\ InTile(a, b, d, e)
             /\ \A r \in 0 .. N - 1, c \in 0 .. M - 1 :
                  Before(a, b, d, e, r, c) => Before(i, j, k, l + Burst, r, c)
<1>1. /\ Tile \in Nat /\ Burst \in Nat /\ Rows \in Nat /\ M \in Nat /\ 1 <= Burst /\ Burst <= Tile
      /\ Rows = N /\ 1 <= M /\ 1 <= Rows /\ (~Blocked => Burst = 1) /\ (Blocked => Burst = Tile /\ Tile <= M)
  BY RoundNumbers
<1>2. i <= k /\ k < Edge(i, Rows) /\ j <= l /\ l + Burst <= Edge(j, M) /\ (Blocked => j % Tile = 0)
  BY DEF InTile
<1>3. ASSUME NEW first \in Nat, NEW bound \in Nat
      PROVE  /\ Edge(first, bound) \in Nat /\ Edge(first, bound) <= bound
             /\ Edge(first, bound) <= first + Tile
             /\ first + Tile <= bound => Edge(first, bound) = first + Tile
             /\ first + Tile >= bound => Edge(first, bound) = bound
  BY <1>1 DEF Edge
<1>4. Edge(i, Rows) \in Nat /\ Edge(j, M) \in Nat /\ Edge(i, Rows) <= Rows /\ Edge(j, M) <= M
  BY <1>1, <1>3
<1>5. \A a, b, d, e \in Nat : Follows(a, b, d, e) /\ next = <<a, b, d, e>> =>
        /\ next \in Nat \X Nat \X Nat \X Nat /\ next # Ended /\ InTile(next[1], next[2], next[3], next[4])
        /\ \A r \in 0 .. N - 1, c \in 0 .. M - 1 :
             Before(next[1], next[2], next[3], next[4], r, c) => Before(i, j, k, l + Burst, r, c)
  BY DEF Ended
<1>6. CASE l + Burst < Edge(j, M)
  <2>1. next = <<i, j, k, l + Burst>> /\ l + Burst \in Nat
    BY <1>1, <1>4, <1>6 DEF Round
  <2>2. ~Blocked
    BY <1>1, <1>2, <1>3, <1>6
  <2>3. InTile(i, j, k, l + Burst)
    BY <1>1, <1>2, <1>4, <1>6, <2>2 DEF InTile
  <2>4. Follows(i, j, k, l + Burst)
    BY <2>3
  <2> HIDE DEF Follows
  <2> QED
    BY <1>5, <2>1, <2>4
<1>7. CASE l + Burst >= Edge(j, M) /\ k + 1 < Edge(i, Rows)
  <2>1. next = <<i, j, k + 1, j>> /\ k + 1 \in Nat
    BY <1>1, <1>7, <1>4 DEF Round
  <2>2. InTile(i, j, k + 1, j)
    BY <1>1, <1>2, <1>4, <1>7 DEF InTile
  <2>3. ASSUME NEW r \in 0 .. N - 1, NEW c \in 0 .. M - 1, Before(i, j, k + 1, j, r, c)
        PROVE  Before(i, j, k, l + Burst, r, c)
    BY <1>1, <1>2, <1>4, <1>7, <2>3 DEF Before
  <2>4. Follows(i, j, k + 1, j)
    BY <2>2, <2>3
  <2> HIDE DEF Follows
  <2> QED
    BY <1>5, <2>1, <2>4
<1>8. CASE l + Burst >= Edge(j, M) /\ k + 1 >= Edge(i, Rows) /\ j + Tile < M
  <2>1. next = <<i, j + Tile, i, j + Tile>> /\ j + Tile \in Nat
    BY <1>1, <1>8, <1>4 DEF Round
  <2>2. Edge(j, M) = j + Tile /\ Edge(j + Tile, M) \in Nat /\ i < Edge(i, Rows)
    BY <1>1, <1>2, <1>3, <1>4, <1>8, <2>1
  <2>3. Blocked => (j + Tile) % Tile = 0 /\ j + Tile + Tile <= M
    BY <1>2, <1>8, <2>1, RoundNumbers
  <2>4. j + Tile + Burst <= Edge(j + Tile, M)
    BY <1>1, <1>8, <2>1, <2>3 DEF Edge
  <2>5. InTile(i, j + Tile, i, j + Tile)
    BY <1>1, <2>1, <2>2, <2>3, <2>4 DEF InTile
  <2>6. ASSUME NEW r \in 0 .. N - 1, NEW c \in 0 .. M - 1, Before(i, j + Tile, i, j + Tile, r, c)
        PROVE  Before(i, j, k, l + Burst, r, c)
    BY <1>1, <1>2, <1>4, <1>8, <2>2, <2>6 DEF Before
  <2>7. Follows(i, j + Tile, i, j + Tile)
    BY <2>5, <2>6
  <2> HIDE DEF Follows
  <2> QED
    BY <1>5, <2>1, <2>7
<1>9. CASE /\ l + Burst >= Edge(j, M) /\ k + 1 >= Edge(i, Rows) /\ j + Tile >= M
           /\ i + Tile < Rows
  <2>1. next = <<i + Tile, 0, i + Tile, 0>> /\ i + Tile \in Nat
    BY <1>1, <1>9, <1>4 DEF Round
  <2>2. Edge(j, M) = M /\ Edge(i, Rows) = i + Tile /\ Edge(i + Tile, Rows) \in Nat /\ Edge(0, M) \in Nat
    BY <1>1, <1>3, <1>9, <2>1
  <2>3. Blocked => 0 % Tile = 0 /\ 0 + Tile <= M
    <3>1. 0 % Tile = 0
      BY <1>1
    <3> QED
      BY <1>1, <3>1
  <2>4. 0 + Burst <= Edge(0, M) /\ i + Tile < Edge(i + Tile, Rows)
    BY <1>1, <1>9, <2>1, <2>3 DEF Edge
  <2>5. InTile(i + Tile, 0, i + Tile, 0)
    BY <1>1, <2>1, <2>2, <2>3, <2>4 DEF InTile
  <2>6. ASSUME NEW r \in 0 .. N - 1, NEW c \in 0 .. M - 1, Before(i + Tile, 0, i + Tile, 0, r, c)
        PROVE  Before(i, j, k, l + Burst, r, c)
    BY <1>1, <1>2, <1>4, <1>9, <2>2, <2>6 DEF Before
  <2>7. Follows(i + Tile, 0, i + Tile, 0)
    BY <2>5, <2>6
  <2> HIDE DEF Follows
  <2> QED
    BY <1>5, <2>1, <2>7
<1>10. CASE /\ l + Burst >= Edge(j, M) /\ k + 1 >= Edge(i, Rows) /\ j + Tile >= M
            /\ i + Tile >= Rows
  <2>1. next = Ended
    BY <1>1, <1>4, <1>10 DEF Round
  <2>2. Edge(j, M) = M /\ Edge(i, Rows) = Rows
    BY <1>1, <1>3, <1>10
  <2>3. ASSUME NEW r \in 0 .. N - 1, NEW c \in 0 .. M - 1
        PROVE  Before(i, j, k, l + Burst, r, c)
    BY <1>1, <1>2, <1>4, <1>10, <2>2, <2>3 DEF Before
  <2> QED
    BY <2>1, <2>3
<1> QED
  BY <1>1, <1>4, <1>6, <1>7, <1>8, <1>9, <1>10

\* Row k and column l of A, and the element of B that it goes to.
LEMMA InsideArrays ==
  ASSUME SizeOk, fn \in 0 .. func_counter, fn < func_counter,
         NEW k \in Nat, NEW l \in Nat, k < Rows, l < M
  PROVE  /\ A(k, l) \in 0 .. M * N - 1 /\ BlockOfA(k, l) \in Nat
         /\ l * N + k \in 0 .. M * N - 1 /\ BlockOfB(l, k) \in Nat
<1>1. M \in Nat /\ N \in Nat /\ Rows = N /\ M * N = N * M /\ M * N \in Int
  BY Shapes
<1>2. A(k, l) \in 0 .. M * N - 1 /\ l * N + k \in 0 .. M * N - 1
  BY <1>1, PlaceIs DEF A
<1>3. \A n \in Nat : n \div 8 \in Nat
  OBVIOUS
<1>4. 65536 \div 8 \in Nat
  OBVIOUS
<1>5. A(k, l) \in Nat /\ l * N + k \in Nat
  BY <1>1, <1>2
<1>6. BlockOfA(k, l) \in Nat /\ BlockOfB(l, k) \in Nat
  BY <1>3, <1>4, <1>5 DEF BlockOfA, BlockOfB, BASE, ELEMENTS
<1> QED
  BY <1>2, <1>6

LEMMA InTileInside ==
  ASSUME SizeOk, fn \in 0 .. func_counter, fn < func_counter,
         NEW i \in Nat, NEW j \in Nat, NEW k \in Nat, NEW l \in Nat, InTile(i, j, k, l)
  PROVE  k < Rows /\ l + Burst <= M
  BY RoundNumbers DEF InTile, Edge

\* Two elements of B are in two places.
LEMMA OwnPlace ==
  ASSUME SizeOk, NEW r \in 0 .. N - 1, NEW c \in 0 .. M - 1, NEW k \in 0 .. N - 1, NEW l \in 0 .. M - 1,
         c * N + r = l * N + k
  PROVE  r = k /\ c = l
<1>1. M \in Nat /\ N \in Nat
  BY DEF SizeOk, MAXN
<1>2. c \in Nat /\ l \in Nat /\ r \in Nat /\ k \in Nat /\ r < N /\ k < N
  BY <1>1
<1>3. N * c + r = N * l + k
  BY <1>1, <1>2
<1> QED
  BY <1>1, <1>2, <1>3, SameQuotient

\* An element that is in its place in B is where correctTrans() puts it.
LEMMA AllMoved ==
  ASSUME SizeOk, NEW b \in [0 .. M * N - 1 -> -1 .. M * N - 1],
         \A r \in 0 .. N - 1, c \in 0 .. M - 1 : b[c * N + r] = A(r, c)
  PROVE  b = Transposed
<1>1. M \in Nat /\ N \in Nat
  BY DEF SizeOk, MAXN
<1>2. ASSUME NEW p \in 0 .. M * N - 1 PROVE b[p] = A(p % N, p \div N)
  <2>1. p % N \in 0 .. N - 1 /\ p \div N \in 0 .. M - 1 /\ (p \div N) * N + (p % N) = p
    BY <1>1, PlaceOf
  <2>2. b[(p \div N) * N + (p % N)] = A(p % N, p \div N)
    <3> DEFINE r == p % N
               c == p \div N
    <3>1. r \in 0 .. N - 1 /\ c \in 0 .. M - 1
      BY <2>1
    <3> HIDE DEF r, c
    <3>2. b[c * N + r] = A(r, c)
      BY <3>1
    <3> QED
      BY <3>2 DEF r, c
  <2> QED
    BY <2>1, <2>2
<1> QED
  BY <1>2 DEF Transposed

LEMMA StartOk ==
  ASSUME SizeOk, fn \in 0 .. func_counter, fn < func_counter,
         at = <<0, 0, 0, 0>>, v = <<>>, reading = TRUE
  PROVE  LoopOk /\ BurstOk
<1>1. /\ Tile \in Nat /\ Burst \in Nat /\ Rows \in Nat /\ M \in Nat /\ 1 <= Burst /\ Burst <= Tile
      /\ Rows = N /\ 1 <= M /\ 1 <= Rows /\ (~Blocked => Burst = 1) /\ (Blocked => Burst = Tile /\ Tile <= M)
  BY RoundNumbers
<1>2. 0 % Tile = 0
  BY <1>1
<1>4. InTile(0, 0, 0, 0)
  BY <1>1, <1>2 DEF InTile, Edge
<1>5. Moved(0, 0, 0, 0)
  <2>1. \A r \in 0 .. N - 1, c \in 0 .. M - 1 : ~Before(0, 0, 0, 0, r, c)
    BY <1>1 DEF Before
  <2> QED
    BY <2>1 DEF Moved
<1>6. v \in Seq(0 .. M * N - 1) /\ Len(v) = 0
  OBVIOUS
<1>7. at \in Nat \X Nat \X Nat \X Nat /\ From = 0
  BY DEF From
<1>8. LoopOk
  BY <1>4, <1>5, <1>7 DEF LoopOk
<1>9. BurstOk
  BY <1>1, <1>6 DEF BurstOk
<1> QED
  BY <1>8, <1>9

\* The same of the next function.
LEMMA StartsOk ==
  /\ (SizeOk /\ fn \in 0 .. func_counter /\ fn < func_counter)'
  /\ (at = <<0, 0, 0, 0>> /\ v = <<>> /\ reading = TRUE)'
  => (LoopOk /\ BurstOk)'
<1>1. /\ SizeOk /\ fn \in 0 .. func_counter /\ fn < func_counter
      /\ at = <<0, 0, 0, 0>> /\ v = <<>> /\ reading = TRUE
      => LoopOk /\ BurstOk
  BY StartOk
<1> QED
  BY <1>1, PTL

-----------------------------------------------------------------------------
(* The inductive invariant of the labs.                                      *)

LogOk ==
  /\ access_log \in 0 .. 18 /\ again \subseteq Blocks /\ Cardinality(again) <= 1
  /\ \A block \in again : access_log <= 14 /\ TagOf(block) \in Cached(SetOf(block))
VarsOk == fn \in 0 .. func_counter /\ at \in Seq(Nat) /\ v \in Seq(Nat) /\ reading \in BOOLEAN
TransOk == program = "trans" =>
  /\ again = {} /\ geometry = TransGeometry /\ SizeOk
  /\ B \in [0 .. M * N - 1 -> -1 .. M * N - 1] /\ Transposes
  /\ fn < func_counter => LoopOk /\ BurstOk
WordsOk == x \subseteq Bit /\ y \subseteq Bit /\ z \subseteq Bit
LInv == /\ program \in Programs /\ CacheInv /\ LogOk
        /\ VarsOk /\ TransOk /\ WordsOk /\ TimingOk

-----------------------------------------------------------------------------
(* It holds at first.                                                        *)

LEMMA EmptyLinesOk ==
  ASSUME GeometryOk
  PROVE  /\ EmptyLines \in [Sets -> [Ways -> Line]]
         /\ NoUse \in [Sets -> SUBSET (Nat \X Nat)]
         /\ \A s \in Sets : /\ LinesOk(EmptyLines[s]) /\ OrderOk(EmptyLines[s], NoUse[s])
                            /\ \A i \in Ways : /\ ~EmptyLines[s][i].valid
                                               /\ EmptyLines[s][i].lru_counter = 0
<1>1. EmptyLines \in [Sets -> [Ways -> Line]] /\ NoUse \in [Sets -> SUBSET (Nat \X Nat)]
  BY DEF EmptyLines, NoUse, Line
<1>2. ASSUME NEW s \in Sets, NEW i \in Ways
      PROVE  ~EmptyLines[s][i].valid /\ EmptyLines[s][i].lru_counter = 0
  BY DEF EmptyLines
<1>3. ASSUME NEW s \in Sets PROVE LinesOk(EmptyLines[s]) /\ OrderOk(EmptyLines[s], NoUse[s])
  <2>1. NoUse[s] = {}
    BY DEF NoUse
  <2> QED
    BY <1>2, <2>1 DEF LinesOk, OrderOk, UsedAfter
<1> QED
  BY <1>1, <1>2, <1>3

LEMMA EmptyCacheOk ==
  ASSUME GeometryOk, EmptyCache
  PROVE  CacheInv /\ LogOk
<1>1. ShapeOk /\ SetsOk
  BY EmptyLinesOk DEF EmptyCache, ShapeOk, SetsOk
<1>2. CountsOk
  BY EmptyLinesOk DEF EmptyCache, CountsOk
<1>3. Holding = {}
  BY EmptyLinesOk DEF EmptyCache, Holding, Valid
<1>4. Cardinality({}) = 0
  BY FS_EmptySet
<1> QED
  BY <1>1, <1>2, <1>3, <1>4 DEF EmptyCache, CacheInv, LogOk

\* The cache of the next transpose function.
LEMMA EmptiedCacheOk ==
  ASSUME GeometryOk, UNCHANGED geometry, lines' = EmptyLines, recent' = NoUse,
         hit_count' = 0, miss_count' = 0, eviction_count' = 0
  PROVE  CacheInv'
<1>1. Sets' = Sets /\ Ways' = Ways /\ GeometryOk'
  BY DEF Sets, Ways, S, E, GeometryOk
<1>2. ShapeOk'
  BY <1>1, EmptyLinesOk DEF ShapeOk
<1>3. SetsOk'
  <2>1. ASSUME NEW s \in Sets PROVE (LinesOk(lines[s]))' /\ (OrderOk(lines[s], recent[s]))'
    <3>1. LinesOk(lines'[s]) /\ OrderOk(lines'[s], recent'[s])
      BY EmptyLinesOk
    <3> QED
      BY <1>1, <3>1 DEF LinesOk, OrderOk, UsedAfter
  <2> QED
    BY <1>1, <2>1 DEF SetsOk
<1>4. CountsOk'
  BY <1>1, EmptyLinesOk DEF CountsOk
<1>5. Holding' = {}
  <2>1. \A s \in Sets, i \in Ways : ~lines'[s][i].valid
    BY EmptyLinesOk
  <2> QED
    BY <1>1, <2>1 DEF Holding, Valid
<1>6. Cardinality({}) = 0
  BY FS_EmptySet
<1> QED
  BY <1>2, <1>3, <1>4, <1>5, <1>6 DEF CacheInv

LEMMA LInvInit == Init => LInv
<1> SUFFICES ASSUME Init PROVE LInv
  OBVIOUS
<1>1. program \in Programs
  BY DEF Init, Programs
<1>2. CacheInv /\ LogOk
  <2>1. GeometryOk /\ EmptyCache
    BY DEF Init, CsimInit, TransInit, TransGeometry, NoCsim, GeometryOk
  <2> QED
    BY <2>1, EmptyCacheOk
<1>3. VarsOk
  <2>1. fn = 0 /\ at = <<0, 0, 0, 0>> /\ v = <<>> /\ reading = TRUE
    BY DEF Init, NoTrans, TransInit, Start
  <2> QED
    BY <2>1 DEF VarsOk, func_counter
<1>4. TransOk
  <2> SUFFICES ASSUME program = "trans" PROVE TransOk
    BY DEF TransOk
  <2>1. TransInit
    BY DEF Init
  <2>0. SizeOk
    <3>1. size \in Nat \X Nat /\ (size[1] \in {32, 64} => size[2] = size[1])
      BY <2>1, TransAssumption DEF TransAssumption, TransInit, Sizes
    <3>2. size[1] # 0 /\ size[2] # 0 /\ size[1] <= 256 /\ size[2] <= 256
      BY <2>1 DEF TransInit, ArgsOk, M, N, MAXN
    <3> QED
      BY <3>1, <3>2 DEF SizeOk, M, N, MAXN
  <2>5. at = <<0, 0, 0, 0>> /\ v = <<>> /\ reading = TRUE /\ fn = 0
    BY <2>1 DEF TransInit, Start
  <2>2. LoopOk /\ BurstOk /\ Transposes
    BY <2>0, <2>5, StartOk DEF func_counter, Transposes, Ended
  <2>3. \A p \in 0 .. M * N - 1 : Unset \in -1 .. M * N - 1
    <3>1. M * N \in Nat
      BY <2>0, <2>5, Shapes DEF func_counter
    <3> QED
      BY <3>1 DEF Unset
  <2>4. B \in [0 .. M * N - 1 -> -1 .. M * N - 1]
    BY <2>1, <2>3 DEF TransInit
  <2> QED
    BY <2>0, <2>1, <2>2, <2>4 DEF TransOk, TransInit, EmptyCache
<1>5. WordsOk
  <2>1. CASE NoBits
    BY <2>1 DEF NoBits, WordsOk
  <2>2. CASE BitsInit
    BY <2>2 DEF BitsInit, WordsOk, Words, Xor
  <2> QED
    BY <2>1, <2>2 DEF Init
<1>6. TimingOk
  <2>1. CASE NoTiming
    <3>1. ListOk
      BY <2>1, NoSamples DEF NoTiming
    <3>2. <<0, 0>> \in Counter
      BY TimingAssumption DEF TimingAssumption, Counter
    <3> QED
      BY <2>1, <3>1, <3>2 DEF NoTiming, TimingOk, ClockOk, FcycOk
  <2>2. CASE TimingInit
    BY <2>2, TimingStarts
  <2> QED
    BY <2>1, <2>2 DEF Init
<1> QED
  BY <1>1, <1>2, <1>3, <1>4, <1>5, <1>6 DEF LInv

-----------------------------------------------------------------------------
(* The steps of the cache simulator.                                         *)

CacheStep == CacheInv' /\ LogOk' /\ LetsGo

LEMMA ReplayKeeps ==
  ASSUME CacheInv, LogOk, NEW block \in Blocks, NEW twice \in BOOLEAN, Replay(block, twice)
  PROVE  CacheStep
<1>1. Access(block, 0) /\ again' = IF twice THEN {block} ELSE {}
  BY DEF Replay
<1>2. /\ CacheInv' /\ LetsGo
      /\ access_log' \in Nat /\ access_log' <= 14
      /\ (TagOf(block) \in Cached(SetOf(block)))'
  <2>1. block \in Nat /\ 0 \in Nat
    OBVIOUS
  <2> QED
    BY <1>1, <2>1, AccessKeeps
<1>3. Cardinality({block}) = 1 /\ Cardinality({}) = 0
  BY FS_Singleton, FS_EmptySet
<1>4. again' \subseteq Blocks /\ Cardinality(again') <= 1 /\ again' \subseteq {block}
  BY <1>1, <1>3
<1>5. LogOk'
  BY <1>2, <1>4 DEF LogOk
<1> QED
  BY <1>2, <1>5 DEF CacheStep

\* The second access of a modification finds its block in the cache, so that the log of the two
\* fits.
LEMMA AgainKeeps ==
  ASSUME CacheInv, LogOk, Again
  PROVE  CacheStep
<1>1. PICK block \in again : Access(block, access_log)
  BY DEF Again
<1>2. /\ block \in Nat /\ access_log \in Nat /\ access_log <= 14
      /\ TagOf(block) \in Cached(SetOf(block))
  BY DEF LogOk
<1>3. CacheInv' /\ LetsGo /\ access_log' \in Nat /\ access_log' = access_log + 4
  BY <1>1, <1>2, AccessKeeps
<1>4. again' = {} /\ Cardinality({}) = 0
  BY FS_EmptySet DEF Again
<1>5. LogOk'
  BY <1>2, <1>3, <1>4 DEF LogOk
<1> QED
  BY <1>3, <1>5 DEF CacheStep

-----------------------------------------------------------------------------
(* The steps of the transpose functions.                                     *)

\* An access that leaves the log with nothing to come.
LEMMA SingleAccess ==
  ASSUME CacheInv, again = {}, UNCHANGED again, NEW block \in Nat, Access(block, 0)
  PROVE  CacheStep /\ UNCHANGED geometry
<1>1. CacheInv' /\ LetsGo /\ access_log' \in Nat /\ access_log' <= 14
  BY AccessKeeps
<1>2. Cardinality({}) = 0
  BY FS_EmptySet
<1>3. LogOk'
  BY <1>1, <1>2 DEF LogOk
<1> QED
  BY <1>1, <1>3 DEF CacheStep, Access

TransStep == CacheStep /\ VarsOk' /\ TransOk'

LEMMA FourTuple ==
  ASSUME NEW t \in Nat \X Nat \X Nat \X Nat
  PROVE  t \in Seq(Nat)
<1>1. t = <<t[1], t[2], t[3], t[4]>> /\ t[1] \in Nat /\ t[2] \in Nat /\ t[3] \in Nat /\ t[4] \in Nat
  OBVIOUS
<1>2. \A a, b, c, d \in Nat : <<a, b, c, d>> \in Seq(Nat)
  OBVIOUS
<1>3. <<t[1], t[2], t[3], t[4]>> \in Seq(Nat)
  BY <1>1, <1>2
<1> QED
  BY <1>1, <1>3, Zenon

LEMMA ReadKeeps ==
  ASSUME LInv, program = "trans", fn < func_counter, UNCHANGED program, ReadElement
  PROVE  TransStep
<1>1. /\ again = {} /\ SizeOk /\ fn \in 0 .. func_counter
      /\ geometry = TransGeometry /\ B \in [0 .. M * N - 1 -> -1 .. M * N - 1]
      /\ at # Ended /\ reading /\ LoopOk /\ BurstOk /\ CacheInv /\ VarsOk
  <2>1. TransOk /\ CacheInv /\ VarsOk
    BY DEF LInv
  <2>2. at # Ended /\ reading
    BY DEF ReadElement
  <2>3. LoopOk /\ BurstOk
    BY <2>1 DEF TransOk
  <2> QED
    BY <2>1, <2>2, <2>3 DEF TransOk, VarsOk
<1> DEFINE k == at[3]
           l == at[4] + Len(v)
<1>2. v' = Append(v, A(k, l)) /\ Access(BlockOfA(k, l), 0)
  BY DEF ReadElement
<1>3. v \in Seq(0 .. M * N - 1) /\ Len(v) \in Nat /\ Len(v) < Burst
  BY <1>1 DEF BurstOk
<1>4. k \in Nat /\ l \in Nat /\ k < Rows /\ l < M
  <2>1. at[3] \in Nat /\ at[4] \in Nat /\ at[3] < Rows /\ at[4] + Burst <= M
    BY <1>1, InTileInside DEF LoopOk
  <2>2. Burst \in Nat /\ M \in Nat
    BY <1>1, RoundNumbers
  <2> QED
    BY <1>3, <2>1, <2>2
<1> HIDE DEF k, l
<1>5. A(k, l) \in 0 .. M * N - 1 /\ BlockOfA(k, l) \in Nat
  BY <1>1, <1>4, InsideArrays
<1>6. CacheStep /\ UNCHANGED geometry
  BY <1>1, <1>2, <1>5, SingleAccess DEF ReadElement
<1>7. UNCHANGED <<size, fn, at, B, num_misses, results, again>> /\ reading' = (Len(v') < Burst)
  BY DEF ReadElement
<1>8. v' \in Seq(0 .. M * N - 1) /\ Len(v') = Len(v) + 1 /\ v' # <<>>
  <2>1. v' \in Seq(0 .. M * N - 1) /\ Len(v') = Len(v) + 1
    BY <1>2, <1>3, <1>5
  <2> QED
    BY <1>3, <2>1
<1>9. v' \in Seq(Nat)
  <2>1. A(k, l) \in Nat /\ v \in Seq(Nat)
    BY <1>1, <1>5 DEF VarsOk
  <2> QED
    BY <1>2, <2>1
<1>10. VarsOk'
  BY <1>1, <1>7, <1>9 DEF VarsOk
<1>11. M' = M /\ N' = N /\ Burst' = Burst
  BY <1>7 DEF M, N, Burst, Tile, Blocked
<1>14. Burst \in Nat /\ at[4] \in Nat /\ at[4] \in Int /\ M \in Nat /\ N \in Nat
  BY <1>1, RoundNumbers, Shapes DEF LoopOk
<1>15. From = at[4] /\ From' = at[4]
  <2>1. From = at[4]
    BY <1>1 DEF From
  <2>4. at' = at
    BY <1>7
  <2>2. CASE reading'
    <3>1. From' = at'[4]
      BY <2>2 DEF From
    <3> QED
      BY <2>1, <2>4, <3>1
  <2>3. CASE ~reading'
    <3>3. ~(Len(v') < Burst)
      BY <1>7, <2>3
    <3>1. Len(v') = Burst
      BY <1>3, <1>8, <1>14, <3>3
    <3>2. From' = at[4] + Burst - Burst
      BY <1>7, <1>11, <2>3, <3>1 DEF From
    <3> QED
      BY <1>14, <2>1, <3>2
  <2> QED
    BY <2>1, <2>2, <2>3
<1>16. LoopOk'
  BY <1>1, <1>7, <1>15 DEF LoopOk, InTile, Moved, Before, Edge, M, N, Burst, Tile, Blocked, Rows, A
<1>17. \A n \in 1 .. Len(v') : v'[n] = (A(at[3], From + n - 1))'
  <2>1. ASSUME NEW n \in 1 .. Len(v') PROVE v'[n] = A(at[3], at[4] + n - 1)
    <3>1. CASE n <= Len(v)
      <4>1. n \in 1 .. Len(v) /\ v'[n] = v[n]
        BY <1>2, <1>3, <1>5, <1>8, <3>1
      <4> QED
        BY <1>1, <1>15, <4>1 DEF BurstOk
    <3>2. CASE n > Len(v)
      <4>1. n = Len(v) + 1 /\ at[4] + n - 1 = at[4] + Len(v)
        BY <1>3, <1>8, <1>14, <3>2
      <4>2. v'[Len(v) + 1] = A(k, l)
        BY <1>2, <1>3, <1>5
      <4> QED
        BY <4>1, <4>2 DEF k, l
    <3> QED
      BY <1>3, <1>8, <3>1, <3>2
  <2> QED
    BY <1>7, <1>11, <1>15, <2>1 DEF A
<1>12. BurstOk'
  <2>1. Burst \in Nat
    BY <1>14
  <2>2. Len(v') <= Burst /\ (reading' => Len(v') < Burst)
    <3>1. Len(v') <= Burst
      BY <1>3, <1>8, <2>1
    <3>2. reading' => Len(v') < Burst
      BY <1>7
    <3> QED
      BY <3>1, <3>2
  <2> QED
    BY <1>1, <1>8, <1>11, <1>17, <2>2 DEF BurstOk
<1>13. TransOk'
  <2>1. SizeOk' /\ Transposes'
    BY <1>1, <1>7 DEF SizeOk, Transposes, M, N
  <2> QED
    BY <1>1, <1>6, <1>7, <1>11, <1>12, <1>16, <2>1 DEF TransOk, TransGeometry
<1> QED
  BY <1>6, <1>10, <1>13 DEF TransStep

LEMMA WriteKeeps ==
  ASSUME LInv, program = "trans", fn < func_counter, UNCHANGED program, WriteElement
  PROVE  TransStep
<1>1. /\ again = {} /\ SizeOk /\ fn \in 0 .. func_counter
      /\ geometry = TransGeometry /\ B \in [0 .. M * N - 1 -> -1 .. M * N - 1]
      /\ at # Ended /\ ~reading /\ LoopOk /\ BurstOk /\ CacheInv /\ VarsOk
  <2>1. TransOk /\ CacheInv /\ VarsOk
    BY DEF LInv
  <2>2. at # Ended /\ ~reading
    BY DEF WriteElement
  <2>3. LoopOk /\ BurstOk
    BY <2>1 DEF TransOk
  <2> QED
    BY <2>1, <2>2, <2>3 DEF TransOk, VarsOk
<1> DEFINE k == at[3]
           l == at[4] + Burst - Len(v)
<1>2. B' = [B EXCEPT ![l * N + k] = Head(v)] /\ Access(BlockOfB(l, k), 0)
  BY DEF WriteElement, Target
<1>3. v \in Seq(0 .. M * N - 1) /\ v # <<>> /\ Len(v) \in Nat /\ Len(v) >= 1 /\ Len(v) <= Burst
  BY <1>1 DEF BurstOk
<1>4. k \in Nat /\ l \in Nat /\ k < Rows /\ l < M
  <2>1. at[3] \in Nat /\ at[4] \in Nat /\ at[3] < Rows /\ at[4] + Burst <= M
    BY <1>1, InTileInside DEF LoopOk
  <2>2. Burst \in Nat /\ M \in Nat
    BY <1>1, RoundNumbers
  <2> QED
    BY <1>3, <2>1, <2>2
<1> HIDE DEF k, l
<1>5. l * N + k \in 0 .. M * N - 1 /\ BlockOfB(l, k) \in Nat
  BY <1>1, <1>4, InsideArrays
<1>6. CacheStep /\ UNCHANGED geometry
  BY <1>1, <1>2, <1>5, SingleAccess DEF WriteElement
<1>7. /\ UNCHANGED <<size, fn, num_misses, results, again>>
      /\ v' = Tail(v) /\ reading' = (v' = <<>>)
      /\ at' = IF v' = <<>> THEN Round(at[1], at[2], at[3], at[4]) ELSE at
  BY DEF WriteElement
<1>8. v' \in Seq(0 .. M * N - 1) /\ Len(v') = Len(v) - 1 /\ Head(v) \in 0 .. M * N - 1
  BY <1>3, <1>7, HeadTailProperties
<1>9. v' \in Seq(Nat)
  BY <1>1, <1>3, <1>7 DEF VarsOk
<1>10. /\ M' = M /\ N' = N /\ Burst' = Burst /\ Rows' = Rows /\ Tile' = Tile /\ Blocked' = Blocked
  BY <1>7 DEF M, N, Burst, Tile, Blocked, Rows
<1>11. /\ at \in Nat \X Nat \X Nat \X Nat /\ InTile(at[1], at[2], at[3], at[4])
       /\ Moved(at[1], at[2], at[3], From)
       /\ \A n \in 1 .. Len(v) : v[n] = A(at[3], From + n - 1)
  BY <1>1 DEF LoopOk, BurstOk
<1>18. /\ Burst \in Nat /\ 1 <= Burst /\ M \in Nat /\ N \in Nat /\ Rows = N /\ Rows \in Nat
       /\ \A n \in 1 .. 4 : at[n] \in Nat
  BY <1>1, <1>11, RoundNumbers, Shapes
<1>19. From = l
  BY <1>1 DEF From, l
<1>20. Head(v) = A(k, l)
  <2>1. 1 \in 1 .. Len(v) /\ Head(v) = v[1]
    BY <1>3
  <2>2. v[1] = A(at[3], From + 1 - 1)
    BY <1>11, <2>1
  <2>3. From + 1 - 1 = l
    BY <1>4, <1>19
  <2> QED
    BY <2>1, <2>2, <2>3 DEF k
<1>21. k \in 0 .. N - 1 /\ l \in 0 .. M - 1
  BY <1>4, <1>18
<1>22. ASSUME NEW r \in 0 .. N - 1, NEW c \in 0 .. M - 1,
              Before(at[1], at[2], at[3], l + 1, r, c)
       PROVE  B'[c * N + r] = A(r, c)
  <2>1. c * N + r \in 0 .. M * N - 1
    BY <1>18, PlaceIs
  <2>2. CASE r = k /\ c = l
    BY <1>1, <1>2, <1>5, <1>20, <2>2
  <2>3. CASE ~(r = k /\ c = l)
    <3>1. c * N + r # l * N + k
      BY <1>1, <1>21, <2>3, OwnPlace
    <3>2. B'[c * N + r] = B[c * N + r]
      BY <1>1, <1>2, <2>1, <3>1
    <3>3. Before(at[1], at[2], at[3], l, r, c)
      BY <1>4, <1>18, <1>22, <2>3 DEF Before, k
    <3>4. Moved(at[1], at[2], at[3], l)
      BY <1>11, <1>19
    <3> QED
      BY <3>2, <3>3, <3>4 DEF Moved
  <2> QED
    BY <2>2, <2>3
<1>23. (\A n \in 1 .. Len(v') : v'[n] = A(at[3], l + 1 + n - 1)) /\ l + 1 = at[4] + Burst - Len(v')
  <2>1. ASSUME NEW n \in 1 .. Len(v') PROVE v'[n] = A(at[3], l + 1 + n - 1)
    <3>1. v'[n] = v[n + 1] /\ n + 1 \in 1 .. Len(v)
      BY <1>3, <1>7, <1>8, HeadTailProperties
    <3>2. v[n + 1] = A(at[3], From + (n + 1) - 1)
      BY <1>11, <3>1
    <3>3. From + (n + 1) - 1 = l + 1 + n - 1
      BY <1>4, <1>19
    <3> QED
      BY <3>1, <3>2, <3>3
  <2>2. l + 1 = at[4] + Burst - Len(v')
    BY <1>3, <1>8, <1>18 DEF l
  <2> QED
    BY <2>1, <2>2
<1>26. at' # Ended => at' \in Nat \X Nat \X Nat \X Nat /\ InTile(at'[1], at'[2], at'[3], at'[4])
  <2>1. CASE v' = <<>>
    <3>1. at' = Round(at[1], at[2], at[3], at[4])
      BY <1>7, <2>1
    <3> QED
      BY <1>1, <1>11, <1>18, <3>1, RoundKeeps
  <2>2. CASE v' # <<>>
    BY <1>7, <1>11, <2>2
  <2> QED
    BY <2>1, <2>2
<1>16. B' \in [0 .. M * N - 1 -> -1 .. M * N - 1]
  <2>1. M * N \in Int
    BY <1>18
  <2>2. Head(v) \in -1 .. M * N - 1
    BY <1>8, <2>1
  <2> QED
    BY <1>1, <1>2, <2>2
<1>12. ASSUME v' = <<>> PROVE LoopOk' /\ Transposes'
  <2>1. at' = Round(at[1], at[2], at[3], at[4]) /\ reading' = TRUE /\ From' = at'[4]
    BY <1>7, <1>12 DEF From
  <2>2. at[4] + Burst = l + 1
    <3>1. Len(v') = 0
      BY <1>12
    <3> QED
      BY <1>18, <1>23, <3>1
  <2>3. CASE at' # Ended
    <3>1. \A r \in 0 .. N - 1, c \in 0 .. M - 1 : Before(at'[1], at'[2], at'[3], at'[4], r, c)
               => Before(at[1], at[2], at[3], at[4] + Burst, r, c)
      BY <1>1, <1>11, <1>18, <2>1, <2>3, RoundKeeps
    <3>2. ASSUME NEW r \in 0 .. N - 1, NEW c \in 0 .. M - 1, Before(at'[1], at'[2], at'[3], at'[4], r, c)
          PROVE  B'[c * N + r] = A(r, c)
      <4>1. Before(at[1], at[2], at[3], l + 1, r, c)
        BY <2>2, <3>1, <3>2
      <4> QED
        BY <1>22, <4>1
    <3>3. Moved(at[1], at[2], at[3], From)'
      BY <1>10, <2>1, <3>2 DEF Moved, Before, Edge, A
    <3>4. InTile(at[1], at[2], at[3], at[4])'
      BY <1>10, <1>26, <2>3 DEF InTile, Edge
    <3> QED
      BY <1>26, <2>3, <3>3, <3>4 DEF LoopOk, Transposes
  <2>4. CASE at' = Ended
    <3>1. \A r \in 0 .. N - 1, c \in 0 .. M - 1 : Before(at[1], at[2], at[3], at[4] + Burst, r, c)
      BY <1>1, <1>11, <1>18, <2>1, <2>4, RoundKeeps
    <3>2. ASSUME NEW r \in 0 .. N - 1, NEW c \in 0 .. M - 1 PROVE B'[c * N + r] = A(r, c)
      <4>1. Before(at[1], at[2], at[3], l + 1, r, c)
        BY <2>2, <3>1
      <4> QED
        BY <1>22, <4>1
    <3>3. B' = Transposed
      <4> DEFINE b == B'
      <4>1. b \in [0 .. M * N - 1 -> -1 .. M * N - 1] /\ \A r \in 0 .. N - 1, c \in 0 .. M - 1 : b[c * N + r] = A(r, c)
        BY <1>16, <3>2
      <4> HIDE DEF b
      <4>2. b = Transposed
        BY <1>1, <4>1, AllMoved
      <4> QED
        BY <4>2 DEF b
    <3>4. Transposed' = Transposed
      BY <1>10 DEF Transposed, A
    <3> QED
      BY <2>4, <3>3, <3>4 DEF LoopOk, Transposes, Ended
  <2> QED
    BY <2>3, <2>4
<1>27. ASSUME v' # <<>> PROVE LoopOk' /\ Transposes'
  <2>1. at' = at /\ reading' = FALSE
    BY <1>7, <1>27
  <2>2. From' = l + 1
    BY <1>10, <1>23, <2>1 DEF From
  <2>3. Moved(at[1], at[2], at[3], From)'
    BY <1>10, <1>22, <2>1, <2>2 DEF Moved, Before, Edge, A
  <2>4. InTile(at[1], at[2], at[3], at[4])'
    BY <1>10, <1>11, <2>1 DEF InTile, Edge
  <2> QED
    BY <1>1, <1>11, <2>1, <2>3, <2>4 DEF LoopOk, Transposes
<1>13. LoopOk' /\ Transposes'
  BY <1>12, <1>27
<1>28. at' # Ended => \A n \in 1 .. Len(v') : v'[n] = A(at'[3], From' + n - 1)
  <2>1. CASE v' = <<>>
    <3>1. Len(v') = 0
      BY <2>1
    <3> QED
      BY <3>1
  <2>2. CASE v' # <<>>
    <3>1. at' = at /\ From' = l + 1
      BY <1>7, <1>10, <1>23, <2>2 DEF From
    <3> QED
      BY <1>23, <3>1
  <2> QED
    BY <2>1, <2>2
<1>14. VarsOk'
  <2>1. at' \in Seq(Nat)
    <3>1. CASE at' = Ended
      BY <3>1 DEF Ended
    <3>2. CASE at' # Ended
      BY <1>26, <3>2, FourTuple
    <3> QED
      BY <3>1, <3>2
  <2> QED
    BY <1>1, <1>7, <1>9, <2>1 DEF VarsOk
<1>29. at' # Ended => \A n \in 1 .. Len(v') : v'[n] = (A(at[3], From + n - 1))'
  BY <1>10, <1>28 DEF A
<1>15. BurstOk'
  <2>1. Burst \in Nat /\ Burst >= 1
    BY <1>18
  <2>2. Len(v') <= Burst
    BY <1>3, <1>8, <2>1
  <2>3. CASE v' = <<>>
    <3>1. Len(<<>>) = 0
      OBVIOUS
    <3>2. Len(v') = 0 /\ reading' = TRUE
      BY <1>7, <2>3, <3>1
    <3>3. Len(v') < Burst'
      BY <1>10, <2>1, <3>2
    <3> QED
      BY <1>8, <1>10, <1>29, <2>2, <3>2, <3>3 DEF BurstOk
  <2>4. CASE v' # <<>>
    <3>1. reading' = FALSE
      BY <1>7, <2>4
    <3> QED
      BY <1>8, <1>10, <1>29, <2>2, <2>4, <3>1 DEF BurstOk
  <2> QED
    BY <2>3, <2>4
<1>17. TransOk'
  <2>1. SizeOk'
    BY <1>1, <1>7 DEF SizeOk, M, N
  <2> QED
    BY <1>1, <1>6, <1>7, <1>10, <1>13, <1>15, <1>16, <2>1 DEF TransOk, TransGeometry
<1> QED
  BY <1>6, <1>14, <1>17 DEF TransStep

\* On to the next function, with an empty cache: of a direct mapped cache every set holds one
\* line, and that has not been used after another.
LEMMA EvalPerfKeeps ==
  ASSUME LInv, program = "trans", fn < func_counter, UNCHANGED program, EvalPerf
  PROVE  TransStep
<1>1. /\ again = {} /\ SizeOk /\ fn \in 0 .. func_counter
      /\ geometry = TransGeometry /\ B \in [0 .. M * N - 1 -> -1 .. M * N - 1]
      /\ CacheInv
  BY DEF LInv, TransOk, VarsOk
<1>2. /\ fn' = fn + 1 /\ at' = <<0, 0, 0, 0>> /\ v' = <<>> /\ reading' = TRUE
      /\ B' = [p \in DOMAIN B |-> Unset]
      /\ UNCHANGED <<geometry, size, again>>
      /\ lines' = EmptyLines /\ recent' = NoUse /\ hit_count' = 0 /\ miss_count' = 0
      /\ eviction_count' = 0 /\ access_log' = 0
  BY DEF EvalPerf
<1>3. CacheInv'
  BY <1>1, <1>2, EmptiedCacheOk DEF CacheInv, ShapeOk
<1>4. LogOk'
  <2>1. Cardinality({}) = 0
    BY FS_EmptySet
  <2> QED
    BY <1>1, <1>2, <2>1 DEF LogOk
<1>5. LetsGo
  <2> SUFFICES ASSUME NEW s \in Sets, NEW tag \in Cached(s), NEW t \in Cached(s),
                      <<tag, t>> \in recent[s]
               PROVE  FALSE
    BY DEF LetsGo
  <2>1. PICK i, j \in Ways : i # j /\ <<tag, t>> = <<lines[s][i].tag, lines[s][j].tag>>
    BY <1>1 DEF CacheInv, SetsOk, OrderOk
  <2>2. Ways = {1}
    BY <1>1 DEF Ways, E, TransGeometry
  <2> QED
    BY <2>1, <2>2
<1>6. fn' \in 0 .. func_counter
  BY <1>1, <1>2 DEF func_counter
<1>7. VarsOk'
  BY <1>2, <1>6 DEF VarsOk
<1>8. M' = M /\ N' = N /\ size' = size
  BY <1>2 DEF M, N
<1>9. fn' < func_counter => LoopOk' /\ BurstOk'
  <2> SUFFICES ASSUME fn' < func_counter PROVE LoopOk' /\ BurstOk'
    OBVIOUS
  <2>1. SizeOk' /\ at' = <<0, 0, 0, 0>> /\ v' = <<>> /\ reading' = TRUE
    BY <1>1, <1>2, <1>8 DEF SizeOk
  <2>2. func_counter' = func_counter
    BY DEF func_counter
  <2> QED
    BY <1>6, <2>1, <2>2, StartsOk
<1>10. B' \in [0 .. M * N - 1 -> -1 .. M * N - 1]
  <2>1. M * N \in Nat
    <3>1. M \in Nat /\ N \in Nat
      BY <1>1 DEF SizeOk, MAXN
    <3> QED
      BY <3>1
  <2>2. Unset \in -1 .. M * N - 1
    BY <2>1 DEF Unset
  <2> QED
    BY <1>1, <1>2, <2>2
<1>11. TransOk'
  <2>1. again' = {} /\ geometry' = TransGeometry /\ SizeOk' /\ Transposes'
    BY <1>1, <1>2, <1>8 DEF SizeOk, Transposes, Ended
  <2> QED
    BY <1>8, <1>9, <1>10, <2>1 DEF TransOk, TransGeometry
<1> QED
  BY <1>3, <1>4, <1>5, <1>7, <1>11 DEF CacheStep, TransStep

LEMMA SigAlrmKeeps ==
  ASSUME LInv, program = "trans", fn < func_counter, UNCHANGED program, SigAlrm
  PROVE  VarsOk' /\ TransOk'
<1>1. fn' = 2 /\ UNCHANGED <<csimvars, size, at, v, reading, B>>
  BY DEF SigAlrm, func_counter
<1>2. M' = M /\ N' = N /\ (SizeOk' <=> SizeOk) /\ (Transposes' <=> Transposes)
  BY <1>1 DEF M, N, SizeOk, Transposes, Transposed, A
<1>3. again' = again /\ geometry' = geometry
  BY <1>1 DEF csimvars, cachevars
<1> QED
  BY <1>1, <1>2, <1>3 DEF LInv, VarsOk, TransOk, func_counter, TransGeometry

-----------------------------------------------------------------------------
(* Every step of the labs.                                                   *)

\* What a step leaves alone stays as it was.
LEMMA SameCache ==
  ASSUME CacheInv, LogOk, UNCHANGED csimvars
  PROVE  CacheInv' /\ LogOk'
<1>1. UNCHANGED <<geometry, lines, hit_count, miss_count, eviction_count, access_log, again, recent>>
  BY DEF csimvars, cachevars, counts
<1>2. Sets' = Sets /\ Ways' = Ways
  BY <1>1 DEF Sets, Ways, S, E
<1>3. ShapeOk'
  BY <1>1, <1>2 DEF CacheInv, ShapeOk, GeometryOk
<1>4. SetsOk'
  BY <1>1, <1>2 DEF CacheInv, SetsOk, LinesOk, OrderOk, UsedAfter
<1>5. CountsOk'
  BY <1>1, <1>2 DEF CacheInv, CountsOk
<1>6. \A s : Valid(s)' = Valid(s) /\ Cached(s)' = Cached(s)
  BY <1>1, <1>2 DEF Cached, Valid
<1>7. Holding' = Holding
  BY <1>2, <1>6 DEF Holding
<1>8. \A block : SetOf(block)' = SetOf(block) /\ TagOf(block)' = TagOf(block)
  BY <1>1 DEF SetOf, TagOf, S
<1>9. LogOk'
  <2>1. ASSUME NEW block \in again PROVE (TagOf(block) \in Cached(SetOf(block)))'
    <3>1. TagOf(block) \in Cached(SetOf(block))
      BY DEF LogOk
    <3> QED
      BY <1>1, <1>2, <3>1 DEF Cached, Valid, SetOf, TagOf, S
  <2> QED
    BY <1>1, <2>1 DEF LogOk
<1> QED
  BY <1>1, <1>3, <1>4, <1>5, <1>7, <1>9 DEF CacheInv

LEMMA SameTrans ==
  ASSUME VarsOk, TransOk, UNCHANGED <<program, csimvars, transvars>>
  PROVE  VarsOk' /\ TransOk'
<1>1. UNCHANGED <<program, geometry, again, size, fn, at, v, reading, B>>
  BY DEF csimvars, cachevars, transvars
<1>2. VarsOk'
  BY <1>1 DEF VarsOk
<1>3. /\ M' = M /\ N' = N /\ Burst' = Burst /\ Rows' = Rows /\ Tile' = Tile /\ (Blocked' <=> Blocked)
  BY <1>1 DEF M, N, Burst, Tile, Blocked, Rows
<1>4. (LoopOk' <=> LoopOk) /\ (BurstOk' <=> BurstOk)
  BY <1>1, <1>3 DEF LoopOk, InTile, BurstOk, From, Moved, Before, Edge, A
<1>5. (SizeOk' <=> SizeOk) /\ (Transposes' <=> Transposes)
  BY <1>1, <1>3 DEF SizeOk, Transposes, Transposed, A
<1> QED
  BY <1>1, <1>2, <1>3, <1>4, <1>5 DEF TransOk, TransGeometry

LEMMA SameTiming ==
  ASSUME TimingOk, UNCHANGED timingvars
  PROVE  TimingOk'
  BY TimingKeeps

LEMMA LInvNext ==
  ASSUME LInv, [Next]_vars
  PROVE  LInv' /\ (LetsGo \/ UNCHANGED csimvars)
<1>1. /\ program \in Programs /\ CacheInv /\ LogOk /\ VarsOk /\ TransOk /\ WordsOk /\ TimingOk
  BY DEF LInv
<1>2. program' = program /\ WordsOk'
  BY <1>1 DEF Next, vars, WordsOk
<1>3. CASE program = "csim" /\ CsimNext /\ UNCHANGED <<transvars, timingvars>>
  <2>1. CacheStep
    BY <1>1, <1>3, ReplayKeeps, AgainKeeps DEF CsimNext
  <2>2. VarsOk' /\ TransOk'
    BY <1>1, <1>2, <1>3 DEF transvars, VarsOk, TransOk
  <2> QED
    BY <1>1, <1>2, <1>3, <2>1, <2>2, SameTiming DEF CacheStep, LInv
<1>4. CASE program = "trans" /\ TransNext /\ UNCHANGED timingvars
  <2>1. CASE ReadElement \/ WriteElement \/ EvalPerf
    <3>1. TransStep
      BY <1>2, <1>4, <2>1, ReadKeeps, WriteKeeps, EvalPerfKeeps DEF TransNext
    <3> QED
      BY <1>1, <1>2, <1>4, <3>1, SameTiming DEF TransStep, CacheStep, LInv
  <2>2. CASE SigAlrm
    <3>1. VarsOk' /\ TransOk'
      BY <1>2, <1>4, <2>2, SigAlrmKeeps DEF TransNext
    <3>2. UNCHANGED csimvars
      BY <2>2 DEF SigAlrm
    <3> QED
      BY <1>1, <1>2, <1>4, <3>1, <3>2, SameCache, SameTiming DEF LInv
  <2> QED
    BY <1>4, <2>1, <2>2 DEF TransNext
<1>5. CASE program = "timing" /\ TimingNext /\ UNCHANGED <<csimvars, transvars>>
  <2>1. TimingOk'
    BY <1>1, <1>5, TimingKeeps
  <2>2. UNCHANGED csimvars /\ UNCHANGED <<program, csimvars, transvars>>
    BY <1>2, <1>5
  <2> QED
    BY <1>1, <1>2, <2>1, <2>2, SameCache, SameTrans DEF LInv
<1>6. CASE UNCHANGED vars
  <2>1. UNCHANGED csimvars /\ UNCHANGED <<program, csimvars, transvars>> /\ UNCHANGED timingvars
    BY <1>6 DEF vars
  <2> QED
    BY <1>1, <1>2, <2>1, SameCache, SameTrans, SameTiming DEF LInv
<1> QED
  BY <1>3, <1>4, <1>5, <1>6 DEF Next

-----------------------------------------------------------------------------
(* The theorems.                                                             *)

\* The labs keep the invariant: the shape of the cache, the order of its counters, the room in the
\* log, the loops of the transpose functions within their arrays, and the sampler's list.
THEOREM Invariance == Spec => []LInv
<1>1. Init => LInv
  BY LInvInit
<1>2. LInv /\ [Next]_vars => LInv'
  BY LInvNext
<1> QED
  BY <1>1, <1>2, PTL DEF Spec

\* Every variable has its type: the
\* transpose functions read elements of A only, and no more than K samples are kept.
THEOREM TypeCorrect == Spec => []TypeOK
<1>1. LInv => TypeOK
  <2> SUFFICES ASSUME LInv PROVE TypeOK
    OBVIOUS
  <2>1. CacheTypeOK
    <3> QED
      BY DEF CacheTypeOK, LInv, CacheInv, ShapeOk, CountsOk, LogOk, Line
  <2>2. now[2] \in 0 .. UINT - 1 /\ start[2] \in 0 .. UINT - 1
    BY DEF LInv, TimingOk, ClockOk, Counter
  <2> QED
    BY <2>1, <2>2 DEF TypeOK, LInv, VarsOk, TransOk, WordsOk, TimingOk, ListOk
<1> QED
  BY <1>1, Invariance, PTL

\* The lines of a set that are in use come first and have different tags, and every miss has
\* filled a line of its own or evicted one, for any geometry and any trace.
THEOREM CacheCorrect == Spec => []CacheExact
<1>1. LInv => CacheExact
  <2> SUFFICES ASSUME LInv PROVE CacheExact
    OBVIOUS
  <2>1. CacheInv
    BY DEF LInv
  <2>2. ASSUME NEW s \in Sets, NEW i \in Ways, NEW j \in Ways
        PROVE  /\ j \in Valid(s) /\ i < j => i \in Valid(s)
               /\ i \in Valid(s) /\ j \in Valid(s) /\ lines[s][i].tag = lines[s][j].tag => i = j
    BY <2>1 DEF CacheInv, SetsOk, LinesOk, Valid
  <2>3. miss_count = eviction_count + Cardinality({p \in Sets \X Ways : p[2] \in Valid(p[1])})
    BY <2>1 DEF CacheInv, Holding
  <2>4. \A s \in Sets, i \in Ways : lines[s][i].lru_counter <= hit_count + miss_count
    BY <2>1 DEF CacheInv, CountsOk
  <2> QED
    BY <2>2, <2>3, <2>4 DEF CacheExact
<1> QED
  BY <1>1, Invariance, PTL

\* The submission and the simple scan transpose matrices of every size that main() accepts, wherever
\* their tiles end: at the last round each element of A is in its place in B.
THEOREM TransposeCorrect == Spec => []TransposeRight
<1>1. LInv => TransposeRight
  BY DEF LInv, TransOk, TransposeRight
<1> QED
  BY <1>1, Invariance, PTL

\* strcat() stays within access_log[20]: the second access of an M is always a hit.
THEOREM LogCorrect == Spec => []LogFits
<1>1. LInv => LogFits
  BY DEF LInv, LogOk, LogFits
<1> QED
  BY <1>1, Invariance, PTL

\* What leaves a set was used last of all, but for one: for any number of lines in a set.
THEOREM LruCorrect == Spec => NearlyLru
<1>1. LInv /\ [Next]_vars => [LetsGo]_csimvars
  BY LInvNext
<1>2. NearlyLru <=> [][LetsGo]_csimvars
  BY DEF NearlyLru, LetsGo
<1> QED
  BY <1>1, <1>2, Invariance, PTL DEF Spec

\* What fcyc() returns is the true number of cycles of one of its samples, the least of them.
BestIsFirst ==
  method = "fcyc" /\ samplecount > 0 =>
    Among(elapsed, values[1]) /\ \A i \in DOMAIN elapsed : values[1] <= elapsed[i]

\* For a counter of any width, as long as a sample does not take all of it: fcyc() returns the
\* least of its samples, wherever the counter wraps and however many samples there are.
THEOREM BestSampleReturned ==
  ASSUME \A c \in CYCLES : c + TICK < UINT * UINT
  PROVE  Spec => []BestIsFirst
<1>1. Init => LInv /\ Sampled
  <2> SUFFICES ASSUME Init PROVE LInv /\ Sampled
    OBVIOUS
  <2>1. CASE NoTiming
    BY <2>1, LInvInit DEF NoTiming, Sampled
  <2>2. CASE TimingInit
    BY <2>2, LInvInit, TimingStarts
  <2> QED
    BY <2>1, <2>2 DEF Init
<1>2. LInv /\ Sampled /\ [Next]_vars => LInv' /\ Sampled'
  <2> SUFFICES ASSUME LInv, Sampled, [Next]_vars PROVE LInv' /\ Sampled'
    OBVIOUS
  <2>1. [TimingNext]_timingvars
    BY DEF Next, vars
  <2> QED
    BY <2>1, LInvNext, TimingKeeps DEF LInv
<1>3. LInv /\ Sampled => BestIsFirst
  BY FirstIsLeast DEF LInv, BestIsFirst
<1> QED
  BY <1>1, <1>2, <1>3, PTL DEF Spec

\* What is measured is right, for a counter of any width, any number of runs, samples and samples
\* kept, and any tolerance: fcyc() keeps the smallest of its samples in order, each the cycles that
\* its run took, and stops when these are as close as is asked or after the last sample; ftimer.c
\* returns the time of all its runs.
THEOREM MeasuredRight ==
  ASSUME \A c \in CYCLES : c + TICK < UINT * UINT
  PROVE  Spec => []TimingRight
<1>1. Init => LInv /\ Exact
  BY LInvInit, ExactStarts DEF Init
<1>2. LInv /\ Exact /\ [Next]_vars => LInv' /\ Exact'
  <2> SUFFICES ASSUME LInv, Exact, [Next]_vars PROVE LInv' /\ Exact'
    OBVIOUS
  <2>1. [TimingNext]_timingvars
    BY DEF Next, vars
  <2> QED
    BY <2>1, LInvNext, ExactKeeps DEF LInv
<1>3. LInv /\ Exact => TimingRight
  BY ExactIsRight DEF LInv
<1> QED
  BY <1>1, <1>2, <1>3, PTL DEF Spec

-----------------------------------------------------------------------------
(* The bit puzzles: words, their numbers, and floats.                        *)

USE BitsAssumption DEF BitsAssumption

\* Pow2 up to n.
PowersTo(f, n) == f = [i \in 0 .. n |-> IF i = 0 THEN 1 ELSE 2 * f[i - 1]]

\* Its values, step by step; two agree where both are defined, and there is one for every n.
LEMMA PartValues ==
  ASSUME NEW n \in Nat, NEW f, PowersTo(f, n)
  PROVE  f[0] = 1 /\ \A i \in 1 .. n : f[i] = 2 * f[i - 1]
BY DEF PowersTo

LEMMA PartsAgree ==
  ASSUME NEW n \in Nat, NEW m \in Nat, NEW f, NEW g, PowersTo(f, n), PowersTo(g, m)
  PROVE  \A i \in 0 .. n : i <= m => f[i] = g[i]
<1> DEFINE D == {i \in 0 .. n : i <= m /\ f[i] # g[i]}
<1> SUFFICES ASSUME D # {} PROVE FALSE
  OBVIOUS
<1>1. PICK i \in D : \A j \in D : i <= j
  BY LeastBelow
<1>2. i \in 0 .. n /\ i <= m /\ f[i] # g[i]
  OBVIOUS
<1>3. i # 0
  BY <1>2, PartValues
<1>4. i - 1 \in 0 .. n /\ i - 1 <= m /\ i \in 1 .. n /\ i \in 1 .. m
  BY <1>2, <1>3
<1>5. f[i - 1] = g[i - 1]
  BY <1>1, <1>4
<1> QED
  BY <1>2, <1>4, <1>5, PartValues

LEMMA PartExists ==
  ASSUME NEW n \in Nat
  PROVE  \E f : PowersTo(f, n)
<1> DEFINE Exists(m) == \E f : PowersTo(f, m)
           D == {m \in 0 .. n : ~Exists(m)}
<1> SUFFICES ASSUME D # {} PROVE FALSE
  OBVIOUS
<1>1. PICK m \in D : \A j \in D : m <= j
  BY LeastBelow
<1>2. m \in 0 .. n /\ ~Exists(m)
  OBVIOUS
<1>3. m # 0
  <2>1. PowersTo([i \in 0 .. 0 |-> 1], 0)
    BY DEF PowersTo
  <2> QED
    BY <1>2, <2>1
<1>4. m - 1 \in 0 .. n /\ m - 1 \in Nat
  BY <1>2, <1>3
<1>5. Exists(m - 1)
  <2> HIDE DEF Exists
  <2> QED
    BY <1>1, <1>4
<1>6. PICK f : PowersTo(f, m - 1)
  BY <1>5
<1> DEFINE g == [i \in 0 .. m |-> IF i = m THEN 2 * f[m - 1] ELSE f[i]]
<1>7. ASSUME NEW i \in 0 .. m PROVE g[i] = IF i = 0 THEN 1 ELSE 2 * g[i - 1]
  <2>1. CASE i = 0
    BY <1>3, <1>4, <1>6, <2>1, PartValues
  <2>2. CASE i # 0 /\ i < m
    <3>1. i \in 1 .. m - 1 /\ i - 1 \in 0 .. m /\ i - 1 # m /\ i # m
      BY <1>2, <2>2
    <3>2. f[i] = 2 * f[i - 1]
      BY <1>4, <1>6, <3>1, PartValues
    <3> QED
      BY <2>2, <3>1, <3>2
  <2>3. CASE i = m
    <3>1. m - 1 \in 0 .. m /\ m - 1 # m /\ m \in 0 .. m
      BY <1>2, <1>3
    <3> QED
      BY <1>3, <2>3, <3>1
  <2> QED
    BY <1>2, <2>1, <2>2, <2>3
<1>8. PowersTo(g, m)
  <2>1. g = [i \in 0 .. m |-> g[i]]
    OBVIOUS
  <2> HIDE DEF g
  <2>2. [i \in 0 .. m |-> g[i]] = [i \in 0 .. m |-> IF i = 0 THEN 1 ELSE 2 * g[i - 1]]
    BY <1>7
  <2> QED
    BY <2>1, <2>2 DEF PowersTo
<1> QED
  BY <1>2, <1>8

\* The definition by recursion defines a function.
LEMMA PowersAre == Pow2 = [n \in Nat |-> IF n = 0 THEN 1 ELSE 2 * Pow2[n - 1]]
<1> DEFINE Is(p) == p = [n \in Nat |-> IF n = 0 THEN 1 ELSE 2 * p[n - 1]]
           part(n) == CHOOSE f : PowersTo(f, n)
           p == [n \in Nat |-> part(n)[n]]
<1>1. \A n \in Nat : PowersTo(part(n), n)
  BY PartExists
<1> HIDE DEF part
<1>2. ASSUME NEW n \in Nat PROVE p[n] = IF n = 0 THEN 1 ELSE 2 * p[n - 1]
  <2>1. CASE n = 0
    BY <1>1, <2>1, PartValues
  <2>2. CASE n # 0
    <3>1. n - 1 \in Nat /\ n \in 1 .. n /\ n - 1 \in 0 .. n - 1 /\ n - 1 <= n
      BY <2>2
    <3>2. part(n)[n] = 2 * part(n)[n - 1]
      BY <1>1, <3>1, PartValues
    <3>3. part(n - 1)[n - 1] = part(n)[n - 1]
      <4>1. PowersTo(part(n), n) /\ PowersTo(part(n - 1), n - 1)
        BY <1>1, <3>1
      <4> QED
        BY <3>1, <4>1, PartsAgree
    <3> QED
      BY <2>2, <3>1, <3>2, <3>3
  <2> QED
    BY <2>1, <2>2
<1>3. Is(p)
  <2>1. p = [n \in Nat |-> p[n]]
    OBVIOUS
  <2> HIDE DEF p
  <2>2. [n \in Nat |-> p[n]] = [n \in Nat |-> IF n = 0 THEN 1 ELSE 2 * p[n - 1]]
    BY <1>2
  <2> QED
    BY <2>1, <2>2
<1>4. Pow2 = CHOOSE f : Is(f)
  BY DEF Pow2
<1> HIDE DEF Is, p
<1>5. Is(Pow2)
  BY <1>3, <1>4
<1> QED
  BY <1>5 DEF Is

\* The powers of 2: they double at every step, and are positive.
LEMMA PowerZero == Pow2[0] = 1
BY PowersAre

LEMMA PowerStep == ASSUME NEW n \in Nat PROVE Pow2[n + 1] = 2 * Pow2[n]
<1>1. n + 1 \in Nat /\ n + 1 # 0 /\ (n + 1) - 1 = n
  OBVIOUS
<1> QED
  BY <1>1, PowersAre

LEMMA PowerNext ==
  ASSUME NEW n \in Nat
  PROVE  Pow2[n + 1] = 2 * Pow2[n] /\ Pow2[n] \in Nat \ {0}
<1> DEFINE D == {m \in 0 .. n : Pow2[m] \notin Nat \ {0}}
<1>1. D = {}
  <2> SUFFICES ASSUME D # {} PROVE FALSE
    OBVIOUS
  <2>1. PICK m \in D : \A j \in D : m <= j
    BY LeastBelow
  <2>2. m \in 0 .. n /\ Pow2[m] \notin Nat \ {0}
    OBVIOUS
  <2>3. m # 0
    BY <2>2, PowerZero
  <2>4. m - 1 \in 0 .. n /\ m - 1 \in Nat /\ (m - 1) + 1 = m
    BY <2>2, <2>3
  <2>5. Pow2[m - 1] \in Nat \ {0}
    BY <2>1, <2>4
  <2>6. Pow2[m] = 2 * Pow2[m - 1]
    BY <2>4, PowerStep
  <2> QED
    BY <2>2, <2>5, <2>6
<1>2. n \in 0 .. n
  OBVIOUS
<1> QED
  BY <1>1, <1>2, PowerStep

\* The weights of the bits of a word.
Weights == [b \in Bit |-> Pow2[b]]

LEMMA WeightsNat == W \in Nat /\ IsFiniteSet(Bit) /\ \A b \in Bit : Weights[b] = Pow2[b] /\ Weights[b] \in Nat
<1>1. IsFiniteSet(Bit)
  BY FS_Interval DEF Bit
<1>2. \A b \in Bit : b \in 0 .. W
  BY DEF Bit
<1>3. \A b \in Bit : Weights[b] = Pow2[b] /\ Pow2[b] \in Nat
  BY <1>2, PowerNext DEF Weights
<1> QED
  BY <1>1, <1>3

LEMMA UnsignedIs ==
  ASSUME NEW a \in SUBSET Bit
  PROVE  Unsigned(a) = Total(Weights, a)
<1> DEFINE Is(f) == f = [t \in SUBSET a |-> IF t = {} THEN 0 ELSE Weights[Some(t)] + f[t \ {Some(t)}]]
           Is2(f) == f = [t \in SUBSET a |-> IF t = {} THEN 0 ELSE Pow2[Some(t)] + f[t \ {Some(t)}]]
<1>1. Total(Weights, a) = (CHOOSE f : Is(f))[a]
  BY DEF Total, MapThenSumSet, MapThenFoldSet, Some
<1>2. Unsigned(a) = (CHOOSE f : Is2(f))[a]
  BY DEF Unsigned, MapThenSumSet, MapThenFoldSet, Some
<1>3. ASSUME NEW t \in SUBSET a, t # {} PROVE Weights[Some(t)] = Pow2[Some(t)]
  <2>1. Some(t) \in Bit
    BY <1>3 DEF Some
  <2> QED
    BY <2>1, WeightsNat
<1>4. ASSUME NEW f PROVE Is(f) <=> Is2(f)
  <2>1. [t \in SUBSET a |-> IF t = {} THEN 0 ELSE Weights[Some(t)] + f[t \ {Some(t)}]]
          = [t \in SUBSET a |-> IF t = {} THEN 0 ELSE Pow2[Some(t)] + f[t \ {Some(t)}]]
    BY <1>3
  <2> QED
    BY <2>1
<1> HIDE DEF Is, Is2
<1>5. (CHOOSE f : Is(f)) = (CHOOSE f : Is2(f))
  BY <1>4
<1> QED
  BY <1>1, <1>2, <1>5

\* A word is the number that its bits add up to.
LEMMA UnsignedWith ==
  ASSUME NEW a \in SUBSET Bit, NEW b \in a
  PROVE  Unsigned(a) = Pow2[b] + Unsigned(a \ {b})
<1>1. IsFiniteSet(a) /\ \A c \in a : Weights[c] \in Int
  BY WeightsNat, FS_Subset
<1>2. Total(Weights, a) = Weights[b] + Total(Weights, a \ {b})
  BY <1>1, TotalWith
<1>3. a \ {b} \in SUBSET Bit /\ b \in Bit
  OBVIOUS
<1> QED
  BY <1>2, <1>3, UnsignedIs, WeightsNat

LEMMA UnsignedNat == Unsigned({}) = 0 /\ \A a \in SUBSET Bit : Unsigned(a) \in Nat
<1>1. ASSUME NEW a \in SUBSET Bit PROVE Total(Weights, a) \in Nat /\ Total(Weights, {}) = 0
  <2>1. IsFiniteSet(a) /\ \A c \in a : Weights[c] \in Nat
    BY WeightsNat, FS_Subset
  <2> QED
    BY <2>1, TotalNat
<1>2. {} \in SUBSET Bit
  OBVIOUS
<1> QED
  BY <1>1, <1>2, UnsignedIs

LEMMA UnsignedSplit ==
  ASSUME NEW a \in SUBSET Bit, NEW c \in SUBSET Bit, a \cap c = {}
  PROVE  Unsigned(a \cup c) = Unsigned(a) + Unsigned(c)
<1> DEFINE D == {d \in SUBSET c : Unsigned(a \cup d) # Unsigned(a) + Unsigned(d)}
<1> SUFFICES ASSUME D # {} PROVE FALSE
  <2>1. c \in SUBSET c
    OBVIOUS
  <2> QED
    BY <2>1
<1>1. D \subseteq SUBSET c /\ IsFiniteSet(c)
  BY WeightsNat, FS_Subset
<1>2. PICK d \in D : MinimalIn(D, d)
  <2> HIDE DEF D
  <2> QED
    BY <1>1, MinimalSubset
<1>3. d \in SUBSET c /\ Unsigned(a \cup d) # Unsigned(a) + Unsigned(d)
  OBVIOUS
<1>4. d # {}
  <2>1. a \cup {} = a
    OBVIOUS
  <2> QED
    BY <1>3, <2>1, UnsignedNat
<1>5. PICK b \in d : TRUE
  BY <1>4
<1>6. d \ {b} \notin D
  <2> HIDE DEF D
  <2> QED
    BY <1>2, <1>5 DEF MinimalIn
<1>7. Unsigned(a \cup (d \ {b})) = Unsigned(a) + Unsigned(d \ {b})
  BY <1>3, <1>6
<1> HIDE DEF D
<1>8. a \cup d \in SUBSET Bit /\ d \in SUBSET Bit /\ b \in a \cup d /\ (a \cup d) \ {b} = a \cup (d \ {b}) /\ b \in 0 .. W
  BY <1>3, <1>5 DEF Bit
<1>9. Unsigned(a \cup d) = Pow2[b] + Unsigned(a \cup (d \ {b})) /\ Unsigned(d) = Pow2[b] + Unsigned(d \ {b})
  BY <1>8, UnsignedWith
<1>10. Unsigned(a) \in Nat /\ Unsigned(d \ {b}) \in Nat /\ Pow2[b] \in Nat
  BY <1>8, UnsignedNat, PowerNext
<1> QED
  BY <1>3, <1>7, <1>9, <1>10

\* A word with k bits is less than the k-th power of 2; with all of them it is just below.
LEMMA UnsignedBelow ==
  ASSUME NEW k \in 0 .. W
  PROVE  /\ Unsigned(0 .. k - 1) = Pow2[k] - 1
         /\ \A a \in SUBSET (0 .. k - 1) : Unsigned(a) < Pow2[k]
<1> DEFINE Ok(n) == /\ Unsigned(0 .. n - 1) = Pow2[n] - 1
                    /\ \A a \in SUBSET (0 .. n - 1) : Unsigned(a) < Pow2[n]
           D == {n \in 0 .. W : ~Ok(n)}
<1> SUFFICES ASSUME D # {} PROVE FALSE
  OBVIOUS
<1>1. PICK n \in D : \A m \in D : n <= m
  BY LeastBelow
<1>2. n \in 0 .. W /\ ~Ok(n)
  OBVIOUS
<1>3. n # 0
  <2>1. 0 .. 0 - 1 = {} /\ \A a \in SUBSET {} : a = {}
    OBVIOUS
  <2>2. Ok(0)
    <3>1. Unsigned(0 .. 0 - 1) = 0
      BY <2>1, UnsignedNat
    <3>2. ASSUME NEW a \in SUBSET (0 .. 0 - 1) PROVE Unsigned(a) = 0
      <4>1. a = {}
        BY <2>1
      <4> QED
        BY <4>1, UnsignedNat
    <3> QED
      BY <3>1, <3>2, PowerZero
  <2> HIDE DEF Ok
  <2> QED
    BY <1>2, <2>2
<1>4. n - 1 \in 0 .. W /\ n - 1 \in Bit /\ (n - 1) + 1 = n
  BY <1>2, <1>3 DEF Bit
<1>5. Ok(n - 1)
  <2> HIDE DEF Ok
  <2> QED
    BY <1>1, <1>4
<1>6. Pow2[n] = 2 * Pow2[n - 1] /\ Pow2[n - 1] \in Nat
  <2>1. n - 1 \in Nat
    BY <1>4
  <2>2. Pow2[(n - 1) + 1] = 2 * Pow2[n - 1] /\ Pow2[n - 1] \in Nat
    BY <2>1, PowerNext
  <2> QED
    BY <1>4, <2>2
<1> DEFINE low == 0 .. (n - 1) - 1
           all == 0 .. n - 1
<1>7. all \in SUBSET Bit /\ n - 1 \in all /\ all \ {n - 1} = low /\ low \in SUBSET Bit
  BY <1>2, <1>3, <1>4 DEF Bit
<1>8. Unsigned(all) = Pow2[n] - 1
  <2>1. Unsigned(all) = Pow2[n - 1] + Unsigned(low)
    <3> HIDE DEF all, low
    <3> QED
      BY <1>7, UnsignedWith
  <2>2. Unsigned(low) = Pow2[n - 1] - 1
    BY <1>5
  <2> HIDE DEF all, low, Ok, D
  <2> QED
    BY <1>6, <2>1, <2>2
<1>9. ASSUME NEW a \in SUBSET all PROVE Unsigned(a) < Pow2[n]
  <2>1. a \ {n - 1} \in SUBSET low /\ a \in SUBSET Bit /\ a \ {n - 1} \in SUBSET Bit
    BY <1>7
  <2>2. Unsigned(a \ {n - 1}) < Pow2[n - 1] /\ Unsigned(a \ {n - 1}) \in Nat
    BY <1>5, <2>1, UnsignedNat
  <2> HIDE DEF all, low, Ok, D
  <2>3. CASE n - 1 \in a
    <3>1. Unsigned(a) = Pow2[n - 1] + Unsigned(a \ {n - 1})
      BY <2>1, <2>3, UnsignedWith
    <3> QED
      BY <1>6, <2>2, <3>1
  <2>4. CASE n - 1 \notin a
    <3>1. a \ {n - 1} = a
      BY <2>4
    <3>2. Unsigned(a) < Pow2[n - 1] /\ Unsigned(a) \in Nat
      BY <2>2, <3>1
    <3> QED
      BY <1>6, <3>2
  <2> QED
    BY <2>3, <2>4
<1> QED
  BY <1>2, <1>8, <1>9

\* Every number below is that of a word.
LEMMA UnsignedOnto ==
  ASSUME NEW k \in 0 .. W
  PROVE  \A n \in 0 .. Pow2[k] - 1 : \E a \in SUBSET (0 .. k - 1) : Unsigned(a) = n
<1> DEFINE Ok(m) == \A n \in 0 .. Pow2[m] - 1 : \E a \in SUBSET (0 .. m - 1) : Unsigned(a) = n
           D == {m \in 0 .. W : ~Ok(m)}
<1> SUFFICES ASSUME D # {} PROVE FALSE
  OBVIOUS
<1>1. PICK m \in D : \A i \in D : m <= i
  BY LeastBelow
<1>2. m \in 0 .. W /\ ~Ok(m)
  OBVIOUS
<1>3. m # 0
  <2>1. \A n \in 0 .. 1 - 1 : n = 0
    OBVIOUS
  <2>3. {} \in SUBSET (0 .. 0 - 1)
    OBVIOUS
  <2>2. Ok(0)
    <3> SUFFICES ASSUME NEW n \in 0 .. Pow2[0] - 1 PROVE \E a \in SUBSET (0 .. 0 - 1) : Unsigned(a) = n
      OBVIOUS
    <3>1. Unsigned({}) = n
      BY <2>1, PowerZero, UnsignedNat
    <3> QED
      BY <2>3, <3>1
  <2> HIDE DEF Ok
  <2> QED
    BY <1>2, <2>2
<1>4. m - 1 \in 0 .. W /\ m - 1 \in Bit /\ (m - 1) + 1 = m
  BY <1>2, <1>3 DEF Bit
<1>5. Ok(m - 1)
  <2> HIDE DEF Ok
  <2> QED
    BY <1>1, <1>4
<1>6. Pow2[m] = 2 * Pow2[m - 1] /\ Pow2[m - 1] \in Nat
  BY <1>4, PowerNext
<1>7. ASSUME NEW n \in 0 .. Pow2[m] - 1 PROVE \E a \in SUBSET (0 .. m - 1) : Unsigned(a) = n
  <2>1. CASE n < Pow2[m - 1]
    <3>1. n \in 0 .. Pow2[m - 1] - 1
      BY <1>6, <2>1
    <3>2. PICK a \in SUBSET (0 .. (m - 1) - 1) : Unsigned(a) = n
      BY <1>5, <3>1
    <3>3. a \in SUBSET (0 .. m - 1)
      BY <1>2, <1>4
    <3> QED
      BY <3>2, <3>3
  <2>2. CASE n >= Pow2[m - 1]
    <3>1. n - Pow2[m - 1] \in 0 .. Pow2[m - 1] - 1
      BY <1>6, <2>2
    <3>2. PICK a \in SUBSET (0 .. (m - 1) - 1) : Unsigned(a) = n - Pow2[m - 1]
      BY <1>5, <3>1
    <3> DEFINE c == a \cup {m - 1}
    <3>3. c \in SUBSET (0 .. m - 1) /\ c \in SUBSET Bit /\ m - 1 \in c /\ c \ {m - 1} = a
      BY <1>2, <1>3, <1>4 DEF Bit
    <3>4. Unsigned(c) = Pow2[m - 1] + Unsigned(a)
      <4> HIDE DEF c
      <4> QED
        BY <3>3, UnsignedWith
    <3>5. Unsigned(c) = n
      BY <1>6, <3>2, <3>4
    <3> HIDE DEF c
    <3> QED
      BY <3>3, <3>5
  <2> QED
    BY <1>6, <2>1, <2>2
<1> QED
  BY <1>2, <1>7

LEMMA PowerNat == ASSUME NEW n \in Nat PROVE Pow2[n] \in Nat /\ Pow2[n] > 0
  BY PowerNext

\* Powers multiply when their exponents are added, and grow with them.
LEMMA PowerTimes ==
  ASSUME NEW i \in Nat, NEW k \in Nat
  PROVE  Pow2[i + k] = Pow2[i] * Pow2[k]
<1> DEFINE D == {j \in 0 .. k : Pow2[i + j] # Pow2[i] * Pow2[j]}
<1>1. D = {}
  <2> SUFFICES ASSUME D # {} PROVE FALSE
    OBVIOUS
  <2>1. PICK j \in D : \A m \in D : j <= m
    BY LeastBelow
  <2>2. j \in 0 .. k /\ Pow2[i + j] # Pow2[i] * Pow2[j]
    OBVIOUS
  <2>3. j # 0
    <3>1. Pow2[i] \in Nat /\ i + 0 = i
      BY PowerNat
    <3> QED
      BY <2>2, <3>1, PowerZero
  <2>4. /\ j - 1 \in 0 .. k /\ (j - 1) + 1 = j /\ j - 1 \in Nat
        /\ i + (j - 1) \in Nat /\ (i + (j - 1)) + 1 = i + j
    BY <2>2, <2>3
  <2>5. Pow2[i + (j - 1)] = Pow2[i] * Pow2[j - 1]
    BY <2>1, <2>4
  <2> HIDE DEF D
  <2>6. Pow2[j] = 2 * Pow2[j - 1] /\ Pow2[i + j] = 2 * Pow2[i + (j - 1)] /\ Pow2[j - 1] \in Int /\ Pow2[i] \in Int
    BY <2>4, PowerNext
  <2>7. \A g, h \in Int : g * (2 * h) = 2 * (g * h)
    OBVIOUS
  <2>8. Pow2[i] * (2 * Pow2[j - 1]) = 2 * (Pow2[i] * Pow2[j - 1])
    BY <2>6, <2>7
  <2> QED
    BY <2>2, <2>5, <2>6, <2>8
<1>2. k \in 0 .. k
  OBVIOUS
<1> QED
  BY <1>1, <1>2

LEMMA PowerMonotonic ==
  ASSUME NEW i \in Nat, NEW k \in Nat, i <= k
  PROVE  Pow2[i] <= Pow2[k] /\ (i < k => Pow2[i] < Pow2[k])
<1>1. k - i \in Nat /\ i + (k - i) = k
  OBVIOUS
<1>2. Pow2[k] = Pow2[i] * Pow2[k - i] /\ Pow2[i] \in Nat \ {0} /\ Pow2[k - i] \in Nat \ {0}
  BY <1>1, PowerNext, PowerTimes
<1>3. i < k => Pow2[k - i] >= 2
  <2> SUFFICES ASSUME i < k PROVE Pow2[k - i] >= 2
    OBVIOUS
  <2>1. (k - i) - 1 \in Nat /\ ((k - i) - 1) + 1 = k - i
    BY <1>1
  <2>2. Pow2[k - i] = 2 * Pow2[(k - i) - 1] /\ Pow2[(k - i) - 1] \in Nat \ {0}
    BY <2>1, PowerNext
  <2> QED
    BY <2>2
<1>4. \A a, b \in Nat \ {0} : a <= a * b /\ (b >= 2 => a < a * b)
  <2> TAKE a, b \in Nat \ {0}
  <2>1. 1 * a <= b * a /\ (b >= 2 => 2 * a <= b * a)
    BY TimesMonotonic
  <2>2. b * a = a * b /\ a * b \in Int
    OBVIOUS
  <2> QED
    BY <2>1, <2>2
<1> QED
  BY <1>2, <1>3, <1>4

\* >> of an unsigned word divides it.
LEMMA ShrDivides ==
  ASSUME NEW a \in SUBSET Bit, NEW k \in 0 .. SIGN
  PROVE  /\ Shr(a, k) \in SUBSET Bit /\ \A b \in Bit : b \in Shr(a, k) <=> b + k \in a
         /\ Unsigned(a) = Unsigned(a \cap 0 .. k - 1) + Pow2[k] * Unsigned(Shr(a, k))
<1>0. /\ Bit = 0 .. W - 1 /\ SIGN = W - 1 /\ k \in 0 .. W /\ k \in Int
      /\ \A b \in Bit : b \in Int
  BY DEF Bit, SIGN
<1>1. \A d : Shr(d, k) = {b - k : b \in d} \cap Bit
  BY DEF Shr
<1>2. ASSUME NEW d \in SUBSET Bit, NEW b \in Bit PROVE b \in Shr(d, k) <=> b + k \in d
  <2>1. ASSUME b \in Shr(d, k) PROVE b + k \in d
    <3>1. PICK c \in d : b = c - k
      BY <1>1, <2>1
    <3>2. b + k = c
      BY <1>0, <3>1
    <3> QED
      BY <3>2
  <2>2. ASSUME b + k \in d PROVE b \in Shr(d, k)
    <3>1. (b + k) - k = b
      BY <1>0
    <3> QED
      BY <1>1, <2>2, <3>1
  <2> QED
    BY <2>1, <2>2
<1>3. \A d : Shr(d, k) \in SUBSET Bit
  BY <1>1
<1> DEFINE low == a \cap 0 .. k - 1
           high == a \ low
           D == {d \in SUBSET high : Unsigned(d) # Pow2[k] * Unsigned(Shr(d, k))}
<1>4. Unsigned(a) = Unsigned(low) + Unsigned(high)
  <2>1. low \in SUBSET Bit /\ high \in SUBSET Bit /\ low \cap high = {} /\ low \cup high = a
    OBVIOUS
  <2> HIDE DEF low, high
  <2> QED
    BY <2>1, UnsignedSplit
<1>5. D = {}
  <2> SUFFICES ASSUME D # {} PROVE FALSE
    OBVIOUS
  <2>1. D \subseteq SUBSET high /\ IsFiniteSet(high)
    BY WeightsNat, FS_Subset
  <2>2. PICK d \in D : MinimalIn(D, d)
    <3> HIDE DEF D
    <3> QED
      BY <2>1, MinimalSubset
  <2>3. d \in SUBSET high /\ Unsigned(d) # Pow2[k] * Unsigned(Shr(d, k))
    OBVIOUS
  <2>4. d # {}
    <3>1. Shr({}, k) = {}
      BY <1>1
    <3>2. Pow2[k] * 0 = 0
      BY <1>0, PowerNat
    <3> QED
      BY <2>3, <3>1, <3>2, UnsignedNat
  <2>5. PICK b \in d : TRUE
    BY <2>4
  <2>6. d \ {b} \notin D
    <3> HIDE DEF D
    <3> QED
      BY <2>2, <2>5 DEF MinimalIn
  <2>7. Unsigned(d \ {b}) = Pow2[k] * Unsigned(Shr(d \ {b}, k))
    BY <2>3, <2>6
  <2>8. d \in SUBSET Bit /\ d \ {b} \in SUBSET Bit /\ b \in Bit /\ b \notin 0 .. k - 1
    BY <2>3, <2>5
  <2> HIDE DEF D, high, low
  <2>9. b - k \in Bit /\ (b - k) + k = b /\ k + (b - k) = b /\ b - k \in 0 .. W
    BY <1>0, <2>8
  <2>10. b - k \in Shr(d, k)
    BY <1>2, <2>5, <2>8, <2>9
  <2>11. Shr(d, k) \ {b - k} = Shr(d \ {b}, k)
    <3> SUFFICES ASSUME NEW c \in Bit PROVE c \in Shr(d, k) \ {b - k} <=> c \in Shr(d \ {b}, k)
      BY <1>3
    <3>1. c = b - k <=> c + k = b
      BY <1>0, <2>8
    <3> QED
      BY <1>2, <2>8, <3>1
  <2>12. Unsigned(d) = Pow2[b] + Unsigned(d \ {b})
    BY <2>5, <2>8, UnsignedWith
  <2>13. Unsigned(Shr(d, k)) = Pow2[b - k] + Unsigned(Shr(d \ {b}, k))
    <3>1. Shr(d, k) \in SUBSET Bit
      BY <1>3
    <3> QED
      BY <2>10, <2>11, <3>1, UnsignedWith
  <2>14. Pow2[b] = Pow2[k] * Pow2[b - k]
    <3>1. k \in Nat /\ b - k \in Nat
      BY <1>0, <2>9
    <3>2. Pow2[k + (b - k)] = Pow2[k] * Pow2[b - k]
      BY <1>0, <2>9, <3>1, PowerTimes
    <3> QED
      BY <2>9, <3>2
  <2>15. Pow2[k] \in Int /\ Pow2[b - k] \in Int /\ Unsigned(Shr(d \ {b}, k)) \in Int
    BY <1>0, <1>3, <2>9, PowerNat, UnsignedNat
  <2>16. \A f, g, h \in Int : f * (g + h) = f * g + f * h
    OBVIOUS
  <2>17. Pow2[k] * (Pow2[b - k] + Unsigned(Shr(d \ {b}, k)))
           = Pow2[k] * Pow2[b - k] + Pow2[k] * Unsigned(Shr(d \ {b}, k))
    BY <2>15, <2>16
  <2> QED
    BY <2>3, <2>7, <2>12, <2>13, <2>14, <2>17
<1>6. Unsigned(high) = Pow2[k] * Unsigned(Shr(high, k))
  BY <1>5
<1>7. Shr(high, k) = Shr(a, k)
  <2>1. high \in SUBSET Bit
    OBVIOUS
  <2> SUFFICES ASSUME NEW c \in Bit PROVE c \in Shr(high, k) <=> c \in Shr(a, k)
    BY <1>3
  <2>2. c + k \notin 0 .. k - 1
    BY <1>0
  <2>3. c + k \in high <=> c + k \in a
    BY <2>2
  <2> HIDE DEF high
  <2> QED
    BY <1>2, <2>1, <2>3
<1> HIDE DEF high, D
<1> QED
  BY <1>2, <1>3, <1>4, <1>6, <1>7 DEF low


\* The bits of the number of a word are those in it.
LEMMA DigitIs ==
  ASSUME NEW a \in SUBSET Bit, NEW b \in Bit
  PROVE  (Unsigned(a) \div Pow2[b]) % 2 = 1 <=> b \in a
<1> DEFINE c == Shr(a, b)
           e == Shr(c, 1)
<1>1. b \in 0 .. SIGN /\ 1 \in 0 .. SIGN /\ b \in 0 .. W /\ 1 \in 0 .. W /\ 0 \in Bit /\ 0 .. 1 - 1 = {0} /\ b + 0 = b
  BY DEF Bit, SIGN
<1>2. /\ c \in SUBSET Bit /\ (0 \in c <=> b \in a)
      /\ Unsigned(a) = Unsigned(a \cap 0 .. b - 1) + Pow2[b] * Unsigned(c)
  <2>1. c \in SUBSET Bit /\ (0 \in c <=> 0 + b \in a)
    BY <1>1, ShrDivides
  <2>2. 0 + b = b
    BY <1>1
  <2> QED
    BY <1>1, <2>1, <2>2, ShrDivides
<1>3. e \in SUBSET Bit /\ Unsigned(c) = Unsigned(c \cap {0}) + Pow2[1] * Unsigned(e)
  <2> HIDE DEF c
  <2>1. e \in SUBSET Bit /\ Unsigned(c) = Unsigned(c \cap 0 .. 1 - 1) + Pow2[1] * Unsigned(e)
    BY <1>1, <1>2, ShrDivides
  <2> QED
    BY <1>1, <2>1
<1> HIDE DEF c, e
<1>4. Pow2[1] = 2
  <2>1. Pow2[0 + 1] = 2 * Pow2[0]
    BY <1>1, PowerNext
  <2> QED
    BY <2>1, PowerZero
<1>5. Unsigned(a) \div Pow2[b] = Unsigned(c)
  <2>1. a \cap 0 .. b - 1 \in SUBSET (0 .. b - 1) /\ a \cap 0 .. b - 1 \in SUBSET Bit
    OBVIOUS
  <2>2. Unsigned(a \cap 0 .. b - 1) < Pow2[b]
    BY <1>1, <2>1, UnsignedBelow
  <2>3. /\ Unsigned(a \cap 0 .. b - 1) \in Nat /\ Pow2[b] \in Nat /\ Unsigned(c) \in Nat
        /\ Unsigned(a) \in Nat
    BY <1>1, <1>2, <2>1, PowerNat, UnsignedNat
  <2>4. Pow2[b] * Unsigned(c) \in Int
    BY <2>3
  <2>5. Unsigned(a) = Pow2[b] * Unsigned(c) + Unsigned(a \cap 0 .. b - 1)
    BY <1>2, <2>3, <2>4
  <2> QED
    BY <2>2, <2>3, <2>5, Quotient
<1>6. Unsigned(c \cap {0}) = IF 0 \in c THEN 1 ELSE 0
  <2>1. CASE 0 \in c
    <3>1. c \cap {0} = {0}
      BY <2>1
    <3>2. {0} \in SUBSET Bit /\ 0 \in {0} /\ {0} \ {0} = {}
      BY <1>1
    <3>3. Unsigned({0}) = Pow2[0] + Unsigned({0} \ {0})
      BY <3>2, UnsignedWith
    <3>4. Unsigned({0}) = 1 + 0
      BY <3>2, <3>3, PowerZero, UnsignedNat
    <3>5. Unsigned(c \cap {0}) = Unsigned({0})
      BY <3>1
    <3> QED
      BY <2>1, <3>4, <3>5
  <2>2. CASE 0 \notin c
    <3>1. c \cap {0} = {}
      BY <2>2
    <3> QED
      BY <2>2, <3>1, UnsignedNat
  <2> QED
    BY <2>1, <2>2
<1>7. Unsigned(c) % 2 = Unsigned(c \cap {0})
  <2>1. Unsigned(c \cap {0}) \in 0 .. 1 /\ Unsigned(e) \in Nat /\ Unsigned(c) = 2 * Unsigned(e) + Unsigned(c \cap {0})
        /\ Unsigned(c) \in Nat
    BY <1>2, <1>3, <1>4, <1>6, UnsignedNat
  <2> QED
    BY <2>1, Quotient
<1> QED
  BY <1>2, <1>5, <1>6, <1>7

\* A word and its number determine each other.
LEMMA WordOf ==
  ASSUME NEW a \in SUBSET Bit
  PROVE  Word(Unsigned(a)) = a /\ Unsigned(a) \in 0 .. Pow2[W] - 1
<1>1. Word(Unsigned(a)) = a
  BY DigitIs DEF Word
<1>2. W \in 0 .. W /\ Bit = 0 .. W - 1 /\ Pow2[W] \in Int
  BY PowerNat DEF Bit
<1>3. Unsigned(a) < Pow2[W]
  BY <1>2, UnsignedBelow
<1> QED
  BY <1>1, <1>2, <1>3, UnsignedNat

LEMMA WordIs ==
  ASSUME NEW n \in 0 .. Pow2[W] - 1
  PROVE  Word(n) \in SUBSET Bit /\ Unsigned(Word(n)) = n
<1>1. W \in 0 .. W /\ Bit = 0 .. W - 1
  BY DEF Bit
<1>2. PICK a \in SUBSET Bit : Unsigned(a) = n
  BY <1>1, UnsignedOnto
<1> QED
  BY <1>2, WordOf

LEMMA SameWord ==
  ASSUME NEW a \in SUBSET Bit, NEW c \in SUBSET Bit, Unsigned(a) = Unsigned(c)
  PROVE  a = c
<1>1. Word(Unsigned(a)) = a /\ Word(Unsigned(c)) = c
  BY WordOf
<1> QED
  BY <1>1

\* + wraps around, ~ is the difference to the largest.
LEMMA PlusIs ==
  ASSUME NEW a \in SUBSET Bit, NEW b \in SUBSET Bit
  PROVE  /\ Plus(a, b) \in SUBSET Bit
         /\ Unsigned(Plus(a, b)) = IF Unsigned(a) + Unsigned(b) < Pow2[W] THEN Unsigned(a) + Unsigned(b)
                                   ELSE Unsigned(a) + Unsigned(b) - Pow2[W]
<1> DEFINE sum == Unsigned(a) + Unsigned(b)
           mod == IF sum < Pow2[W] THEN sum ELSE sum - Pow2[W]
<1>1. /\ Unsigned(a) \in 0 .. Pow2[W] - 1 /\ Unsigned(b) \in 0 .. Pow2[W] - 1
      /\ Pow2[W] \in Nat /\ Pow2[W] > 0 /\ sum \in Nat
  <2>1. W \in 0 .. W
    OBVIOUS
  <2> QED
    BY <2>1, WordOf, PowerNat, UnsignedNat
<1>2. mod \in 0 .. Pow2[W] - 1
  BY <1>1
<1>3. sum % Pow2[W] = mod
  <2>1. CASE sum < Pow2[W]
    <3>1. sum = Pow2[W] * 0 + mod
      BY <1>1, <2>1
    <3> QED
      BY <1>1, <1>2, <3>1, Quotient
  <2>2. CASE ~(sum < Pow2[W])
    <3>1. sum = Pow2[W] * 1 + mod
      BY <1>1, <2>2
    <3> QED
      BY <1>1, <1>2, <3>1, Quotient
  <2> QED
    BY <2>1, <2>2
<1>4. Plus(a, b) = Word(mod)
  <2>2. Plus(a, b) = Word(sum % Pow2[W])
    BY DEF Plus
  <2> HIDE DEF mod, sum
  <2> QED
    BY <1>3, <2>2
<1>5. Word(mod) \in SUBSET Bit /\ Unsigned(Word(mod)) = mod
  <2> HIDE DEF mod
  <2> QED
    BY <1>2, WordIs
<1>6. Plus(a, b) \in SUBSET Bit /\ Unsigned(Plus(a, b)) = mod
  <2> HIDE DEF mod
  <2> QED
    BY <1>4, <1>5
<1> QED
  BY <1>1, <1>6

LEMMA NotIs ==
  ASSUME NEW a \in SUBSET Bit
  PROVE  Not(a) \in SUBSET Bit /\ Unsigned(Not(a)) = Pow2[W] - 1 - Unsigned(a)
<1>1. Not(a) \in SUBSET Bit /\ a \cap Not(a) = {} /\ a \cup Not(a) = Bit
  BY DEF Not
<1>2. Unsigned(Bit) = Unsigned(a) + Unsigned(Not(a))
  BY <1>1, UnsignedSplit
<1>3. W \in 0 .. W /\ Bit = 0 .. W - 1
  BY DEF Bit
<1>4. Unsigned(Bit) = Pow2[W] - 1 /\ Pow2[W] \in Nat
  BY <1>3, UnsignedBelow, PowerNat
<1> QED
  BY <1>1, <1>2, <1>4, UnsignedNat

LEMMA OneIs == One \in SUBSET Bit /\ Unsigned(One) = 1 /\ Unsigned(Bit) = Pow2[W] - 1 /\ Bit \in SUBSET Bit
<1>1. 0 \in Bit /\ One \in SUBSET Bit /\ 0 \in One /\ One \ {0} = {}
  BY DEF Bit, One
<1>2. Unsigned(One) = Pow2[0] + Unsigned({})
  BY <1>1, UnsignedWith
<1>3. W \in 0 .. W /\ Bit = 0 .. W - 1
  BY DEF Bit
<1> QED
  BY <1>1, <1>2, <1>3, UnsignedBelow, UnsignedNat, PowerZero

\* The sign of a word.
LEMMA SignedIs ==
  ASSUME NEW a \in SUBSET Bit
  PROVE  /\ Signed(a) = IF SIGN \in a THEN Unsigned(a) - Pow2[W] ELSE Unsigned(a)
         /\ SIGN \in a <=> Unsigned(a) >= Pow2[SIGN]
         /\ Pow2[W] = 2 * Pow2[SIGN] /\ Pow2[SIGN] \in Nat /\ Pow2[SIGN] > 0
         /\ Unsigned(a) \in 0 .. Pow2[W] - 1
<1>1. SIGN \in 0 .. W /\ SIGN + 1 = W /\ Bit = 0 .. SIGN /\ SIGN \in Bit /\ Bit \ {SIGN} = 0 .. SIGN - 1
  BY DEF SIGN, Bit
<1>2. Signed(a) = IF SIGN \in a THEN Unsigned(a) - Pow2[W] ELSE Unsigned(a)
  BY DEF Signed
<1>3. Pow2[W] = 2 * Pow2[SIGN] /\ Pow2[SIGN] \in Nat \ {0}
  BY <1>1, PowerNext
<1>4. SIGN \in a => Unsigned(a) >= Pow2[SIGN]
  <2> SUFFICES ASSUME SIGN \in a PROVE Unsigned(a) >= Pow2[SIGN]
    OBVIOUS
  <2>1. Unsigned(a) = Pow2[SIGN] + Unsigned(a \ {SIGN}) /\ a \ {SIGN} \in SUBSET Bit
    BY UnsignedWith
  <2>2. Unsigned(a \ {SIGN}) \in Nat
    BY <2>1, UnsignedNat
  <2> QED
    BY <1>3, <2>1, <2>2
<1>5. SIGN \notin a => Unsigned(a) < Pow2[SIGN]
  <2> SUFFICES ASSUME SIGN \notin a PROVE Unsigned(a) < Pow2[SIGN]
    OBVIOUS
  <2>1. a \in SUBSET (0 .. SIGN - 1)
    BY <1>1
  <2> QED
    BY <1>1, <2>1, UnsignedBelow
<1> QED
  BY <1>2, <1>3, <1>4, <1>5, WordOf, UnsignedNat

LEMMA SignBit ==
  /\ SIGN \in Bit /\ SIGN \in 0 .. W /\ SIGN + 1 = W /\ Bit = 0 .. SIGN /\ Bit = 0 .. W - 1
  /\ W \in 0 .. W /\ SIGN >= 7
  BY DEF SIGN, Bit

\* The operations stay within the words.
LEMMA Closed ==
  ASSUME NEW a \in SUBSET Bit, NEW b \in SUBSET Bit
  PROVE  /\ Not(a) \in SUBSET Bit /\ Xor(a, b) \in SUBSET Bit /\ Plus(a, b) \in SUBSET Bit
         /\ Bang(a) \in SUBSET Bit /\ negate(a) \in SUBSET Bit
         /\ \A n \in 0 .. SIGN : Sar(a, n) \in SUBSET Bit /\ Shr(a, n) \in SUBSET Bit
<1>1. One \in SUBSET Bit
  BY OneIs
<1>2. /\ Not(a) \in SUBSET Bit /\ Xor(a, b) \in SUBSET Bit /\ Plus(a, b) \in SUBSET Bit
      /\ Bang(a) \in SUBSET Bit
  BY <1>1, PlusIs DEF Not, Xor, Bang, One
<1>3. negate(a) \in SUBSET Bit
  BY <1>1, <1>2, PlusIs DEF negate
<1>4. ASSUME NEW n \in 0 .. SIGN PROVE Sar(a, n) \in SUBSET Bit /\ Shr(a, n) \in SUBSET Bit
  <2>1. Shr(a, n) \in SUBSET Bit
    BY ShrDivides
  <2>2. W - n .. SIGN \in SUBSET Bit
    BY SignBit
  <2> QED
    BY <2>1, <2>2 DEF Sar
<1> QED
  BY <1>2, <1>3, <1>4

LEMMA XorRight ==
  ASSUME NEW a \in SUBSET Bit, NEW b \in SUBSET Bit
  PROVE  bitXor(a, b) = Xor(a, b) /\ Bang(Xor(a, b)) = Truth(a = b)
<1>1. bitXor(a, b) = Xor(a, b)
  BY DEF bitXor, Xor, Not
<1>2. Xor(a, b) = {} <=> a = b
  BY DEF Xor
<1> QED
  BY <1>1, <1>2 DEF Bang, Truth, One

LEMMA EmptyIs ==
  ASSUME NEW a \in SUBSET Bit
  PROVE  /\ a = {} <=> Unsigned(a) = 0
         /\ a = {} <=> Signed(a) = 0
         /\ a = Bit <=> Unsigned(a) = Pow2[W] - 1
<1>1. a = {} <=> Unsigned(a) = 0
  <2>1. {} \in SUBSET Bit
    OBVIOUS
  <2> QED
    BY <2>1, SameWord, UnsignedNat
<1>2. a = Bit <=> Unsigned(a) = Pow2[W] - 1
  BY OneIs, SameWord
<1>3. Signed(a) = 0 <=> Unsigned(a) = 0
  BY SignedIs
<1> QED
  BY <1>1, <1>2, <1>3

LEMMA TminRight == tmin = {SIGN} /\ Signed(tmin) = -Pow2[SIGN]
<1>1. tmin = {SIGN}
  <2>1. {b + SIGN : b \in {0}} = {0 + SIGN}
    OBVIOUS
  <2>2. 0 + SIGN = SIGN
    BY SignBit
  <2>3. Shl(One, SIGN) = {b + SIGN : b \in One} \cap Bit
    BY DEF Shl
  <2> QED
    BY <2>1, <2>2, <2>3, SignBit DEF tmin, One
<1>2. {SIGN} \in SUBSET Bit /\ SIGN \in {SIGN} /\ {SIGN} \ {SIGN} = {}
  BY SignBit
<1>3. Unsigned({SIGN}) = Pow2[SIGN] + Unsigned({})
  BY <1>2, UnsignedWith
<1>4. Unsigned({SIGN}) = Pow2[SIGN]
  BY <1>2, <1>3, UnsignedNat, SignedIs
<1>5. Signed({SIGN}) = Unsigned({SIGN}) - Pow2[W]
  BY <1>2, SignedIs
<1> QED
  BY <1>1, <1>2, <1>4, <1>5, SignedIs

LEMMA OneMore ==
  ASSUME NEW a \in SUBSET Bit
  PROVE  Unsigned(Plus(a, One)) = IF a = Bit THEN 0 ELSE Unsigned(a) + 1
<1>1. Unsigned(a) \in 0 .. Pow2[W] - 1 /\ Pow2[W] \in Nat
  BY WordOf, SignBit, PowerNat
<1> QED
  BY <1>1, EmptyIs, PlusIs, OneIs

LEMMA IsTmaxRight ==
  ASSUME NEW a \in SUBSET Bit
  PROVE  isTmax(a) = Truth(Signed(a) = Pow2[SIGN] - 1)
<1> DEFINE more == Bang(Plus(a, One))
           new == Plus(more, a)
<1>0. Plus(a, One) \in SUBSET Bit /\ One \in SUBSET Bit /\ Not(a) \in SUBSET Bit /\ {} \in SUBSET Bit
      /\ Bit \in SUBSET Bit
  BY Closed, OneIs
<1>1. isTmax(a) = Bang(Xor(Plus(new, One), Not(new)))
  BY DEF isTmax
<1>2. more = IF a = Bit THEN One ELSE {}
  <2>1. Plus(a, One) = {} <=> Unsigned(Plus(a, One)) = 0
    BY <1>0, EmptyIs
  <2>2. Unsigned(a) \in Nat
    BY UnsignedNat
  <2>3. Plus(a, One) = {} <=> a = Bit
    BY <2>1, <2>2, OneMore
  <2> QED
    BY <2>3 DEF Bang, One
<1>3. Pow2[W] = 2 * Pow2[SIGN] /\ Pow2[SIGN] \in Nat /\ Pow2[SIGN] >= 2
  <2>1. Pow2[SIGN] = 2 * Pow2[SIGN - 1] /\ Pow2[SIGN - 1] \in Nat \ {0}
    <3>1. SIGN - 1 \in 0 .. W /\ (SIGN - 1) + 1 = SIGN
      BY SignBit
    <3> QED
      BY <3>1, PowerNext
  <2> QED
    BY <2>1, SignedIs
<1>4. CASE a = Bit
  <2>1. new = {}
    <3>1. Unsigned(Plus(One, a)) = 0
      BY <1>0, <1>3, <1>4, PlusIs, OneIs
    <3>2. Plus(One, a) \in SUBSET Bit
      BY <1>0, Closed
    <3> QED
      BY <1>2, <1>4, <3>1, <3>2, EmptyIs
  <2>2. Unsigned(Plus({}, One)) = 1 /\ Unsigned(Not({})) = Pow2[W] - 1
    <3>1. {} # Bit
      BY SignBit
    <3> QED
      BY <1>0, <3>1, OneMore, NotIs, UnsignedNat, <1>3
  <2>3. Plus({}, One) # Not({})
    BY <1>3, <2>2
  <2>4. Bang(Xor(Plus({}, One), Not({}))) = Truth(FALSE)
    <3>1. Plus({}, One) \in SUBSET Bit /\ Not({}) \in SUBSET Bit
      BY <1>0, Closed
    <3> QED
      BY <2>3, <3>1, XorRight DEF Truth
  <2>5. Signed(a) = -1
    BY <1>3, <1>4, OneIs, SignedIs, SignBit
  <2>6. Signed(a) # Pow2[SIGN] - 1
    BY <1>3, <2>5
  <2> HIDE DEF new
  <2> QED
    BY <1>1, <2>1, <2>4, <2>6 DEF Truth
<1>5. CASE a # Bit
  <2>1. new = a
    <3>1. Unsigned(Plus({}, a)) = Unsigned(a)
      BY <1>0, PlusIs, UnsignedNat, SignedIs
    <3>2. Plus({}, a) \in SUBSET Bit
      BY <1>0, Closed
    <3>3. Plus({}, a) = a
      BY <3>1, <3>2, SameWord
    <3> QED
      BY <1>2, <1>5, <3>3
  <2>2. Unsigned(Plus(a, One)) = Unsigned(a) + 1 /\ Unsigned(Not(a)) = Pow2[W] - 1 - Unsigned(a)
    BY <1>5, OneMore, NotIs
  <2>3. Plus(a, One) = Not(a) <=> Unsigned(a) + 1 = Pow2[W] - 1 - Unsigned(a)
    BY <1>0, <2>2, SameWord
  <2>4. Unsigned(a) + 1 = Pow2[W] - 1 - Unsigned(a) <=> Unsigned(a) = Pow2[SIGN] - 1
    BY <1>3, SignedIs
  <2>5. Signed(a) = Pow2[SIGN] - 1 <=> Unsigned(a) = Pow2[SIGN] - 1
    BY <1>3, SignedIs
  <2>6. Bang(Xor(Plus(a, One), Not(a))) = Truth(Plus(a, One) = Not(a))
    BY <1>0, XorRight
  <2>7. Plus(a, One) = Not(a) <=> Signed(a) = Pow2[SIGN] - 1
    BY <2>3, <2>4, <2>5
  <2> HIDE DEF new
  <2> QED
    BY <1>1, <2>1, <2>6, <2>7 DEF Truth
<1> QED
  BY <1>4, <1>5

LEMMA AllOddBitsRight ==
  ASSUME NEW a \in SUBSET Bit
  PROVE  allOddBits(a) = Truth(\A b \in Bit : b % 2 = 1 => b \in a)
<1>1. OddBits \cap a \in SUBSET Bit /\ OddBits \in SUBSET Bit
  BY DEF OddBits
<1>2. Bang(Xor(OddBits \cap a, OddBits)) = Truth(OddBits \cap a = OddBits)
  BY <1>1, XorRight
<1>3. OddBits \cap a = OddBits <=> \A b \in Bit : b % 2 = 1 => b \in a
  BY DEF OddBits
<1> QED
  BY <1>2, <1>3 DEF allOddBits, Truth

LEMMA NegateIs ==
  ASSUME NEW a \in SUBSET Bit
  PROVE  Unsigned(negate(a)) = IF a = {} THEN 0 ELSE Pow2[W] - Unsigned(a)
<1>1. Not(a) \in SUBSET Bit /\ Unsigned(Not(a)) = Pow2[W] - 1 - Unsigned(a)
  BY NotIs
<1>2. Not(a) = Bit <=> Unsigned(Not(a)) = Pow2[W] - 1
  BY <1>1, EmptyIs
<1>3. Not(a) = Bit <=> Unsigned(a) = 0
  BY <1>1, <1>2, SignedIs
<1>4. Unsigned(Plus(Not(a), One)) = IF Not(a) = Bit THEN 0 ELSE Unsigned(Not(a)) + 1
  BY <1>1, OneMore
<1> QED
  BY <1>1, <1>3, <1>4, SignedIs, EmptyIs DEF negate

LEMMA NegateRight ==
  ASSUME NEW a \in SUBSET Bit
  PROVE  negate(a) = Word((Pow2[W] - Signed(a)) % Pow2[W])
<1>1. Pow2[W] \in Nat /\ Pow2[W] > 0 /\ Unsigned(a) \in 0 .. Pow2[W] - 1
  BY SignedIs
<1>2. Signed(a) \in Int /\ Pow2[W] - Signed(a) \in Nat
  BY <1>1, SignedIs
<1> DEFINE n == Pow2[W] - Signed(a)
           r == IF a = {} THEN 0 ELSE Pow2[W] - Unsigned(a)
<1>3. n % Pow2[W] = r
  <2>1. r \in Nat /\ r < Pow2[W]
    BY <1>1, EmptyIs
  <2>2. CASE a = {}
    <3>1. Signed(a) = 0
      BY <2>2, EmptyIs
    <3>2. n = Pow2[W] * 1 + r
      BY <1>1, <2>2, <3>1
    <3> HIDE DEF n, r
    <3> QED
      BY <1>1, <2>1, <3>2, Quotient
  <2>3. CASE a # {} /\ SIGN \in a
    <3>1. n = Pow2[W] * 1 + r
      BY <1>1, <2>3, SignedIs
    <3>2. n \in Nat
      BY <1>2
    <3> HIDE DEF n, r
    <3> QED
      BY <1>1, <2>1, <3>1, <3>2, Quotient
  <2>4. CASE a # {} /\ SIGN \notin a
    <3>1. n = Pow2[W] * 0 + r
      BY <1>1, <2>4, SignedIs
    <3>2. n \in Nat
      BY <1>2
    <3> HIDE DEF n, r
    <3> QED
      BY <1>1, <2>1, <3>1, <3>2, Quotient
  <2> QED
    BY <2>2, <2>3, <2>4
<1>4. negate(a) \in SUBSET Bit /\ Unsigned(negate(a)) = r
  BY NegateIs, Closed
<1> HIDE DEF r
<1>5. Word(r) = negate(a)
  BY <1>4, WordOf
<1> QED
  BY <1>1, <1>3, <1>5

LEMMA SmallPowers ==
  /\ Pow2[1] = 2 /\ Pow2[3] = 8
  /\ Pow2[SIGN] \in Nat /\ Pow2[SIGN] >= 128
  /\ Pow2[W] \in Nat /\ Pow2[W] >= 256
  /\ \A n \in 0 .. 31 : n \in 0 .. Pow2[W] - 1
<1>1. Pow2[0 + 1] = 2 /\ Pow2[1 + 1] = 2 * Pow2[1] /\ Pow2[2 + 1] = 2 * Pow2[2] /\ Pow2[3 + 1] = 2 * Pow2[3]
      /\ Pow2[4 + 1] = 2 * Pow2[4] /\ Pow2[5 + 1] = 2 * Pow2[5] /\ Pow2[6 + 1] = 2 * Pow2[6]
  BY PowerZero, PowerStep
<1>2. Pow2[1] = 2 /\ Pow2[3] = 8 /\ Pow2[7] = 128
  BY <1>1
<1>3. SIGN \in Nat /\ 7 <= SIGN /\ SIGN + 1 = W
  BY SignBit
<1>4. Pow2[SIGN] \in Nat /\ Pow2[SIGN] >= 128 /\ Pow2[W] = 2 * Pow2[SIGN]
  <2>1. Pow2[7] <= Pow2[SIGN]
    BY <1>3, PowerMonotonic
  <2>2. Pow2[SIGN + 1] = 2 * Pow2[SIGN] /\ Pow2[SIGN] \in Nat
    BY <1>3, PowerNext
  <2> QED
    BY <1>2, <1>3, <2>1, <2>2
<1>5. Pow2[W] \in Nat /\ Pow2[W] >= 256
  BY <1>4
<1> QED
  BY <1>2, <1>4, <1>5

\* >> of a word that is not negative gives a number only if the word is in a range.
LEMMA SarIsNumber ==
  ASSUME NEW a \in SUBSET Bit, NEW k \in {1, 3}, NEW n \in 0 .. 31
  PROVE  Sar(a, k) = Word(n) <=> /\ Pow2[k] * n <= Signed(a)
                                 /\ Signed(a) < Pow2[k] * n + Pow2[k]
<1>0. k \in 0 .. SIGN /\ k \in 0 .. W
  BY SignBit
<1>1. k \in 0 .. SIGN /\ Sar(a, k) \in SUBSET Bit /\ Shr(a, k) \in SUBSET Bit /\ k \in 0 .. W
  BY <1>0, Closed
<1>2. Word(n) \in SUBSET Bit /\ Unsigned(Word(n)) = n
  BY SmallPowers, WordIs
<1>3. Pow2[k] \in {2, 8}
  BY SmallPowers
<1>4. CASE SIGN \in a
  <2>1. SIGN \in Sar(a, k)
    BY <1>4, SignBit DEF Sar
  <2>2. SIGN \notin Word(n)
    <3>1. SIGN \in Word(n) <=> n >= Pow2[SIGN]
      BY <1>2, SignedIs
    <3> QED
      BY <3>1, SmallPowers
  <2>3. Signed(a) < 0
    BY <1>4, SignedIs
  <2>4. Pow2[k] * n >= 0 /\ Pow2[k] * n \in Int
    BY <1>3
  <2>5. Signed(a) \in Int
    BY SignedIs
  <2> QED
    BY <2>1, <2>2, <2>3, <2>4, <2>5
<1>5. CASE SIGN \notin a
  <2>1. Sar(a, k) = Shr(a, k)
    BY <1>5 DEF Sar
  <2>2. Unsigned(a) = Unsigned(a \cap 0 .. k - 1) + Pow2[k] * Unsigned(Shr(a, k))
    BY <1>1, ShrDivides
  <2>3. Unsigned(a \cap 0 .. k - 1) \in Nat /\ Unsigned(a \cap 0 .. k - 1) < Pow2[k]
    <3>1. a \cap 0 .. k - 1 \in SUBSET (0 .. k - 1) /\ a \cap 0 .. k - 1 \in SUBSET Bit
      OBVIOUS
    <3> QED
      BY <1>1, <3>1, UnsignedNat, UnsignedBelow
  <2>4. Signed(a) = Unsigned(a)
    BY <1>5, SignedIs
  <2>5. Shr(a, k) = Word(n) <=> Unsigned(Shr(a, k)) = n
    BY <1>1, <1>2, SameWord
  <2>6. Unsigned(Shr(a, k)) \in Nat
    BY <1>1, UnsignedNat
  <2>7. \A low, p \in Nat, q \in {2, 8} : low < q => (p = n <=> q * n <= low + q * p /\ low + q * p < q * n + q)
    OBVIOUS
  <2>8. Unsigned(Shr(a, k)) = n <=> Pow2[k] * n <= Unsigned(a) /\ Unsigned(a) < Pow2[k] * n + Pow2[k]
    BY <1>3, <2>2, <2>3, <2>6, <2>7
  <2> QED
    BY <2>1, <2>4, <2>5, <2>8
<1> QED
  BY <1>4, <1>5

LEMMA IsAsciiDigitRight ==
  ASSUME NEW a \in SUBSET Bit
  PROVE  isAsciiDigit(a) = Truth(48 <= Signed(a) /\ Signed(a) <= 57)
<1>1. Sar(a, 3) = Word(6) <=> 48 <= Signed(a) /\ Signed(a) < 56
  <2>1. Sar(a, 3) = Word(6) <=> Pow2[3] * 6 <= Signed(a) /\ Signed(a) < Pow2[3] * 6 + Pow2[3]
    BY SarIsNumber
  <2>2. Pow2[3] * 6 = 48 /\ Pow2[3] * 6 + Pow2[3] = 56
    BY SmallPowers
  <2> QED
    BY <2>1, <2>2
<1>2. Sar(a, 1) = Word(28) <=> 56 <= Signed(a) /\ Signed(a) < 58
  <2>1. Sar(a, 1) = Word(28) <=> Pow2[1] * 28 <= Signed(a) /\ Signed(a) < Pow2[1] * 28 + Pow2[1]
    BY SarIsNumber
  <2>2. Pow2[1] * 28 = 56 /\ Pow2[1] * 28 + Pow2[1] = 58
    BY SmallPowers
  <2> QED
    BY <2>1, <2>2
<1>3. /\ Sar(a, 3) \in SUBSET Bit /\ Sar(a, 1) \in SUBSET Bit
      /\ Word(6) \in SUBSET Bit /\ Word(28) \in SUBSET Bit
  <2>1. 3 \in 0 .. SIGN /\ 1 \in 0 .. SIGN
    BY SignBit
  <2>2. 6 \in 0 .. Pow2[W] - 1 /\ 28 \in 0 .. Pow2[W] - 1
    BY SmallPowers
  <2> QED
    BY <2>1, <2>2, Closed, WordIs
<1>4. /\ Bang(Xor(Sar(a, 3), Word(6))) = Truth(Sar(a, 3) = Word(6))
      /\ Bang(Xor(Sar(a, 1), Word(28))) = Truth(Sar(a, 1) = Word(28))
  BY <1>3, XorRight
<1>5. Signed(a) \in Int
  BY SignedIs
<1>6. (Sar(a, 3) = Word(6) \/ Sar(a, 1) = Word(28)) <=> 48 <= Signed(a) /\ Signed(a) <= 57
  BY <1>1, <1>2, <1>5
<1> QED
  BY <1>4, <1>6 DEF isAsciiDigit, Truth

LEMMA ConditionalRight ==
  ASSUME NEW a \in SUBSET Bit, NEW b \in SUBSET Bit, NEW c \in SUBSET Bit
  PROVE  conditional(a, b, c) = IF Signed(a) # 0 THEN b ELSE c
<1> DEFINE mask == negate(Bang(a))
<1>1. conditional(a, b, c) = (Not(mask) \cap b) \cup (mask \cap c)
  BY DEF conditional, negate
<1>2. mask = IF a = {} THEN Bit ELSE {}
  <2>1. Bang(a) \in SUBSET Bit /\ mask \in SUBSET Bit /\ One \in SUBSET Bit
    BY Closed, OneIs
  <2>2. Unsigned(mask) = IF Bang(a) = {} THEN 0 ELSE Pow2[W] - Unsigned(Bang(a))
    BY <2>1, NegateIs
  <2>3. CASE a = {}
    <3>1. Bang(a) = One
      BY <2>3 DEF Bang, One
    <3>2. Unsigned(mask) = Pow2[W] - 1
      BY <2>2, <3>1, OneIs DEF One
    <3> QED
      BY <2>1, <2>3, <3>2, EmptyIs
  <2>4. CASE a # {}
    <3>1. Bang(a) = {}
      BY <2>4 DEF Bang
    <3>2. Unsigned(mask) = 0
      BY <2>2, <3>1
    <3> QED
      BY <2>1, <2>4, <3>2, EmptyIs
  <2> QED
    BY <2>3, <2>4
<1> HIDE DEF mask
<1>3. a = {} <=> Signed(a) = 0
  BY EmptyIs
<1> QED
  BY <1>1, <1>2, <1>3 DEF Not

\* >> by all but one of the bits gives the sign in every bit.
LEMMA SignEverywhere ==
  ASSUME NEW a \in SUBSET Bit
  PROVE  Sar(a, SIGN) = IF SIGN \in a THEN Bit ELSE {}
<1>1. Shr(a, SIGN) \in SUBSET Bit /\ \A b \in Bit : b \in Shr(a, SIGN) <=> b + SIGN \in a
  <2>1. SIGN \in 0 .. SIGN
    BY SignBit
  <2> QED
    BY <2>1, ShrDivides
<1>2. \A b \in Bit : b + SIGN \in a <=> b = 0 /\ SIGN \in a
  <2>1. \A b \in Bit : b # 0 => b + SIGN \notin Bit
    BY SignBit
  <2>2. 0 + SIGN = SIGN
    BY SignBit
  <2> QED
    BY <2>1, <2>2
<1>3. Shr(a, SIGN) = IF SIGN \in a THEN {0} ELSE {}
  <2>1. 0 \in Bit
    BY SignBit
  <2> QED
    BY <1>1, <1>2, <2>1
<1>4. W - SIGN .. SIGN = Bit \ {0} /\ 0 \in Bit
  BY SignBit
<1> QED
  BY <1>3, <1>4 DEF Sar

LEMMA LogicalNegRight ==
  ASSUME NEW a \in SUBSET Bit
  PROVE  logicalNeg(a) = Truth(Signed(a) = 0)
<1> DEFINE either == a \cup negate(a)
<1>1. negate(a) \in SUBSET Bit /\ either \in SUBSET Bit /\ {} \in SUBSET Bit /\ One \in SUBSET Bit
  BY Closed, OneIs
<1>2. Unsigned(negate(a)) = IF a = {} THEN 0 ELSE Pow2[W] - Unsigned(a)
  BY NegateIs
<1>3. SIGN \in either <=> a # {}
  <2>1. /\ SIGN \in a <=> Unsigned(a) >= Pow2[SIGN]
        /\ SIGN \in negate(a) <=> Unsigned(negate(a)) >= Pow2[SIGN]
        /\ Pow2[W] = 2 * Pow2[SIGN] /\ Pow2[SIGN] \in Nat /\ Pow2[SIGN] > 0 /\ Unsigned(a) \in Nat
    BY <1>1, SignedIs
  <2>2. CASE a = {}
    <3>1. SIGN \notin negate(a)
      BY <1>2, <2>1, <2>2
    <3> QED
      BY <2>2, <3>1
  <2>3. CASE a # {}
    <3>1. Unsigned(a) >= Pow2[SIGN] \/ Pow2[W] - Unsigned(a) >= Pow2[SIGN]
      BY <2>1
    <3> QED
      BY <1>2, <2>1, <2>3, <3>1
  <2> QED
    BY <2>2, <2>3
<1>4. logicalNeg(a) = Plus(Sar(either, SIGN), One)
  BY DEF logicalNeg
<1> HIDE DEF either
<1>5. Sar(either, SIGN) = IF a # {} THEN Bit ELSE {}
  BY <1>1, <1>3, SignEverywhere
<1>6. CASE a = {}
  <2>1. Unsigned(Plus({}, One)) = 1
    <3>1. {} # Bit
      BY SignBit
    <3> QED
      BY <1>1, <3>1, OneMore, UnsignedNat
  <2>2. Plus({}, One) = One
    <3>1. Plus({}, One) \in SUBSET Bit
      BY <1>1, Closed
    <3> QED
      BY <1>1, <2>1, <3>1, OneIs, SameWord
  <2> QED
    BY <1>4, <1>5, <1>6, <2>2, EmptyIs DEF Truth
<1>7. CASE a # {}
  <2>1. Unsigned(Plus(Bit, One)) = 0 /\ Plus(Bit, One) \in SUBSET Bit
    BY <1>1, OneIs, OneMore, Closed
  <2>2. Plus(Bit, One) = {}
    BY <2>1, EmptyIs
  <2> QED
    BY <1>4, <1>5, <1>7, <2>2, EmptyIs DEF Truth
<1> QED
  BY <1>6, <1>7

LEMMA IsLessOrEqualRight ==
  ASSUME NEW a \in SUBSET Bit, NEW b \in SUBSET Bit
  PROVE  isLessOrEqual(a, b) = Truth(Signed(a) <= Signed(b))
<1> DEFINE differ == Xor(Sar(a, SIGN), Sar(b, SIGN))
           minus == Plus(b, negate(a))
           cond_1 == differ \cap (Sar(a, SIGN) \cap One)
           cond_2 == Bang(differ) \cap Bang(Sar(minus, SIGN) \cap One)
<1>1. isLessOrEqual(a, b) = cond_1 \cup cond_2
  BY DEF isLessOrEqual
<1>2. negate(a) \in SUBSET Bit /\ minus \in SUBSET Bit
  <2>1. negate(a) \in SUBSET Bit
    BY Closed
  <2> QED
    BY <2>1, Closed
<1>3. /\ Sar(a, SIGN) = IF SIGN \in a THEN Bit ELSE {}
      /\ Sar(b, SIGN) = IF SIGN \in b THEN Bit ELSE {}
      /\ Sar(minus, SIGN) = IF SIGN \in minus THEN Bit ELSE {}
  <2> HIDE DEF minus
  <2> QED
    BY <1>2, SignEverywhere
<1>4. differ = IF SIGN \in a <=> SIGN \in b THEN {} ELSE Bit
  BY <1>3 DEF Xor
<1>5. 0 \in Bit /\ Bit # {} /\ Bit \cap One = One /\ One # {} /\ {0} = One
  BY SignBit DEF One
<1>6. /\ Signed(a) = IF SIGN \in a THEN Unsigned(a) - Pow2[W] ELSE Unsigned(a)
      /\ Signed(b) = IF SIGN \in b THEN Unsigned(b) - Pow2[W] ELSE Unsigned(b)
      /\ SIGN \in a <=> Unsigned(a) >= Pow2[SIGN]
      /\ SIGN \in b <=> Unsigned(b) >= Pow2[SIGN]
      /\ Pow2[W] = 2 * Pow2[SIGN] /\ Pow2[SIGN] \in Nat /\ Pow2[SIGN] > 0
      /\ Unsigned(a) \in 0 .. Pow2[W] - 1 /\ Unsigned(b) \in 0 .. Pow2[W] - 1
  BY SignedIs
<1> HIDE DEF differ
<1>7. CASE ~(SIGN \in a <=> SIGN \in b)
  <2>1. differ = Bit
    BY <1>4, <1>7
  <2>2. cond_2 = {}
    BY <1>5, <2>1 DEF Bang
  <2>3. cond_1 = Truth(SIGN \in a)
    BY <1>3, <1>5, <2>1 DEF Truth
  <2>4. Signed(a) <= Signed(b) <=> SIGN \in a
    BY <1>6, <1>7
  <2> HIDE DEF cond_1, cond_2
  <2> QED
    BY <1>1, <2>2, <2>3, <2>4 DEF Truth
<1>8. CASE SIGN \in a <=> SIGN \in b
  <2>1. differ = {}
    BY <1>4, <1>8
  <2>2. cond_1 = {}
    BY <2>1
  <2>3. cond_2 = Truth(SIGN \notin minus)
    BY <1>3, <1>5, <2>1 DEF Truth, Bang
  <2>4. SIGN \in minus <=> Unsigned(minus) >= Pow2[SIGN]
    <3> HIDE DEF minus
    <3> QED
      BY <1>2, SignedIs
  <2>5. Unsigned(minus) = IF Unsigned(b) < Unsigned(a) THEN Unsigned(b) - Unsigned(a) + Pow2[W]
                          ELSE Unsigned(b) - Unsigned(a)
    <3>1. Unsigned(negate(a)) = IF a = {} THEN 0 ELSE Pow2[W] - Unsigned(a)
      BY NegateIs
    <3>2. Unsigned(minus) = IF Unsigned(b) + Unsigned(negate(a)) < Pow2[W] THEN Unsigned(b) + Unsigned(negate(a))
                            ELSE Unsigned(b) + Unsigned(negate(a)) - Pow2[W]
      BY <1>2, PlusIs
    <3>3. a = {} <=> Unsigned(a) = 0
      BY EmptyIs
    <3> HIDE DEF minus
    <3> QED
      BY <1>6, <3>1, <3>2, <3>3
  <2>6. Signed(a) <= Signed(b) <=> Unsigned(a) <= Unsigned(b)
    BY <1>6, <1>8
  <2> HIDE DEF minus, cond_1, cond_2
  <2>7. SIGN \in minus <=> Unsigned(b) < Unsigned(a)
    <3>1. CASE SIGN \in a
      BY <1>6, <1>8, <2>4, <2>5, <3>1
    <3>2. CASE SIGN \notin a
      BY <1>6, <1>8, <2>4, <2>5, <3>2
    <3> QED
      BY <3>1, <3>2
  <2>8. SIGN \notin minus <=> Signed(a) <= Signed(b)
    BY <1>6, <2>6, <2>7
  <2> QED
    BY <1>1, <2>2, <2>3, <2>8 DEF Truth
<1> QED
  BY <1>7, <1>8

\* The search for the first 1 of w, with s bits left to look in: m places have been shifted out,
\* and only when what is left has a 1.
Narrowed(w, found, s) ==
  /\ found = <<found[1], found[2]>> /\ found[2] \in 0 .. SIGN
  /\ found[1] = Shr(w, found[2])
  /\ s \in Nat /\ s + found[2] <= W /\ found[1] \subseteq 0 .. s - 1
  /\ found[2] = 0 \/ found[1] # {}

LEMMA HalveNarrows ==
  ASSUME NEW w \in SUBSET Bit, SIGN \notin w, NEW found, NEW s \in Nat, NEW h \in Nat,
         Narrowed(w, found, s), h # 0 => s = 2 * h
  PROVE  Narrowed(w, Halve(found, h), IF h = 0 THEN s ELSE h)
<1> DEFINE rest == found[1]
           m == found[2]
<1>1. /\ found = <<rest, m>> /\ m \in 0 .. SIGN /\ rest = Shr(w, m) /\ s + m <= W /\ rest \subseteq 0 .. s - 1
      /\ m = 0 \/ rest # {}
  BY DEF Narrowed
<1> HIDE DEF rest, m
<1>2. rest \in SUBSET Bit /\ \A b \in Bit : b \in rest <=> b + m \in w
  <2>1. m \in 0 .. SIGN
    BY <1>1
  <2>2. Shr(w, m) \in SUBSET Bit /\ \A b \in Bit : b \in Shr(w, m) <=> b + m \in w
    BY <2>1, ShrDivides
  <2> QED
    BY <1>1, <2>2
<1>3. CASE h = 0
  BY <1>3 DEF Halve
<1>4. CASE h # 0
  <2>1. s = 2 * h /\ h \in 0 .. SIGN /\ h + m \in 0 .. SIGN /\ m + h = h + m
    BY <1>1, <1>4, SignBit
  <2>2. Shr(rest, h) \in SUBSET Bit /\ \A b \in Bit : b \in Shr(rest, h) <=> b + h \in rest
    BY <1>2, <2>1, ShrDivides
  <2>3. SIGN \notin rest
    <3>1. SIGN + m \in w <=> SIGN \in rest
      BY <1>2, SignBit
    <3>2. m # 0 => SIGN + m \notin Bit
      BY <1>1, SignBit
    <3>3. SIGN + 0 = SIGN
      BY SignBit
    <3> QED
      BY <3>1, <3>2, <3>3
  <2>4. Sar(rest, h) = Shr(rest, h)
    BY <2>3 DEF Sar
  <2>5. Shr(rest, h) = Shr(w, m + h)
    <3>1. Shr(w, m + h) \in SUBSET Bit /\ \A b \in Bit : b \in Shr(w, m + h) <=> b + (m + h) \in w
      BY <2>1, ShrDivides
    <3>2. ASSUME NEW b \in Bit PROVE b \in Shr(rest, h) <=> b \in Shr(w, m + h)
      <4>1. b \in Shr(rest, h) <=> b + h \in rest
        BY <2>2
      <4>2. (b + h) + m = b + (m + h)
        BY <1>1, <2>1, SignBit
      <4>3. CASE b + h \in Bit
        BY <1>2, <3>1, <4>1, <4>2, <4>3
      <4>4. CASE b + h \notin Bit
        <5>1. b + (m + h) \notin Bit
          BY <1>1, <2>1, <4>4, SignBit
        <5> QED
          BY <1>2, <3>1, <4>1, <4>4, <5>1
      <4> QED
        BY <4>3, <4>4
    <3> QED
      BY <2>2, <3>1, <3>2
  <2>6. Shr(rest, h) \subseteq 0 .. h - 1
    <3>1. ASSUME NEW b \in Shr(rest, h) PROVE b \in 0 .. h - 1
      <4>1. b \in Bit /\ b + h \in 0 .. s - 1
        BY <1>1, <2>2
      <4> QED
        BY <2>1, <4>1, SignBit
    <3> QED
      BY <3>1
  <2>7. CASE Shr(rest, h) # {}
    <3>1. Halve(found, h) = <<Shr(rest, h), m + h>>
      BY <1>4, <2>4, <2>7 DEF Halve, rest, m
    <3>2. h + (m + h) <= W
      BY <1>1, <2>1
    <3>3. Narrowed(w, <<Shr(rest, h), m + h>>, h)
      BY <2>1, <2>5, <2>6, <2>7, <3>2 DEF Narrowed
    <3> QED
      BY <1>4, <3>1, <3>3
  <2>8. CASE Shr(rest, h) = {}
    <3>1. Halve(found, h) = found
      BY <1>4, <2>4, <2>8 DEF Halve, rest
    <3>2. rest \subseteq 0 .. h - 1
      <4>1. ASSUME NEW b \in rest PROVE b \in 0 .. h - 1
        <5>1. b \in 0 .. s - 1
          BY <1>1
        <5>2. CASE b >= h
          <6>1. b - h \in Bit /\ (b - h) + h = b
            BY <1>1, <2>1, <5>1, <5>2, SignBit
          <6> QED
            BY <2>2, <2>8, <6>1
        <5> QED
          BY <2>1, <5>1, <5>2
      <4> QED
        BY <4>1
    <3>3. h + m <= W
      BY <2>1, SignBit
    <3>4. Narrowed(w, found, h)
      BY <1>1, <3>2, <3>3 DEF Narrowed, rest, m
    <3> QED
      BY <1>4, <3>1, <3>4
  <2> QED
    BY <2>7, <2>8
<1> QED
  BY <1>3, <1>4

\* The halves for each width: in the end one bit is left.
LEMMA HalvesAre ==
  /\ W = 8 => Halves = <<4, 2, 1, 0, 0>>
  /\ W = 16 => Halves = <<8, 4, 2, 1, 0>>
  /\ W = 32 => Halves = <<16, 8, 4, 2, 1>>
<1>1. 8 \div 2 = 4 /\ 8 \div 4 = 2 /\ 8 \div 8 = 1 /\ 8 \div 16 = 0 /\ 8 \div 32 = 0
  OBVIOUS
<1>2. 16 \div 2 = 8 /\ 16 \div 4 = 4 /\ 16 \div 8 = 2 /\ 16 \div 16 = 1 /\ 16 \div 32 = 0
  OBVIOUS
<1>3. 32 \div 2 = 16 /\ 32 \div 4 = 8 /\ 32 \div 8 = 4 /\ 32 \div 16 = 2 /\ 32 \div 32 = 1
  OBVIOUS
<1>4. Halves = <<W \div 2, W \div 4, W \div 8, W \div 16, W \div 32>>
  BY DEF Halves
<1> QED
  BY <1>1, <1>2, <1>3, <1>4

LEMMA SearchEnds ==
  ASSUME NEW w \in SUBSET Bit, SIGN \notin w
  PROVE  Narrowed(w, Halve(Halve(Halve(Halve(Halve(<<w, 0>>,
                       Halves[1]), Halves[2]), Halves[3]), Halves[4]), Halves[5]), 1)
<1> DEFINE f0 == <<w, 0>>
           f1 == Halve(f0, Halves[1])
           f2 == Halve(f1, Halves[2])
           f3 == Halve(f2, Halves[3])
           f4 == Halve(f3, Halves[4])
           f5 == Halve(f4, Halves[5])
<1>1. Narrowed(w, f0, W)
  <2>1. Shr(w, 0) = w
    <3>1. Shr(w, 0) \in SUBSET Bit /\ \A b \in Bit : b \in Shr(w, 0) <=> b + 0 \in w
      <4>1. 0 \in 0 .. SIGN
        BY SignBit
      <4> QED
        BY <4>1, ShrDivides
    <3>2. \A b \in Bit : b + 0 = b
      BY SignBit
    <3> QED
      BY <3>1, <3>2
  <2> QED
    BY <2>1, SignBit DEF Narrowed
<1>2. ASSUME NEW found, NEW s \in Nat, NEW h \in Nat, Narrowed(w, found, s), h # 0 => s = 2 * h
      PROVE  Narrowed(w, Halve(found, h), IF h = 0 THEN s ELSE h)
  BY <1>2, HalveNarrows
<1> HIDE DEF f0, f1, f2, f3, f4, f5
<1>3. CASE W = 8
  <2>1. Halves[1] = 4 /\ Halves[2] = 2 /\ Halves[3] = 1 /\ Halves[4] = 0 /\ Halves[5] = 0
    BY <1>3, HalvesAre
  <2>2. Narrowed(w, f1, 4)
    BY <1>1, <1>2, <1>3, <2>1 DEF f1
  <2>3. Narrowed(w, f2, 2)
    BY <1>2, <2>1, <2>2 DEF f2
  <2>4. Narrowed(w, f3, 1)
    BY <1>2, <2>1, <2>3 DEF f3
  <2>5. Narrowed(w, f4, 1)
    BY <1>2, <2>1, <2>4 DEF f4
  <2>6. Narrowed(w, f5, 1)
    BY <1>2, <2>1, <2>5 DEF f5
  <2> QED
    BY <2>6 DEF f5, f4, f3, f2, f1, f0
<1>4. CASE W = 16
  <2>1. Halves[1] = 8 /\ Halves[2] = 4 /\ Halves[3] = 2 /\ Halves[4] = 1 /\ Halves[5] = 0
    BY <1>4, HalvesAre
  <2>2. Narrowed(w, f1, 8)
    BY <1>1, <1>2, <1>4, <2>1 DEF f1
  <2>3. Narrowed(w, f2, 4)
    BY <1>2, <2>1, <2>2 DEF f2
  <2>4. Narrowed(w, f3, 2)
    BY <1>2, <2>1, <2>3 DEF f3
  <2>5. Narrowed(w, f4, 1)
    BY <1>2, <2>1, <2>4 DEF f4
  <2>6. Narrowed(w, f5, 1)
    BY <1>2, <2>1, <2>5 DEF f5
  <2> QED
    BY <2>6 DEF f5, f4, f3, f2, f1, f0
<1>5. CASE W = 32
  <2>1. Halves[1] = 16 /\ Halves[2] = 8 /\ Halves[3] = 4 /\ Halves[4] = 2 /\ Halves[5] = 1
    BY <1>5, HalvesAre
  <2>2. Narrowed(w, f1, 16)
    BY <1>1, <1>2, <1>5, <2>1 DEF f1
  <2>3. Narrowed(w, f2, 8)
    BY <1>2, <2>1, <2>2 DEF f2
  <2>4. Narrowed(w, f3, 4)
    BY <1>2, <2>1, <2>3 DEF f3
  <2>5. Narrowed(w, f4, 2)
    BY <1>2, <2>1, <2>4 DEF f4
  <2>6. Narrowed(w, f5, 1)
    BY <1>2, <2>1, <2>5 DEF f5
  <2> QED
    BY <2>6 DEF f5, f4, f3, f2, f1, f0
<1> QED
  BY <1>3, <1>4, <1>5

\* The word whose first 1 is looked for, and the number it is.
LEMMA Folded ==
  ASSUME NEW a \in SUBSET Bit
  PROVE  LET w == Xor(Sar(a, SIGN), a)
         IN  /\ w \in SUBSET Bit /\ SIGN \notin w
             /\ Unsigned(w) = IF SIGN \in a THEN -Signed(a) - 1 ELSE Signed(a)
<1> DEFINE w == Xor(Sar(a, SIGN), a)
<1>1. w = IF SIGN \in a THEN Not(a) ELSE a
  BY SignEverywhere, SignBit DEF Xor, Not
<1>2. Not(a) \in SUBSET Bit /\ Unsigned(Not(a)) = Pow2[W] - 1 - Unsigned(a)
  BY NotIs
<1>3. w \in SUBSET Bit /\ SIGN \notin w
  BY <1>1 DEF Not
<1> HIDE DEF w
<1>4. Unsigned(w) = IF SIGN \in a THEN -Signed(a) - 1 ELSE Signed(a)
  BY <1>1, <1>2, SignedIs
<1> QED
  BY <1>3, <1>4 DEF w

LEMMA HowManyBitsRight ==
  ASSUME NEW a \in SUBSET Bit
  PROVE  /\ Fits(Signed(a), howManyBits(a))
         /\ howManyBits(a) > 1 => ~Fits(Signed(a), howManyBits(a) - 1)
<1> DEFINE w == Xor(Sar(a, SIGN), a)
           found == Halve(Halve(Halve(Halve(Halve(<<w, 0>>,
                       Halves[1]), Halves[2]), Halves[3]), Halves[4]), Halves[5])
           m == found[2]
           rest == found[1]
<1>1. w \in SUBSET Bit /\ SIGN \notin w /\ Unsigned(w) = IF SIGN \in a THEN -Signed(a) - 1 ELSE Signed(a)
  BY Folded
<1>2. howManyBits(a) = m + Unsigned(rest) + 1
  BY DEF howManyBits
<1> HIDE DEF w
<1>3. Narrowed(w, found, 1)
  BY <1>1, SearchEnds
<1> HIDE DEF found
<1>4. m \in 0 .. SIGN /\ rest = Shr(w, m) /\ rest \subseteq {0} /\ (m = 0 \/ rest # {})
  <2>1. 0 .. 1 - 1 = {0}
    OBVIOUS
  <2> QED
    BY <1>3, <2>1 DEF Narrowed
<1> HIDE DEF m, rest
<1>5. \A b \in Bit : b \in rest <=> b + m \in w
  <2>1. m \in 0 .. SIGN
    BY <1>4
  <2>2. \A b \in Bit : b \in Shr(w, m) <=> b + m \in w
    BY <1>1, <2>1, ShrDivides
  <2> QED
    BY <1>4, <2>2
<1>6. w \subseteq 0 .. m
  <2>1. ASSUME NEW b \in w PROVE b \in 0 .. m
    <3>1. b \in Bit
      BY <1>1
    <3>2. CASE b > m
      <4>1. b - m \in Bit /\ (b - m) + m = b
        BY <1>4, <3>1, <3>2, SignBit
      <4>2. b - m \in rest
        BY <1>5, <4>1
      <4> QED
        BY <1>4, <3>1, <3>2, <4>2, SignBit
    <3> QED
      BY <1>4, <3>1, <3>2, SignBit
  <2> QED
    BY <2>1
<1>7. \A n \in 0 .. W : Pow2[n] \in Nat
  BY PowerNat
<1>8. Signed(a) \in Int /\ Unsigned(w) \in Nat /\ (SIGN \in a <=> Signed(a) < 0)
  BY <1>1, SignedIs, UnsignedNat
<1>9. ASSUME NEW n \in 0 .. W
      PROVE  Fits(Signed(a), n + 1) <=> Unsigned(w) < Pow2[n]
  <2>1. (n + 1) - 1 = n
    OBVIOUS
  <2>2. Fits(Signed(a), n + 1) <=> -Pow2[n] <= Signed(a) /\ Signed(a) < Pow2[n]
    BY <1>7, <2>1 DEF Fits
  <2> QED
    BY <1>1, <1>7, <1>8, <2>2
<1>10. CASE rest = {}
  <2>1. m = 0 /\ howManyBits(a) = 0 + 1
    BY <1>2, <1>4, <1>10, UnsignedNat
  <2>2. 0 \notin w
    <3>1. 0 \in Bit /\ 0 + 0 = 0
      BY SignBit
    <3> QED
      BY <1>5, <1>10, <2>1, <3>1
  <2>3. w = {}
    <3>1. 0 .. 0 = {0}
      OBVIOUS
    <3> QED
      BY <1>6, <2>1, <2>2, <3>1
  <2>4. Unsigned(w) < Pow2[0]
    BY <2>3, PowerZero, UnsignedNat
  <2>5. 0 \in 0 .. W
    BY SignBit
  <2> QED
    BY <1>9, <2>1, <2>4, <2>5
<1>11. CASE rest = {0}
  <2>1. Unsigned(rest) = 1
    <3>1. rest = One
      BY <1>11 DEF One
    <3> QED
      BY <3>1, OneIs
  <2>2. howManyBits(a) = (m + 1) + 1 /\ howManyBits(a) - 1 = m + 1
    BY <1>2, <1>4, <2>1
  <2>3. m + 1 \in 0 .. W /\ m \in 0 .. W /\ m \in Bit /\ (m + 1) - 1 = m
    BY <1>4, SignBit
  <2>4. m \in w
    <3>1. 0 \in Bit /\ 0 + m = m
      BY <1>4, SignBit
    <3> QED
      BY <1>5, <1>11, <3>1
  <2>5. Unsigned(w) < Pow2[m + 1]
    <3>1. w \in SUBSET (0 .. (m + 1) - 1)
      BY <1>6, <2>3
    <3> QED
      BY <2>3, <3>1, UnsignedBelow
  <2>6. Unsigned(w) >= Pow2[m]
    <3>1. Unsigned(w) = Pow2[m] + Unsigned(w \ {m}) /\ w \ {m} \in SUBSET Bit
      BY <1>1, <2>4, UnsignedWith
    <3>2. Unsigned(w \ {m}) \in Nat
      BY <3>1, UnsignedNat
    <3> QED
      BY <1>7, <2>3, <3>1, <3>2
  <2>7. Fits(Signed(a), (m + 1) + 1)
    BY <1>9, <2>3, <2>5
  <2>8. ~Fits(Signed(a), m + 1)
    BY <1>7, <1>8, <1>9, <2>3, <2>6
  <2> QED
    BY <2>2, <2>7, <2>8
<1> QED
  BY <1>4, <1>10, <1>11

LEMMA IntegersAreRight ==
  ASSUME x \in SUBSET Bit, y \in SUBSET Bit, z \in SUBSET Bit
  PROVE  IntegersRight
<1>2. bitXor(x, y) = Xor(x, y)
  BY XorRight
<1>3. isTmax(x) = Truth(Signed(x) = MAXINT) /\ Signed(tmin) = -Pow2[SIGN]
  BY IsTmaxRight, TminRight DEF MAXINT
<1>4. allOddBits(x) = Truth(\A b \in Bit : b % 2 = 1 => b \in x)
  BY AllOddBitsRight
<1>5. negate(x) = Word((Pow2[W] - Signed(x)) % Pow2[W])
  BY NegateRight
<1>6. isAsciiDigit(x) = Truth(48 <= Signed(x) /\ Signed(x) <= 57)
  BY IsAsciiDigitRight
<1>7. conditional(x, y, z) = IF Signed(x) # 0 THEN y ELSE z
  BY ConditionalRight
<1>8. isLessOrEqual(x, y) = Truth(Signed(x) <= Signed(y))
  BY IsLessOrEqualRight
<1>9. logicalNeg(x) = Truth(Signed(x) = 0)
  BY LogicalNegRight
<1>10. Fits(Signed(x), howManyBits(x)) /\ (howManyBits(x) > 1 => ~Fits(Signed(x), howManyBits(x) - 1))
  BY HowManyBitsRight
<1> QED
  BY <1>2, <1>3, <1>4, <1>5, <1>6, <1>7, <1>8, <1>9, <1>10 DEF IntegersRight

\* The places of the parts of a float.
LEMMA FloatParts ==
  /\ FRAC \in Nat /\ FRAC >= 1 /\ FRAC + EXP = SIGN /\ EXP \in Nat /\ EXP >= 2
  /\ SIGN \in Nat /\ W \in Nat /\ SIGN + 1 = W /\ Bit = 0 .. SIGN
  /\ 0 .. FRAC - 1 \in SUBSET Bit /\ AllOnes = 0 .. EXP - 1 /\ AllOnes \in SUBSET Bit
  /\ EXP \in 0 .. W /\ FRAC \in 0 .. SIGN /\ FRAC \in 0 .. W
  BY DEF FRAC, SIGN, Bit, AllOnes

LEMMA BiasIs ==
  /\ BIAS \in Nat /\ BIAS >= 1 /\ Pow2[EXP] = 2 * BIAS + 2 /\ Pow2[EXP - 1] = BIAS + 1
  /\ UNIT = Pow2[BIAS - 1 + FRAC] /\ BIAS - 1 + FRAC \in Nat
<1>1. EXP - 1 \in Nat /\ (EXP - 1) + 1 = EXP /\ EXP - 1 >= 1
  BY FloatParts
<1>2. Pow2[EXP] = 2 * Pow2[EXP - 1] /\ Pow2[EXP - 1] \in Nat
  <2>1. Pow2[(EXP - 1) + 1] = 2 * Pow2[EXP - 1] /\ Pow2[EXP - 1] \in Nat
    BY <1>1, PowerNext
  <2> QED
    BY <1>1, <2>1
<1>3. Pow2[EXP - 1] >= 2
  <2>1. Pow2[1] <= Pow2[EXP - 1]
    BY <1>1, PowerMonotonic
  <2> QED
    BY <1>2, <2>1, SmallPowers
<1>4. BIAS = Pow2[EXP - 1] - 1
  BY DEF BIAS
<1>5. BIAS \in Nat /\ BIAS >= 1
  BY <1>2, <1>3, <1>4
<1>6. BIAS - 1 + FRAC \in Nat
  BY <1>5, FloatParts
<1> QED
  BY <1>2, <1>4, <1>5, <1>6 DEF UNIT

LEMMA ShlIs ==
  ASSUME NEW a \in SUBSET Bit, NEW k \in Nat
  PROVE  Shl(a, k) \in SUBSET Bit /\ \A b \in Bit : b \in Shl(a, k) <=> b - k \in a
<1>1. Shl(a, k) = {b + k : b \in a} \cap Bit
  BY DEF Shl
<1>2. \A b \in Bit : b \in Int
  BY FloatParts
<1>3. ASSUME NEW b \in Bit PROVE b \in Shl(a, k) <=> b - k \in a
  <2>1. ASSUME b \in Shl(a, k) PROVE b - k \in a
    <3>1. PICK c \in a : b = c + k
      BY <1>1, <2>1
    <3>2. c \in Int
      BY <1>2
    <3>3. b - k = c
      BY <3>1, <3>2
    <3> QED
      BY <3>3
  <2>2. ASSUME b - k \in a PROVE b \in Shl(a, k)
    <3>1. (b - k) + k = b
      BY <1>2
    <3> QED
      BY <1>1, <2>2, <3>1
  <2> QED
    BY <2>1, <2>2
<1> QED
  BY <1>1, <1>3

LEMMA OneBit ==
  ASSUME NEW b \in Bit
  PROVE  {b} \in SUBSET Bit /\ Unsigned({b}) = Pow2[b] /\ Shl(One, b) = {b}
<1>1. {b} \in SUBSET Bit /\ b \in {b} /\ {b} \ {b} = {} /\ b \in Nat
  BY FloatParts
<1>2. Unsigned({b}) = Pow2[b] + Unsigned({})
  <2>1. Unsigned({b}) = Pow2[b] + Unsigned({b} \ {b})
    BY <1>1, UnsignedWith
  <2> QED
    BY <1>1, <2>1
<1>3. Unsigned({b}) = Pow2[b]
  BY <1>1, <1>2, UnsignedNat, PowerNext
<1>4. Shl(One, b) = {b}
  <2>1. Shl(One, b) \in SUBSET Bit /\ \A c \in Bit : c \in Shl(One, b) <=> c - b \in One
    BY <1>1, OneIs, ShlIs
  <2>2. \A c \in Bit : c - b \in One <=> c = b
    BY <1>1, FloatParts DEF One
  <2> QED
    BY <1>1, <2>1, <2>2
<1> QED
  BY <1>1, <1>3, <1>4

\* Words without a common bit are added without a carry.
LEMMA PlusDisjoint ==
  ASSUME NEW a \in SUBSET Bit, NEW b \in SUBSET Bit, a \cap b = {}
  PROVE  Plus(a, b) = a \cup b
<1>1. Unsigned(a \cup b) = Unsigned(a) + Unsigned(b) /\ a \cup b \in SUBSET Bit
  BY UnsignedSplit
<1>2. Unsigned(a) + Unsigned(b) < Pow2[W]
  BY <1>1, SignedIs
<1>3. Plus(a, b) \in SUBSET Bit /\ Unsigned(Plus(a, b)) = Unsigned(a) + Unsigned(b)
  BY <1>2, PlusIs
<1> QED
  BY <1>1, <1>3, SameWord

\* What a float is made of.
Ex(f) == Unsigned(Exponent(f))
Fr(f) == Unsigned(Fraction(f))

LEMMA ExponentIs ==
  ASSUME NEW f \in SUBSET Bit
  PROVE  /\ Exponent(f) \in SUBSET AllOnes
         /\ \A b \in AllOnes : b \in Exponent(f) <=> b + FRAC \in f
         /\ Fraction(f) \in SUBSET (0 .. FRAC - 1)
<1>1. Shl(f, 1) \in SUBSET Bit /\ \A b \in Bit : b \in Shl(f, 1) <=> b - 1 \in f
  BY ShlIs
<1>2. FRAC + 1 \in 0 .. SIGN
  BY FloatParts
<1>3. Exponent(f) \in SUBSET Bit /\ \A b \in Bit : b \in Exponent(f) <=> b + (FRAC + 1) \in Shl(f, 1)
  BY <1>1, <1>2, ShrDivides DEF Exponent
<1>4. ASSUME NEW b \in Bit PROVE b \in Exponent(f) <=> b \in AllOnes /\ b + FRAC \in f
  <2>1. (b + (FRAC + 1)) - 1 = b + FRAC
    BY FloatParts
  <2>2. b + (FRAC + 1) \in Bit <=> b \in AllOnes
    BY FloatParts
  <2> QED
    BY <1>1, <1>3, <2>1, <2>2
<1>5. AllOnes \in SUBSET Bit
  BY FloatParts
<1>6. Fraction(f) \in SUBSET (0 .. FRAC - 1)
  BY DEF Fraction
<1> QED
  BY <1>3, <1>4, <1>5, <1>6

\* The bits below the sign are the exponent and the fraction, one after the other.
LEMMA Magnitude ==
  ASSUME NEW f \in SUBSET Bit
  PROVE  /\ f \ {SIGN} \in SUBSET Bit
         /\ Unsigned(f \ {SIGN}) = Fr(f) + Pow2[FRAC] * Ex(f)
         /\ Fr(f) \in Nat /\ Fr(f) < Pow2[FRAC]
         /\ Ex(f) \in Nat /\ Ex(f) < Pow2[EXP]
         /\ Pow2[FRAC] \in Nat
<1> DEFINE m == f \ {SIGN}
<1>1. m \in SUBSET Bit /\ m \cap 0 .. FRAC - 1 = Fraction(f)
  <2>1. SIGN \notin 0 .. FRAC - 1
    BY FloatParts
  <2> QED
    BY <2>1 DEF Fraction
<1>2. Shr(m, FRAC) = Exponent(f)
  <2>1. Shr(m, FRAC) \in SUBSET Bit /\ \A b \in Bit : b \in Shr(m, FRAC) <=> b + FRAC \in m
    <3> HIDE DEF m
    <3> QED
      BY <1>1, FloatParts, ShrDivides
  <2>2. ASSUME NEW b \in Bit PROVE b + FRAC \in m <=> b \in Exponent(f)
    <3>1. CASE b \in AllOnes
      <4>1. b + FRAC # SIGN
        BY <3>1, FloatParts
      <4> QED
        BY <3>1, <4>1, ExponentIs
    <3>2. CASE b \notin AllOnes
      <4>1. b + FRAC = SIGN \/ b + FRAC \notin Bit
        BY <3>2, FloatParts
      <4> QED
        BY <3>2, <4>1, ExponentIs
    <3> QED
      BY <3>1, <3>2
  <2>3. Exponent(f) \in SUBSET Bit
    BY ExponentIs, FloatParts
  <2> QED
    BY <2>1, <2>2, <2>3
<1>3. Unsigned(m) = Fr(f) + Pow2[FRAC] * Ex(f)
  <2>1. Unsigned(m) = Unsigned(m \cap 0 .. FRAC - 1) + Pow2[FRAC] * Unsigned(Shr(m, FRAC))
    <3> HIDE DEF m
    <3> QED
      BY <1>1, FloatParts, ShrDivides
  <2> QED
    BY <1>1, <1>2, <2>1 DEF Fr, Ex
<1>4. Fr(f) \in Nat /\ Fr(f) < Pow2[FRAC]
  <2>1. Fraction(f) \in SUBSET (0 .. FRAC - 1) /\ Fraction(f) \in SUBSET Bit
    BY ExponentIs, FloatParts
  <2> QED
    BY <2>1, FloatParts, UnsignedBelow, UnsignedNat DEF Fr
<1>5. Ex(f) \in Nat /\ Ex(f) < Pow2[EXP]
  <2>1. Exponent(f) \in SUBSET (0 .. EXP - 1) /\ Exponent(f) \in SUBSET Bit
    BY ExponentIs, FloatParts
  <2> QED
    BY <2>1, FloatParts, UnsignedBelow, UnsignedNat DEF Ex
<1>6. Pow2[FRAC] \in Nat
  BY FloatParts, PowerNext
<1> QED
  BY <1>1, <1>3, <1>4, <1>5, <1>6

\* They are given by the number that these bits are.
LEMMA PartsOf ==
  ASSUME NEW f \in SUBSET Bit, NEW r \in Nat, NEW e \in Nat, r < Pow2[FRAC],
         Unsigned(f \ {SIGN}) = r + Pow2[FRAC] * e
  PROVE  Fr(f) = r /\ Ex(f) = e
<1>1. /\ Unsigned(f \ {SIGN}) = Fr(f) + Pow2[FRAC] * Ex(f)
      /\ Fr(f) \in Nat /\ Fr(f) < Pow2[FRAC] /\ Ex(f) \in Nat /\ Pow2[FRAC] \in Nat
      /\ Unsigned(f \ {SIGN}) \in Nat
  BY Magnitude, UnsignedNat
<1>2. Pow2[FRAC] * e \in Int /\ Pow2[FRAC] * Ex(f) \in Int
  BY <1>1
<1>3. /\ Unsigned(f \ {SIGN}) = Pow2[FRAC] * e + r
      /\ Unsigned(f \ {SIGN}) = Pow2[FRAC] * Ex(f) + Fr(f)
  BY <1>1, <1>2
<1>4. Pow2[FRAC] * e + r = Pow2[FRAC] * Ex(f) + Fr(f)
  BY <1>3
<1>5. Fr(f) \in Nat /\ Fr(f) < Pow2[FRAC] /\ Ex(f) \in Nat /\ Pow2[FRAC] \in Nat /\ r < Pow2[FRAC]
  BY <1>1
<1> DEFINE w == Pow2[FRAC]
           p == Ex(f)
           s == Fr(f)
<1>6. w \in Nat /\ p \in Nat /\ s \in Nat /\ r < w /\ s < w /\ w * e + r = w * p + s
  BY <1>4, <1>5
<1> HIDE DEF w, p, s
<1>7. e = p /\ r = s
  BY <1>6, SameQuotient
<1> QED
  BY <1>7 DEF p, s

LEMMA FloatKinds ==
  ASSUME NEW f \in SUBSET Bit
  PROVE  /\ Finite(f) <=> Ex(f) # 2 * BIAS + 1
         /\ Exponent(f) = {} <=> Ex(f) = 0
         /\ Fraction(f) = {} <=> Fr(f) = 0
         /\ Ex(f) \in 0 .. 2 * BIAS + 1
<1>1. Exponent(f) \in SUBSET Bit /\ Fraction(f) \in SUBSET Bit /\ AllOnes \in SUBSET Bit
  BY ExponentIs, FloatParts
<1>2. Unsigned(AllOnes) = 2 * BIAS + 1
  <2>1. Unsigned(AllOnes) = Pow2[EXP] - 1
    BY FloatParts, UnsignedBelow
  <2> QED
    BY <2>1, BiasIs
<1>3. Finite(f) <=> Ex(f) # 2 * BIAS + 1
  BY <1>1, <1>2, SameWord DEF Finite, Ex
<1>4. Exponent(f) = {} <=> Ex(f) = 0
  BY <1>1, EmptyIs DEF Ex
<1>5. Fraction(f) = {} <=> Fr(f) = 0
  BY <1>1, EmptyIs DEF Fr
<1>6. Ex(f) \in Nat /\ Ex(f) < 2 * BIAS + 2 /\ BIAS \in Nat
  BY Magnitude, BiasIs
<1> QED
  BY <1>3, <1>4, <1>5, <1>6

LEMMA SizeIs ==
  ASSUME NEW f \in SUBSET Bit
  PROVE  Size(f) = IF Ex(f) = 0 THEN Fr(f) ELSE (Pow2[FRAC] + Fr(f)) * Pow2[Ex(f) - 1]
  BY FloatKinds DEF Size, Ex, Fr

LEMMA ShlDoubles ==
  ASSUME NEW a \in SUBSET Bit, SIGN \notin a
  PROVE  Shl(a, 1) \in SUBSET Bit /\ 0 \notin Shl(a, 1) /\ Unsigned(Shl(a, 1)) = 2 * Unsigned(a)
<1> DEFINE b == Shl(a, 1)
<1>1. b \in SUBSET Bit /\ \A c \in Bit : c \in b <=> c - 1 \in a
  BY ShlIs
<1>2. 0 \in Bit /\ 0 - 1 \notin Bit /\ 1 \in 0 .. SIGN /\ 0 .. 1 - 1 = {0}
  BY SignBit
<1>3. 0 \notin b
  BY <1>1, <1>2
<1> HIDE DEF b
<1>4. Shr(b, 1) = a
  <2>1. Shr(b, 1) \in SUBSET Bit /\ \A c \in Bit : c \in Shr(b, 1) <=> c + 1 \in b
    BY <1>1, <1>2, ShrDivides
  <2>2. \A c \in Bit : (c + 1) - 1 = c /\ (c # SIGN => c + 1 \in Bit) /\ (c = SIGN => c + 1 \notin Bit)
    BY SignBit
  <2>3. ASSUME NEW c \in Bit PROVE c + 1 \in b <=> c \in a
    <3>1. CASE c = SIGN
      BY <1>1, <2>2, <3>1
    <3>2. CASE c # SIGN
      BY <1>1, <2>2, <3>2
    <3> QED
      BY <3>1, <3>2
  <2> QED
    BY <2>1, <2>3
<1>5. Unsigned(b) = Unsigned(b \cap 0 .. 1 - 1) + Pow2[1] * Unsigned(Shr(b, 1))
  BY <1>1, <1>2, ShrDivides
<1>6. Unsigned(b \cap 0 .. 1 - 1) = 0
  <2>1. b \cap 0 .. 1 - 1 = {}
    BY <1>2, <1>3
  <2> QED
    BY <2>1, UnsignedNat
<1>7. Unsigned(a) \in Nat /\ Pow2[1] = 2
  BY UnsignedNat, SmallPowers
<1> QED
  BY <1>1, <1>3, <1>4, <1>5, <1>6, <1>7 DEF b

\* An exponent of 0: what is below the sign is shifted, perhaps into the exponent.
LEMMA ScaleSmall ==
  ASSUME NEW f \in SUBSET Bit, Ex(f) = 0
  PROVE  /\ floatScale2(f) \in SUBSET Bit /\ (SIGN \in floatScale2(f) <=> SIGN \in f)
         /\ Finite(floatScale2(f)) /\ Size(floatScale2(f)) = 2 * Size(f)
<1> DEFINE r == Fraction(f)
           g == floatScale2(f)
<1>1. Exponent(f) = {} /\ {} # AllOnes
  <2>1. 0 \in AllOnes
    BY FloatParts
  <2> QED
    BY <2>1, FloatKinds
<1>2. g = Plus(Shl(Shr(f, SIGN), SIGN), Shl(f, 1))
  BY <1>1 DEF floatScale2
<1>3. Shl(Shr(f, SIGN), SIGN) = f \cap {SIGN}
  <2>1. Shr(f, SIGN) \in SUBSET Bit /\ \A b \in Bit : b \in Shr(f, SIGN) <=> b + SIGN \in f
    <3>1. SIGN \in 0 .. SIGN
      BY FloatParts
    <3> QED
      BY <3>1, ShrDivides
  <2>2. Shl(Shr(f, SIGN), SIGN) \in SUBSET Bit /\ \A b \in Bit : b \in Shl(Shr(f, SIGN), SIGN) <=> b - SIGN \in Shr(f, SIGN)
    BY <2>1, FloatParts, ShlIs
  <2>3. ASSUME NEW b \in Bit PROVE b - SIGN \in Shr(f, SIGN) <=> b = SIGN /\ b \in f
    <3>1. (b - SIGN) + SIGN = b
      BY FloatParts
    <3>2. b - SIGN \in Bit <=> b = SIGN
      BY FloatParts
    <3> QED
      BY <2>1, <3>1, <3>2
  <2> QED
    BY <2>2, <2>3
<1>4. r \in SUBSET Bit /\ SIGN \notin r /\ Shl(f, 1) = Shl(r, 1) /\ SIGN \notin Shl(r, 1)
  <2>1. r \in SUBSET Bit /\ SIGN \notin r /\ r \subseteq 0 .. FRAC - 1
    BY ExponentIs, FloatParts
  <2>2. f \subseteq r \cup {SIGN}
    <3>1. ASSUME NEW b \in f, b # SIGN PROVE b \in r
      <4>1. CASE b \in 0 .. FRAC - 1
        BY <4>1 DEF Fraction
      <4>2. CASE b \notin 0 .. FRAC - 1
        <5>1. b - FRAC \in AllOnes /\ (b - FRAC) + FRAC = b
          BY <3>1, <4>2, FloatParts
        <5>2. b - FRAC \in Exponent(f)
          BY <5>1, ExponentIs
        <5> QED
          BY <1>1, <5>2
      <4> QED
        BY <4>1, <4>2
    <3> QED
      BY <3>1
  <2>3. /\ Shl(f, 1) \in SUBSET Bit /\ \A b \in Bit : b \in Shl(f, 1) <=> b - 1 \in f
        /\ Shl(r, 1) \in SUBSET Bit /\ \A b \in Bit : b \in Shl(r, 1) <=> b - 1 \in r
    BY <2>1, ShlIs
  <2>4. \A b \in Bit : b - 1 # SIGN
    BY FloatParts
  <2>5. r \subseteq f
    BY DEF Fraction
  <2>6. Shl(f, 1) = Shl(r, 1)
    BY <2>2, <2>3, <2>4, <2>5
  <2>7. SIGN - 1 \notin r
    BY <2>1, FloatParts
  <2>8. SIGN \in Bit
    BY FloatParts
  <2> QED
    BY <2>1, <2>3, <2>6, <2>7, <2>8
<1>5. Shl(r, 1) \in SUBSET Bit /\ Unsigned(Shl(r, 1)) = 2 * Fr(f)
  BY <1>4, ShlDoubles DEF Fr
<1> HIDE DEF r
<1>6. g = (f \cap {SIGN}) \cup Shl(r, 1)
  <2>1. f \cap {SIGN} \in SUBSET Bit /\ (f \cap {SIGN}) \cap Shl(r, 1) = {}
    BY <1>4
  <2>2. Plus(f \cap {SIGN}, Shl(r, 1)) = (f \cap {SIGN}) \cup Shl(r, 1)
    BY <1>5, <2>1, PlusDisjoint
  <2> HIDE DEF g
  <2> QED
    BY <1>2, <1>3, <1>4, <2>2
<1> HIDE DEF g
<1>7. g \in SUBSET Bit /\ (SIGN \in g <=> SIGN \in f) /\ g \ {SIGN} = Shl(r, 1)
  BY <1>4, <1>5, <1>6
<1>8. Fr(f) \in Nat /\ Fr(f) < Pow2[FRAC] /\ Pow2[FRAC] \in Nat /\ BIAS \in Nat /\ BIAS >= 1
  BY Magnitude, BiasIs
<1>9. Size(f) = Fr(f)
  BY SizeIs
<1>10. CASE 2 * Fr(f) < Pow2[FRAC]
  <2>1. Unsigned(g \ {SIGN}) = 2 * Fr(f) + Pow2[FRAC] * 0
    <3>1. \A a, b \in Nat : 2 * a + b * 0 = 2 * a
      OBVIOUS
    <3> QED
      BY <1>5, <1>7, <1>8, <3>1
  <2>2. Fr(g) = 2 * Fr(f) /\ Ex(g) = 0
    <3> DEFINE twice == 2 * Fr(f)
    <3>1. /\ g \in SUBSET Bit /\ twice \in Nat /\ 0 \in Nat /\ twice < Pow2[FRAC]
          /\ Unsigned(g \ {SIGN}) = twice + Pow2[FRAC] * 0
      BY <1>7, <1>8, <1>10, <2>1
    <3> HIDE DEF twice
    <3>2. Fr(g) = twice /\ Ex(g) = 0
      BY <3>1, PartsOf
    <3> QED
      BY <3>2 DEF twice
  <2>3. Finite(g) /\ Size(g) = 2 * Fr(f)
    BY <1>7, <1>8, <2>2, FloatKinds, SizeIs
  <2> QED
    BY <1>7, <1>9, <2>3 DEF g
<1>11. CASE 2 * Fr(f) >= Pow2[FRAC]
  <2> DEFINE s == 2 * Fr(f) - Pow2[FRAC]
  <2>1. s \in Nat /\ s < Pow2[FRAC] /\ 2 * Fr(f) = s + Pow2[FRAC] * 1 /\ Pow2[FRAC] + s = 2 * Fr(f)
    BY <1>8, <1>11
  <2> HIDE DEF s
  <2>2. Unsigned(g \ {SIGN}) = s + Pow2[FRAC] * 1
    BY <1>5, <1>7, <2>1
  <2>3. Fr(g) = s /\ Ex(g) = 1
    BY <1>7, <2>1, <2>2, PartsOf
  <2>4. Size(g) = (Pow2[FRAC] + s) * Pow2[1 - 1]
    BY <1>7, <2>3, SizeIs
  <2>5. Size(g) = 2 * Fr(f)
    <3>1. Pow2[1 - 1] = 1
      BY PowerZero
    <3> QED
      BY <1>8, <2>1, <2>4, <3>1
  <2>6. Finite(g)
    BY <1>7, <1>8, <2>3, FloatKinds
  <2> QED
    BY <1>7, <1>9, <2>5, <2>6 DEF g
<1> QED
  BY <1>8, <1>10, <1>11

\* Otherwise 1 is added to the exponent.
LEMMA ScaleLarge ==
  ASSUME NEW f \in SUBSET Bit, Ex(f) # 0, Finite(f)
  PROVE  /\ floatScale2(f) \in SUBSET Bit /\ (SIGN \in floatScale2(f) <=> SIGN \in f)
         /\ Fr(floatScale2(f)) = Fr(f) /\ Ex(floatScale2(f)) = Ex(f) + 1
<1> DEFINE g == floatScale2(f)
           m == Unsigned(f \ {SIGN})
<1>1. Exponent(f) # {} /\ Exponent(f) # AllOnes
  BY FloatKinds DEF Finite
<1>2. g = Plus(f, {FRAC})
  <2>1. FRAC \in Bit
    BY FloatParts
  <2> QED
    BY <1>1, <2>1, OneBit DEF floatScale2
<1>3. {FRAC} \in SUBSET Bit /\ Unsigned({FRAC}) = Pow2[FRAC]
  <2>1. FRAC \in Bit
    BY FloatParts
  <2> QED
    BY <2>1, OneBit
<1>4. g \in SUBSET Bit
  BY <1>2, <1>3, PlusIs
<1>5. /\ m = Fr(f) + Pow2[FRAC] * Ex(f) /\ Fr(f) \in Nat /\ Fr(f) < Pow2[FRAC] /\ Pow2[FRAC] \in Nat
      /\ Ex(f) \in 0 .. 2 * BIAS /\ BIAS \in Nat /\ m \in Nat
  <2>1. f \ {SIGN} \in SUBSET Bit
    OBVIOUS
  <2>2. Ex(f) \in 0 .. 2 * BIAS + 1 /\ Ex(f) # 2 * BIAS + 1
    BY FloatKinds
  <2>3. BIAS \in Nat
    BY BiasIs
  <2>4. Ex(f) \in 0 .. 2 * BIAS
    BY <2>2, <2>3
  <2> QED
    BY <2>1, <2>3, <2>4, Magnitude, UnsignedNat
<1>6. Fr(f) + Pow2[FRAC] * (Ex(f) + 1) = m + Pow2[FRAC]
  <2>1. \A a \in Nat, b \in Nat : a * (b + 1) = a * b + a /\ a * b \in Nat
    OBVIOUS
  <2> QED
    BY <1>5, <2>1
<1>7. m + Pow2[FRAC] < Pow2[SIGN] /\ Pow2[SIGN] \in Nat
  <2>1. Pow2[SIGN] = Pow2[FRAC] * (2 * BIAS + 2) /\ Pow2[SIGN] \in Nat
    <3>1. FRAC \in Nat /\ EXP \in Nat /\ SIGN \in Nat /\ FRAC + EXP = SIGN
      BY FloatParts
    <3>2. Pow2[FRAC + EXP] = Pow2[FRAC] * Pow2[EXP]
      BY <3>1, PowerTimes
    <3>3. Pow2[EXP] = 2 * BIAS + 2
      BY BiasIs
    <3> QED
      BY <3>1, <3>2, <3>3, PowerNext
  <2>2. (Ex(f) + 1) * Pow2[FRAC] <= (2 * BIAS + 1) * Pow2[FRAC]
    BY <1>5, TimesMonotonic
  <2>3. /\ Pow2[FRAC] * (2 * BIAS + 2) = (2 * BIAS + 1) * Pow2[FRAC] + Pow2[FRAC]
        /\ Pow2[FRAC] * (Ex(f) + 1) = (Ex(f) + 1) * Pow2[FRAC]
        /\ (2 * BIAS + 1) * Pow2[FRAC] \in Int /\ (Ex(f) + 1) * Pow2[FRAC] \in Int
    <3>1. \A a \in Int, b \in Int : /\ b * (2 * a + 2) = (2 * a + 1) * b + b
                                    /\ b * (a + 1) = (a + 1) * b /\ a * b \in Int
      OBVIOUS
    <3> QED
      BY <1>5, <3>1
  <2> QED
    BY <1>5, <1>6, <2>1, <2>2, <2>3
<1>8. Unsigned(f) = IF SIGN \in f THEN Pow2[SIGN] + m ELSE m
  <2>1. SIGN \notin f => f \ {SIGN} = f
    OBVIOUS
  <2>2. SIGN \in f => Unsigned(f) = Pow2[SIGN] + m
    BY UnsignedWith
  <2> QED
    BY <2>1, <2>2
<1>9. Unsigned(g) = Unsigned(f) + Pow2[FRAC]
  <2>1. Unsigned(f) + Pow2[FRAC] < Pow2[W]
    <3>1. Pow2[W] = 2 * Pow2[SIGN]
      BY SignedIs
    <3> HIDE DEF m
    <3> QED
      BY <1>5, <1>7, <1>8, <3>1
  <2> HIDE DEF g, m
  <2> QED
    BY <1>2, <1>3, <2>1, PlusIs
<1> HIDE DEF g, m
<1>10. SIGN \in g <=> SIGN \in f
  <2>1. SIGN \in g <=> Unsigned(g) >= Pow2[SIGN]
    BY <1>4, SignedIs
  <2> QED
    BY <1>5, <1>7, <1>8, <1>9, <2>1
<1>11. Unsigned(g \ {SIGN}) = m + Pow2[FRAC]
  <2>1. CASE SIGN \in f
    <3>1. Unsigned(g) = Pow2[SIGN] + Unsigned(g \ {SIGN})
      BY <1>4, <1>10, <2>1, UnsignedWith
    <3>2. Unsigned(g \ {SIGN}) \in Nat
      <4>1. g \ {SIGN} \in SUBSET Bit
        BY <1>4
      <4> QED
        BY <4>1, UnsignedNat
    <3>3. Unsigned(f) = Pow2[SIGN] + m
      BY <1>8, <2>1
    <3>4. Pow2[SIGN] + Unsigned(g \ {SIGN}) = (Pow2[SIGN] + m) + Pow2[FRAC]
      BY <1>9, <3>1, <3>3
    <3>5. m \in Nat /\ Pow2[SIGN] \in Nat /\ Pow2[FRAC] \in Nat
      BY <1>5, <1>7
    <3>6. \A a, b, c, d \in Nat : a + b = (a + c) + d => b = c + d
      OBVIOUS
    <3> QED
      BY <3>2, <3>4, <3>5, <3>6
  <2>2. CASE SIGN \notin f
    <3>1. g \ {SIGN} = g
      BY <1>10, <2>2
    <3> QED
      BY <1>8, <1>9, <2>2, <3>1
  <2> QED
    BY <2>1, <2>2
<1>12. Fr(g) = Fr(f) /\ Ex(g) = Ex(f) + 1
  <2>1. Unsigned(g \ {SIGN}) = Fr(f) + Pow2[FRAC] * (Ex(f) + 1) /\ Ex(f) + 1 \in Nat
    BY <1>5, <1>6, <1>11
  <2> QED
    BY <1>4, <1>5, <2>1, PartsOf
<1> QED
  BY <1>4, <1>10, <1>12 DEF g

LEMMA FloatScale2Right ==
  ASSUME NEW f \in SUBSET Bit
  PROVE  LET g == floatScale2(f)
         IN  /\ Finite(f) /\ (Finite(g) \/ Fraction(f) = {})
                  => /\ SIGN \in g <=> SIGN \in f
                     /\ IF Finite(g) THEN Size(g) = 2 * Size(f)
                        ELSE g \ {SIGN} = Infinity /\ 2 * Size(f) >= UNIT * Pow2[BIAS + 1]
             /\ ~Finite(f) => g = f
<1> DEFINE g == floatScale2(f)
<1>1. ~Finite(f) => g = f
  <2>1. AllOnes # {}
    <3>1. 0 \in AllOnes
      BY FloatParts
    <3> QED
      BY <3>1
  <2> QED
    BY <2>1 DEF Finite, floatScale2
<1>2. CASE Ex(f) = 0
  <2>1. Finite(f)
    BY <1>2, FloatKinds, BiasIs
  <2> QED
    BY <1>2, <2>1, ScaleSmall
<1>3. CASE Ex(f) # 0 /\ Finite(f)
  <2>1. g \in SUBSET Bit /\ (SIGN \in g <=> SIGN \in f) /\ Fr(g) = Fr(f) /\ Ex(g) = Ex(f) + 1
    BY <1>3, ScaleLarge
  <2> HIDE DEF g
  <2>2. /\ Ex(f) \in Nat /\ Ex(f) - 1 \in Nat /\ (Ex(f) - 1) + 1 = Ex(f) /\ Ex(g) # 0 /\ (Ex(f) + 1) - 1 = Ex(f)
        /\ Fr(f) \in Nat /\ Pow2[FRAC] \in Nat
    <3>1. Ex(f) \in Nat /\ Fr(f) \in Nat /\ Pow2[FRAC] \in Nat
      BY Magnitude
    <3>2. \A a \in Nat : a # 0 => a - 1 \in Nat /\ (a - 1) + 1 = a /\ a + 1 # 0 /\ (a + 1) - 1 = a
      OBVIOUS
    <3> QED
      BY <1>3, <2>1, <3>1, <3>2
  <2>3. Size(f) = (Pow2[FRAC] + Fr(f)) * Pow2[Ex(f) - 1] /\ Size(g) = (Pow2[FRAC] + Fr(f)) * Pow2[Ex(f)]
    BY <1>3, <2>1, <2>2, SizeIs
  <2>4. Pow2[Ex(f)] = 2 * Pow2[Ex(f) - 1] /\ Pow2[Ex(f) - 1] \in Nat
    <3>1. Pow2[(Ex(f) - 1) + 1] = 2 * Pow2[Ex(f) - 1] /\ Pow2[Ex(f) - 1] \in Nat
      BY <2>2, PowerNext
    <3> QED
      BY <2>2, <3>1
  <2>5. Size(g) = 2 * Size(f)
    <3>1. \A a, b \in Nat : a * (2 * b) = 2 * (a * b)
      OBVIOUS
    <3>2. Pow2[FRAC] + Fr(f) \in Nat
      BY <2>2
    <3> QED
      BY <2>3, <2>4, <3>1, <3>2
  <2>6. ASSUME ~Finite(g), Fraction(f) = {}
        PROVE  g \ {SIGN} = Infinity /\ 2 * Size(f) >= UNIT * Pow2[BIAS + 1]
    <3>1. Ex(f) = 2 * BIAS /\ BIAS \in Nat /\ Fr(f) = 0 /\ Fraction(g) = {}
      <4>1. Ex(f) + 1 = 2 * BIAS + 1 /\ BIAS \in Nat
        BY <2>1, <2>6, FloatKinds, BiasIs
      <4>2. Fr(f) = 0
        BY <2>6, FloatKinds
      <4>3. Fraction(g) = {}
        BY <2>1, <4>2, FloatKinds
      <4> QED
        BY <2>2, <4>1, <4>2, <4>3
    <3>2. g \ {SIGN} = Infinity
      <4>1. \A b \in AllOnes : b + FRAC \in g
        BY <2>1, <2>6, ExponentIs DEF Finite
      <4>2. \A b \in Bit : b \in g /\ b # SIGN => b \notin 0 .. FRAC - 1
        BY <3>1 DEF Fraction
      <4>3. ASSUME NEW b \in Bit PROVE b \in g \ {SIGN} <=> b \in Infinity
        <5>1. CASE b \in Infinity
          <6>1. b - FRAC \in AllOnes /\ (b - FRAC) + FRAC = b /\ b # SIGN
            BY <5>1, FloatParts DEF Infinity
          <6> QED
            BY <4>1, <5>1, <6>1
        <5>2. CASE b \notin Infinity
          <6>1. b = SIGN \/ b \in 0 .. FRAC - 1
            BY <5>2, FloatParts DEF Infinity
          <6> QED
            BY <4>2, <5>2, <6>1
        <5> QED
          BY <5>1, <5>2
      <4>4. Infinity \subseteq Bit
        BY FloatParts DEF Infinity
      <4> QED
        BY <2>1, <4>3, <4>4
    <3>3. 2 * Size(f) = Pow2[FRAC] * Pow2[2 * BIAS]
      <4>1. 2 * Size(f) = (Pow2[FRAC] + 0) * Pow2[2 * BIAS]
        BY <2>3, <2>5, <3>1
      <4> QED
        BY <2>2, <4>1
    <3>4. UNIT * Pow2[BIAS + 1] = Pow2[FRAC + 2 * BIAS]
      <4>1. /\ UNIT = Pow2[BIAS - 1 + FRAC] /\ BIAS - 1 + FRAC \in Nat /\ BIAS + 1 \in Nat
            /\ (BIAS - 1 + FRAC) + (BIAS + 1) = FRAC + 2 * BIAS
        BY <3>1, BiasIs, FloatParts
      <4>2. Pow2[(BIAS - 1 + FRAC) + (BIAS + 1)] = Pow2[BIAS - 1 + FRAC] * Pow2[BIAS + 1]
        BY <4>1, PowerTimes
      <4> QED
        BY <4>1, <4>2
    <3>5. Pow2[FRAC + 2 * BIAS] = Pow2[FRAC] * Pow2[2 * BIAS] /\ Pow2[FRAC + 2 * BIAS] \in Nat
      <4>1. FRAC \in Nat /\ 2 * BIAS \in Nat /\ FRAC + 2 * BIAS \in Nat
        BY <3>1, FloatParts
      <4> QED
        BY <4>1, PowerTimes, PowerNext
    <3> QED
      BY <3>2, <3>3, <3>4, <3>5
  <2>7. CASE Finite(g)
    BY <1>3, <2>1, <2>5, <2>7 DEF g
  <2>8. CASE ~Finite(g)
    BY <1>3, <2>1, <2>6, <2>8 DEF g
  <2> QED
    BY <2>7, <2>8
<1>4. CASE ~Finite(f)
  BY <1>1, <1>4
<1> QED
  BY <1>2, <1>3, <1>4

LEMMA SizeNat ==
  ASSUME NEW f \in SUBSET Bit
  PROVE  Size(f) \in Nat
<1>1. Fr(f) \in Nat /\ Ex(f) \in Nat /\ Pow2[FRAC] \in Nat
  BY Magnitude
<1>2. CASE Ex(f) = 0
  BY <1>1, <1>2, SizeIs
<1>3. CASE Ex(f) # 0
  <2>1. Ex(f) - 1 \in Nat
    BY <1>1, <1>3
  <2>2. Pow2[Ex(f) - 1] \in Nat /\ Pow2[FRAC] + Fr(f) \in Nat
    BY <1>1, <2>1, PowerNext
  <2>3. Size(f) = (Pow2[FRAC] + Fr(f)) * Pow2[Ex(f) - 1]
    BY <1>3, SizeIs
  <2> QED
    BY <2>2, <2>3
<1> QED
  BY <1>2, <1>3

\* A float that is not below the smallest with an exponent is at least the power of 2 that its
\* exponent gives, and below the next.
LEMMA SizeBounds ==
  ASSUME NEW f \in SUBSET Bit, Ex(f) # 0
  PROVE  /\ FRAC + Ex(f) - 1 \in Nat /\ FRAC + Ex(f) \in Nat
         /\ Pow2[FRAC + Ex(f) - 1] <= Size(f) /\ Size(f) < Pow2[FRAC + Ex(f)]
         /\ Fr(f) = 0 => Size(f) = Pow2[FRAC + Ex(f) - 1]
<1>1. Fr(f) \in Nat /\ Fr(f) < Pow2[FRAC] /\ Ex(f) \in Nat /\ Pow2[FRAC] \in Nat /\ FRAC \in Nat
  BY Magnitude, FloatParts
<1>2. Ex(f) - 1 \in Nat /\ FRAC + (Ex(f) - 1) = FRAC + Ex(f) - 1 /\ (FRAC + Ex(f) - 1) + 1 = FRAC + Ex(f)
      /\ FRAC + Ex(f) - 1 \in Nat /\ FRAC + Ex(f) \in Nat
  BY <1>1
<1> DEFINE a == Pow2[FRAC]
           b == Pow2[Ex(f) - 1]
           r == Fr(f)
<1>3. a \in Nat /\ b \in Nat /\ b > 0 /\ r \in Nat /\ r < a
  <2>1. b \in Nat \ {0}
    BY <1>2, PowerNext
  <2> QED
    BY <1>1, <2>1
<1>4. Pow2[FRAC + Ex(f) - 1] = a * b /\ Pow2[FRAC + Ex(f)] = 2 * (a * b)
  <2>1. Pow2[FRAC + (Ex(f) - 1)] = a * b
    BY <1>1, <1>2, PowerTimes
  <2>2. Pow2[(FRAC + Ex(f) - 1) + 1] = 2 * Pow2[FRAC + Ex(f) - 1]
    BY <1>2, PowerNext
  <2> HIDE DEF a, b
  <2> QED
    BY <1>2, <2>1, <2>2
<1>5. Size(f) = (a + r) * b
  BY SizeIs
<1> HIDE DEF a, b, r
<1>6. a * b <= (a + r) * b /\ (a + r) * b < 2 * (a * b) /\ (r = 0 => (a + r) * b = a * b)
  <2>1. (a + r) * b = a * b + r * b /\ a * b \in Int /\ r * b \in Int /\ r * b >= 0
    BY <1>3, Times
  <2>2. (r + 1) * b <= a * b /\ (r + 1) * b = r * b + b
    <3>1. r + 1 \in Int /\ r + 1 <= a
      BY <1>3
    <3> QED
      BY <1>3, <3>1, TimesMonotonic
  <2>3. r = 0 => r * b = 0
    BY <1>3
  <2> QED
    BY <1>3, <2>1, <2>2, <2>3
<1> QED
  BY <1>2, <1>4, <1>5, <1>6 DEF r

\* The signed number of a power of 2 and of its negative.
LEMMA PowerSigned ==
  ASSUME NEW b \in Bit, b # SIGN
  PROVE  Signed({b}) = Pow2[b] /\ Signed(negate({b})) = -Pow2[b]
<1>1. {b} \in SUBSET Bit /\ Unsigned({b}) = Pow2[b] /\ SIGN \notin {b} /\ {b} # {}
  BY OneBit
<1>2. Signed({b}) = Pow2[b]
  BY <1>1, SignedIs
<1>3. negate({b}) \in SUBSET Bit /\ Unsigned(negate({b})) = Pow2[W] - Pow2[b]
  BY <1>1, Closed, NegateIs
<1>4. Pow2[b] \in Nat /\ Pow2[b] <= Pow2[SIGN] /\ Pow2[W] = 2 * Pow2[SIGN] /\ Pow2[SIGN] \in Nat
  <2>1. b \in Nat /\ SIGN \in Nat /\ b <= SIGN
    BY FloatParts
  <2> QED
    BY <1>1, <2>1, PowerMonotonic, PowerNext, SignedIs
<1>5. SIGN \in negate({b}) <=> Unsigned(negate({b})) >= Pow2[SIGN]
  BY <1>3, SignedIs
<1>6. SIGN \in negate({b})
  BY <1>3, <1>4, <1>5
<1>7. Signed(negate({b})) = Unsigned(negate({b})) - Pow2[W]
  BY <1>3, <1>6, SignedIs
<1> QED
  BY <1>2, <1>3, <1>4, <1>7

\* Infinity is above every int: so it is for the float and the int of the code.
Wide == Pow2[EXP - 1] >= SIGN

LEMMA FloatFloat2IntRight ==
  ASSUME NEW f \in SUBSET Bit, Wide
  PROVE  IF ~Finite(f) \/ Size(f) >= UNIT * Pow2[SIGN] THEN floatFloat2Int(f) = tmin
         ELSE Fraction(f) = {} \/ Size(f) < UNIT
              => Signed(floatFloat2Int(f)) = (IF SIGN \in f THEN -1 ELSE 1) * (Size(f) \div UNIT)
<1> DEFINE power == Ex(f) - BIAS
           g == floatFloat2Int(f)
<1>1. /\ Ex(f) \in 0 .. 2 * BIAS + 1 /\ BIAS \in Nat /\ BIAS >= 1 /\ BIAS + 1 >= SIGN /\ SIGN \in Nat /\ FRAC \in Nat
      /\ power \in Int /\ (Finite(f) <=> Ex(f) # 2 * BIAS + 1)
  BY FloatKinds, BiasIs, FloatParts DEF Wide
<1>2. /\ power >= SIGN => g = tmin
      /\ power < 0 => g = {}
      /\ ~(power >= SIGN) /\ ~(power < 0) => g = IF SIGN \in f THEN negate(Shl(One, power)) ELSE Shl(One, power)
  <2> DEFINE e == Unsigned(Exponent(f)) - BIAS
  <2>1. /\ e >= SIGN => g = tmin
        /\ e < 0 => g = {}
        /\ ~(e >= SIGN) /\ ~(e < 0) => g = IF SIGN \in f THEN negate(Shl(One, e)) ELSE Shl(One, e)
    <3>1. e \in Int
      BY <1>1 DEF Ex
    <3>2. e >= SIGN => ~(e < 0)
      BY <1>1, <3>1
    <3> QED
      BY <3>2 DEF floatFloat2Int
  <2>2. e = power
    BY DEF Ex
  <2> QED
    BY <2>1, <2>2
<1> HIDE DEF g
<1>3. UNIT = Pow2[BIAS - 1 + FRAC] /\ BIAS - 1 + FRAC \in Nat /\ UNIT \in Nat /\ UNIT > 0
  <2>1. BIAS - 1 + FRAC \in Nat
    BY BiasIs
  <2>2. Pow2[BIAS - 1 + FRAC] \in Nat \ {0}
    BY <2>1, PowerNext
  <2> QED
    BY <2>1, <2>2, BiasIs
<1>4. UNIT * Pow2[SIGN] = Pow2[(BIAS - 1 + FRAC) + SIGN] /\ (BIAS - 1 + FRAC) + SIGN \in Nat
      /\ UNIT <= UNIT * Pow2[SIGN] /\ UNIT * Pow2[SIGN] \in Nat
  <2>1. Pow2[(BIAS - 1 + FRAC) + SIGN] = Pow2[BIAS - 1 + FRAC] * Pow2[SIGN]
    BY <1>1, <1>3, PowerTimes
  <2>2. (BIAS - 1 + FRAC) + SIGN \in Nat /\ BIAS - 1 + FRAC <= (BIAS - 1 + FRAC) + SIGN
    BY <1>1, <1>3
  <2>3. Pow2[BIAS - 1 + FRAC] <= Pow2[(BIAS - 1 + FRAC) + SIGN] /\ Pow2[(BIAS - 1 + FRAC) + SIGN] \in Nat
    BY <1>3, <2>2, PowerMonotonic, PowerNext
  <2> QED
    BY <1>3, <2>1, <2>2, <2>3
<1>5. Size(f) \in Nat
  BY SizeNat
<1>6. ASSUME Size(f) < UNIT PROVE Size(f) \div UNIT = 0
  <2>1. UNIT * 0 + Size(f) = Size(f)
    BY <1>3, <1>5
  <2> QED
    BY <1>3, <1>5, <1>6, <2>1, Quotient
<1>7. Signed({}) = 0
  <2>1. {} \in SUBSET Bit
    OBVIOUS
  <2> QED
    BY <2>1, EmptyIs
<1>8. CASE ~Finite(f)
  <2>1. power >= SIGN
    BY <1>1, <1>8
  <2> QED
    BY <1>2, <1>8, <2>1 DEF g
<1>9. CASE Finite(f) /\ power < 0
  <2>1. Size(f) < UNIT
    <3>1. CASE Ex(f) = 0
      <4>1. Size(f) = Fr(f) /\ Fr(f) < Pow2[FRAC] /\ Pow2[FRAC] \in Nat /\ Fr(f) \in Nat
        BY <3>1, SizeIs, Magnitude
      <4>2. Pow2[FRAC] <= Pow2[BIAS - 1 + FRAC]
        <5>1. FRAC <= BIAS - 1 + FRAC
          BY <1>1
        <5> QED
          BY <1>1, <1>3, <5>1, PowerMonotonic
      <4> QED
        BY <1>3, <4>1, <4>2
    <3>2. CASE Ex(f) # 0
      <4>1. FRAC + Ex(f) \in Nat /\ FRAC + Ex(f) <= BIAS - 1 + FRAC
        BY <1>1, <1>9
      <4>2. Pow2[FRAC + Ex(f)] <= Pow2[BIAS - 1 + FRAC] /\ Pow2[FRAC + Ex(f)] \in Nat
        BY <1>3, <4>1, PowerMonotonic, PowerNext
      <4>3. Size(f) < Pow2[FRAC + Ex(f)]
        BY <3>2, SizeBounds
      <4> QED
        BY <1>3, <1>5, <4>2, <4>3
    <3> QED
      BY <3>1, <3>2
  <2>2. ~(Size(f) >= UNIT * Pow2[SIGN])
    BY <1>3, <1>4, <1>5, <2>1
  <2>3. g = {}
    BY <1>2, <1>9
  <2>4. Signed(g) = (IF SIGN \in f THEN -1 ELSE 1) * (Size(f) \div UNIT)
    BY <1>6, <1>7, <2>1, <2>3
  <2> QED
    BY <1>9, <2>2, <2>4 DEF g
<1>10. CASE Finite(f) /\ power >= SIGN
  <2>1. Ex(f) # 0 /\ (BIAS - 1 + FRAC) + SIGN <= FRAC + Ex(f) - 1
    BY <1>1, <1>10
  <2>2. Pow2[(BIAS - 1 + FRAC) + SIGN] <= Pow2[FRAC + Ex(f) - 1] /\ Pow2[FRAC + Ex(f) - 1] <= Size(f)
    BY <1>4, <2>1, SizeBounds, PowerMonotonic
  <2>3. Size(f) >= UNIT * Pow2[SIGN]
    <3>1. Pow2[FRAC + Ex(f) - 1] \in Nat
      BY <2>1, SizeBounds, PowerNext
    <3> QED
      BY <1>4, <1>5, <2>2, <3>1
  <2> QED
    BY <1>2, <1>10, <2>3 DEF g
<1>11. CASE Finite(f) /\ ~(power < 0) /\ ~(power >= SIGN)
  <2>1. Ex(f) # 0 /\ FRAC + Ex(f) <= (BIAS - 1 + FRAC) + SIGN /\ BIAS - 1 + FRAC <= FRAC + Ex(f) - 1
        /\ (BIAS - 1 + FRAC) + power = FRAC + Ex(f) - 1 /\ power \in Nat /\ power \in Bit /\ power # SIGN
    BY <1>1, <1>11, FloatParts
  <2>2. ~(Size(f) >= UNIT * Pow2[SIGN])
    <3>1. Pow2[FRAC + Ex(f)] <= Pow2[(BIAS - 1 + FRAC) + SIGN] /\ Size(f) < Pow2[FRAC + Ex(f)]
          /\ Pow2[FRAC + Ex(f)] \in Nat
      BY <1>4, <2>1, SizeBounds, PowerMonotonic, PowerNext
    <3> QED
      BY <1>4, <1>5, <3>1
  <2>3. Size(f) >= UNIT
    <3>1. Pow2[BIAS - 1 + FRAC] <= Pow2[FRAC + Ex(f) - 1] /\ Pow2[FRAC + Ex(f) - 1] <= Size(f)
          /\ Pow2[FRAC + Ex(f) - 1] \in Nat
      BY <1>3, <2>1, SizeBounds, PowerMonotonic, PowerNext
    <3> QED
      BY <1>3, <1>5, <3>1
  <2>4. ASSUME Fraction(f) = {}
        PROVE  Signed(g) = (IF SIGN \in f THEN -1 ELSE 1) * (Size(f) \div UNIT)
    <3>1. Size(f) = Pow2[FRAC + Ex(f) - 1]
      BY <2>1, <2>4, FloatKinds, SizeBounds
    <3>2. Pow2[(BIAS - 1 + FRAC) + power] = Pow2[BIAS - 1 + FRAC] * Pow2[power] /\ Pow2[power] \in Nat
      BY <1>3, <2>1, PowerTimes, PowerNext
    <3>3. Size(f) = UNIT * Pow2[power]
      BY <1>3, <2>1, <3>1, <3>2
    <3>4. UNIT * Pow2[power] + 0 = Size(f)
      BY <1>5, <3>3
    <3>5. Size(f) \div UNIT = Pow2[power]
      BY <1>3, <1>5, <3>2, <3>4, Quotient
    <3>6. Shl(One, power) = {power}
      BY <2>1, OneBit
    <3> HIDE DEF power
    <3>7. g = IF SIGN \in f THEN negate({power}) ELSE {power}
      BY <1>2, <1>11, <3>6
    <3>8. Signed({power}) = Pow2[power] /\ Signed(negate({power})) = -Pow2[power]
      BY <2>1, PowerSigned
    <3>9. -1 * Pow2[power] = -Pow2[power] /\ 1 * Pow2[power] = Pow2[power]
      BY <3>2
    <3>10. CASE SIGN \in f
      <4>1. Signed(g) = -Pow2[power]
        BY <3>7, <3>8, <3>10
      <4> DEFINE s == IF SIGN \in f THEN -1 ELSE 1
                 q == Size(f) \div UNIT
      <4>2. s = -1 /\ q = Pow2[power]
        BY <3>5, <3>10
      <4> HIDE DEF s, q
      <4>3. s * q = -Pow2[power]
        BY <3>2, <4>2
      <4>4. Signed(g) = s * q
        BY <4>1, <4>3
      <4> QED
        BY <4>4 DEF s, q
    <3>11. CASE SIGN \notin f
      <4>1. Signed(g) = Pow2[power]
        BY <3>7, <3>8, <3>11
      <4> QED
        BY <3>5, <3>9, <3>11, <4>1
    <3> QED
      BY <3>10, <3>11
  <2> QED
    BY <1>11, <2>2, <2>3, <2>4, <1>3, <1>5 DEF g
<1> QED
  BY <1>8, <1>9, <1>10, <1>11

\* A number below a power of 2 needs no other bits.
LEMMA WordBelow ==
  ASSUME NEW k \in 0 .. W, NEW n \in 0 .. Pow2[k] - 1
  PROVE  Word(n) \in SUBSET (0 .. k - 1) /\ Unsigned(Word(n)) = n
<1>1. PICK a \in SUBSET (0 .. k - 1) : Unsigned(a) = n
  BY UnsignedOnto
<1>2. a \in SUBSET Bit
  BY FloatParts
<1>3. Word(Unsigned(a)) = a
  BY <1>2, WordOf
<1>4. Word(n) = a
  BY <1>1, <1>3
<1> QED
  BY <1>1, <1>4

\* A float with an exponent and no fraction.
LEMMA PowerFloat ==
  ASSUME NEW e \in 1 .. 2 * BIAS
  PROVE  LET f == Shl(Word(e), FRAC)
         IN  /\ f \in SUBSET Bit /\ SIGN \notin f /\ f # {} /\ Finite(f)
             /\ Size(f) = Pow2[FRAC + e - 1]
<1> DEFINE a == Word(e)
           f == Shl(Word(e), FRAC)
<1>1. a \in SUBSET AllOnes /\ Unsigned(a) = e /\ a \in SUBSET Bit
  <2>1. EXP \in 0 .. W /\ e \in 0 .. Pow2[EXP] - 1
    BY BiasIs, FloatParts
  <2>2. a \in SUBSET (0 .. EXP - 1) /\ Unsigned(a) = e
    BY <2>1, WordBelow
  <2> QED
    BY <2>2, FloatParts
<1>2. f \in SUBSET Bit /\ \A b \in Bit : b \in f <=> b - FRAC \in a
  BY <1>1, FloatParts, ShlIs
<1> HIDE DEF a, f
<1>3. Exponent(f) = a
  <2>1. ASSUME NEW b \in AllOnes PROVE b \in Exponent(f) <=> b \in a
    <3>1. b + FRAC \in Bit /\ (b + FRAC) - FRAC = b
      BY FloatParts
    <3> QED
      BY <1>2, <3>1, ExponentIs
  <2>2. Exponent(f) \in SUBSET AllOnes
    BY <1>2, ExponentIs
  <2> QED
    BY <1>1, <2>1, <2>2
<1>4. SIGN \notin f /\ Fraction(f) = {}
  <2>1. SIGN \in Bit /\ SIGN - FRAC \notin AllOnes
    BY FloatParts
  <2>2. \A b \in 0 .. FRAC - 1 : b \in Bit /\ b - FRAC \notin AllOnes
    BY FloatParts
  <2> QED
    BY <1>1, <1>2, <2>1, <2>2 DEF Fraction
<1>5. Ex(f) = e /\ Fr(f) = 0 /\ e \in Nat /\ e # 0 /\ BIAS \in Nat
  BY <1>1, <1>2, <1>3, <1>4, FloatKinds, BiasIs DEF Ex
<1>6. Finite(f)
  BY <1>2, <1>5, FloatKinds
<1>7. Size(f) = Pow2[FRAC + e - 1]
  BY <1>2, <1>5, SizeBounds
<1>8. f # {}
  <2>1. Exponent({}) = {}
    <3>1. {} \in SUBSET Bit
      OBVIOUS
    <3> QED
      BY <3>1, ExponentIs
  <2> QED
    BY <1>2, <1>5, <2>1, FloatKinds
<1> QED
  BY <1>2, <1>4, <1>6, <1>7, <1>8 DEF f

\* A float without exponent, of one bit.
LEMMA SmallFloat ==
  ASSUME NEW p \in 0 .. FRAC - 1
  PROVE  /\ Shl(One, p) = {p} /\ {p} \in SUBSET Bit /\ SIGN \notin {p} /\ Finite({p})
         /\ Size({p}) = Pow2[p]
<1>1. p \in Bit /\ p # SIGN /\ p \in Int
  BY FloatParts
<1>2. Shl(One, p) = {p} /\ {p} \in SUBSET Bit /\ Unsigned({p}) = Pow2[p]
  BY <1>1, OneBit
<1>3. Exponent({p}) = {}
  <2>1. \A b \in AllOnes : b + FRAC # p
    BY FloatParts
  <2>2. Exponent({p}) \in SUBSET AllOnes /\ \A b \in AllOnes : b \in Exponent({p}) <=> b + FRAC \in {p}
    BY <1>2, ExponentIs
  <2> QED
    BY <2>1, <2>2
<1>4. Fraction({p}) = {p}
  BY DEF Fraction
<1>5. Ex({p}) = 0 /\ Fr({p}) = Pow2[p]
  BY <1>2, <1>3, <1>4, UnsignedNat DEF Ex, Fr
<1> QED
  BY <1>1, <1>2, <1>5, FloatKinds, BiasIs, SizeIs

LEMMA InfinityIs == ~Finite(Infinity) /\ Infinity \in SUBSET Bit
<1>1. Infinity \in SUBSET Bit
  BY FloatParts DEF Infinity
<1>2. \A b \in AllOnes : b + FRAC \in Infinity
  BY FloatParts DEF Infinity
<1>3. Exponent(Infinity) = AllOnes
  <2>1. /\ Exponent(Infinity) \in SUBSET AllOnes
        /\ \A b \in AllOnes : b \in Exponent(Infinity) <=> b + FRAC \in Infinity
    BY <1>1, ExponentIs
  <2> QED
    BY <1>2, <2>1
<1> QED
  BY <1>1, <1>3 DEF Finite

LEMMA FloatPower2Right ==
  ASSUME NEW n \in Int
  PROVE  LET f == floatPower2(n)
         IN  IF Finite(f) THEN IF f = {} THEN n < 1 - BIAS - FRAC
                               ELSE SIGN \notin f /\ n >= 1 - BIAS - FRAC /\ Size(f) = Pow2[n + BIAS - 1 + FRAC]
             ELSE f = Infinity /\ n > BIAS
<1> DEFINE f == floatPower2(n)
<1>1. BIAS \in Nat /\ BIAS >= 1 /\ FRAC \in Nat
  BY BiasIs, FloatParts
<1>2. /\ n > BIAS => f = Infinity
      /\ 1 - BIAS <= n /\ n <= BIAS => f = Shl(Word(n + BIAS), FRAC)
      /\ 1 - BIAS - FRAC <= n /\ n <= -BIAS => f = Shl(One, n + BIAS + FRAC - 1)
      /\ n < 1 - BIAS - FRAC => f = {}
  <2>1. /\ n > BIAS => ~(1 - BIAS <= n /\ n <= BIAS) /\ ~(1 - BIAS - FRAC <= n /\ n <= -BIAS)
        /\ 1 - BIAS <= n /\ n <= BIAS => ~(1 - BIAS - FRAC <= n /\ n <= -BIAS) /\ ~(n > BIAS)
        /\ 1 - BIAS - FRAC <= n /\ n <= -BIAS => ~(n > BIAS) /\ ~(1 - BIAS <= n /\ n <= BIAS)
        /\ n < 1 - BIAS - FRAC => ~(n > BIAS) /\ ~(1 - BIAS <= n /\ n <= BIAS)
                                  /\ ~(1 - BIAS - FRAC <= n /\ n <= -BIAS)
    BY <1>1
  <2> QED
    BY <2>1 DEF floatPower2
<1> HIDE DEF f
<1>3. CASE n > BIAS
  BY <1>2, <1>3, InfinityIs DEF f
<1>4. CASE 1 - BIAS <= n /\ n <= BIAS
  <2> DEFINE e == n + BIAS
  <2>1. e \in 1 .. 2 * BIAS /\ FRAC + e - 1 = n + BIAS - 1 + FRAC
    BY <1>1, <1>4
  <2>2. f = Shl(Word(e), FRAC)
    BY <1>2, <1>4
  <2> HIDE DEF e
  <2>3. SIGN \notin f /\ f # {} /\ Finite(f) /\ Size(f) = Pow2[FRAC + e - 1]
    BY <2>1, <2>2, PowerFloat
  <2>4. n >= 1 - BIAS - FRAC
    BY <1>1, <1>4
  <2> QED
    BY <2>1, <2>3, <2>4 DEF f
<1>5. CASE 1 - BIAS - FRAC <= n /\ n <= -BIAS
  <2> DEFINE p == n + BIAS + FRAC - 1
  <2>1. p \in 0 .. FRAC - 1 /\ n + BIAS - 1 + FRAC = p
    BY <1>1, <1>5
  <2>2. f = Shl(One, p)
    BY <1>2, <1>5
  <2> HIDE DEF p
  <2>3. SIGN \notin f /\ f # {} /\ Finite(f) /\ Size(f) = Pow2[p]
    <3>1. f = {p} /\ {p} # {} /\ SIGN \notin {p} /\ Finite({p}) /\ Size({p}) = Pow2[p]
      BY <2>1, <2>2, SmallFloat
    <3> QED
      BY <3>1
  <2> QED
    BY <1>5, <2>1, <2>3 DEF f
<1>6. CASE n < 1 - BIAS - FRAC
  <2>1. f = {}
    BY <1>2, <1>6
  <2>2. Finite({})
    <3>1. {} \in SUBSET Bit
      OBVIOUS
    <3>2. Exponent({}) = {}
      BY <3>1, ExponentIs
    <3>3. 0 \in AllOnes
      BY FloatParts
    <3> QED
      BY <3>2, <3>3 DEF Finite
  <2> QED
    BY <1>6, <2>1, <2>2 DEF f
<1>7. n > BIAS \/ (1 - BIAS <= n /\ n <= BIAS) \/ (1 - BIAS - FRAC <= n /\ n <= -BIAS) \/ n < 1 - BIAS - FRAC
  BY <1>1
<1> QED
  BY <1>3, <1>4, <1>5, <1>6, <1>7

LEMMA FloatsAreRight ==
  ASSUME x \in SUBSET Bit, Wide
  PROVE  FloatsRight
<1>1. Signed(x) \in Int
  BY SignedIs
<1>2. /\ Finite(x) /\ (Finite(floatScale2(x)) \/ Fraction(x) = {})
           => /\ SIGN \in floatScale2(x) <=> SIGN \in x
              /\ IF Finite(floatScale2(x)) THEN Size(floatScale2(x)) = 2 * Size(x)
                 ELSE floatScale2(x) \ {SIGN} = Infinity /\ 2 * Size(x) >= UNIT * Pow2[BIAS + 1]
      /\ ~Finite(x) => floatScale2(x) = x
  BY FloatScale2Right
<1>3. IF ~Finite(x) \/ Size(x) >= UNIT * Pow2[SIGN] THEN floatFloat2Int(x) = tmin
      ELSE Fraction(x) = {} \/ Size(x) < UNIT
           => Signed(floatFloat2Int(x)) = (IF SIGN \in x THEN -1 ELSE 1) * (Size(x) \div UNIT)
  BY FloatFloat2IntRight
<1>4. ASSUME NEW n \in Int
      PROVE  LET f == floatPower2(n)
             IN  IF Finite(f) THEN IF f = {} THEN n < 1 - BIAS - FRAC
                                   ELSE SIGN \notin f /\ n >= 1 - BIAS - FRAC /\ Size(f) = Pow2[n + BIAS - 1 + FRAC]
                 ELSE f = Infinity /\ n > BIAS
  BY FloatPower2Right
<1> QED
  BY <1>1, <1>2, <1>3, <1>4 DEF FloatsRight

LEMMA WordsAreRight == x \in SUBSET Bit /\ y \in SUBSET Bit /\ z \in SUBSET Bit /\ Wide => BitsRight
  BY IntegersAreRight, FloatsAreRight DEF BitsRight

\* The puzzles of bits.c give what the comment above each says, for the words of 8, 16 and 32 bits
\* and for floats whose infinity is above every int: for every int and float of the code.
THEOREM PuzzlesCorrect ==
  ASSUME Pow2[EXP - 1] >= SIGN
  PROVE  Spec => []PuzzlesRight
<1>1. LInv => PuzzlesRight
  <2> SUFFICES ASSUME LInv PROVE BitsRight
    BY DEF PuzzlesRight
  <2>1. x \in SUBSET Bit /\ y \in SUBSET Bit /\ z \in SUBSET Bit
    BY DEF LInv, WordsOk
  <2> QED
    BY <2>1, WordsAreRight DEF Wide
<1> QED
  BY <1>1, Invariance, PTL

-----------------------------------------------------------------------------
(* The texts.  What is composed of its parts is taken apart into these parts,*)
(* for texts of any length: of sio_putl() first, whose digits are remainders.*)

HIDE CsimAssumption DEF CsimAssumption
HIDE BitsAssumption DEF BitsAssumption

\* ValueOf() is the last of the values of what is read from the left.
LEMMA ValueIs ==
  ASSUME NEW d \in Seq(Int)
  PROVE  \E f \in [0 .. Len(d) -> Int] :
           /\ f[0] = 0 /\ \A k \in 1 .. Len(d) : f[k] = 10 * f[k - 1] + d[k]
           /\ ValueOf(d) = f[Len(d)]
<1> DEFINE n == Len(d)
           D == 0 .. n
           body(f) == [k \in D |-> IF k = 0 THEN 0 ELSE 10 * f[k - 1] + d[k]]
           G == [f \in [D -> Int] |-> body(f)]
           rank == [k \in D |-> k]
<1>1. n \in Nat /\ \A k \in 1 .. n : d[k] \in Int
  OBVIOUS
<1>2. \A k \in D : k # 0 => k - 1 \in D /\ k \in 1 .. n
  BY <1>1
<1>3. \A f \in [D -> Int] : body(f) \in [D -> Int]
  <2>1. ASSUME NEW f \in [D -> Int], NEW k \in D PROVE body(f)[k] \in Int
    <3>1. CASE k = 0
      BY <3>1
    <3>2. CASE k # 0
      <4> HIDE DEF D, n
      <4>1. f[k - 1] \in Int /\ d[k] \in Int
        BY <3>2, <1>2, <1>1
      <4> QED
        BY <4>1, <3>2
    <3> QED
      BY <3>1, <3>2
  <2> QED
    BY <2>1
<1>4. rank \in [D -> Nat] /\ G \in [[D -> Int] -> [D -> Int]]
  <2>1. rank \in [D -> Nat]
    OBVIOUS
  <2> HIDE DEF D, n
  <2> QED
    BY <1>3, <2>1
<1>5. ASSUME NEW f \in [D -> Int], NEW g \in [D -> Int], NEW k \in D,
             \A j \in D : rank[j] < rank[k] => f[j] = g[j]
      PROVE  G[f][k] = G[g][k]
  <2>1. CASE k = 0
    BY <2>1
  <2>2. CASE k # 0
    <3>1. k - 1 \in D /\ rank[k - 1] < rank[k]
      BY <2>2
    <3>2. f[k - 1] = g[k - 1]
      BY <3>1, <1>5
    <3> QED
      BY <3>2
  <2> QED
    BY <2>1, <2>2
<1>6. \E f \in [D -> Int] : G[f] = f
  <2> HIDE DEF D, G, rank
  <2>1. Recursive(D, Int, rank, G)
    BY <1>4, <1>5 DEF Recursive
  <2>2. 0 \in Int
    OBVIOUS
  <2> QED
    BY <2>1, <2>2, FixpointExists
<1>7. PICK f \in [D -> Int] : f = body(f)
  BY <1>6
<1> DEFINE value == CHOOSE g : g = body(g)
<1>8. value = body(value)
  BY <1>7
<1>9. ValueOf(d) = value[n]
  BY Zenon DEF ValueOf
<1> HIDE DEF value
<1>10. ASSUME NEW k \in 1 .. n PROVE f[k] = 10 * f[k - 1] + d[k] /\ value[k] = 10 * value[k - 1] + d[k]
  <2>1. k \in D /\ k # 0
    BY <1>1
  <2> HIDE DEF D, n
  <2> QED
    BY <2>1, <1>7, <1>8
<1>11. f[0] = 0 /\ value[0] = 0
  BY <1>7, <1>8
<1> DEFINE P == {k \in 0 .. n : value[k] = f[k]}
<1>12. ASSUME NEW k \in 0 .. n, \A j \in 0 .. k - 1 : j \in P PROVE k \in P
  <2>1. CASE k = 0
    BY <2>1, <1>11
  <2>2. CASE k # 0
    <3>1. value[k - 1] = f[k - 1]
      BY <2>2, <1>12
    <3> QED
      BY <2>2, <3>1, <1>10
  <2> QED
    BY <2>1, <2>2
<1>13. n \in P
  <2>1. P \in SUBSET (0 .. n) /\ 0 \in Int /\ n \in Int /\ n \in 0 .. n
    OBVIOUS
  <2> HIDE DEF P, n
  <2> QED
    BY <1>12, <2>1, Upwards
<1> QED
  BY <1>9, <1>10, <1>11, <1>13

\* The digits of a number, the lowest first, are remainders of its quotients.
Quotients(digits, u, q) ==
  /\ digits \in Seq(0 .. 9) /\ Len(digits) >= 1 /\ q \in [1 .. Len(digits) -> Nat]
  /\ q[1] = u /\ q[Len(digits)] < 10 /\ \A k \in DOMAIN digits : digits[k] = q[k] % 10
  /\ \A k \in 1 .. Len(digits) - 1 : q[k] >= 10 /\ q[k + 1] = q[k] \div 10

LEMMA Tenth ==
  ASSUME NEW u \in Nat
  PROVE  u % 10 \in 0 .. 9 /\ u \div 10 \in Nat /\ u = 10 * (u \div 10) + (u % 10)
         /\ (u >= 10 => u \div 10 \in 1 .. u - 1)
  OBVIOUS

\* sio_putl() writes the digits of the absolute value, and the sign: the digits u are a recursive
\* function of u, which has a solution because each quotient is less.
LEMMA DigitsIs ==
  ASSUME NEW long \in Int, LONG_MAX \in Nat, long \in -LONG_MAX .. LONG_MAX
  PROVE  \E digits, q : /\ Quotients(digits, IF long < 0 THEN -long ELSE long, q)
                        /\ sio_putl(long) = Reverse(digits \o IF long < 0 THEN <<MINUS>> ELSE <<>>)
<1> DEFINE D == 0 .. LONG_MAX
           V == Seq(0 .. 9)
           body(f) == [u \in D |-> <<u % 10>> \o IF u < 10 THEN <<>> ELSE f[u \div 10]]
           G == [f \in [D -> V] |-> body(f)]
           rank == [u \in D |-> u]
<1>1. \A u \in D : u \in Nat /\ <<u % 10>> \in V /\ (~(u < 10) => u \div 10 \in D /\ u \div 10 < u)
  <2>1. ASSUME NEW u \in D PROVE u \in Nat /\ <<u % 10>> \in V /\ (~(u < 10) => u \div 10 \in D /\ u \div 10 < u)
    <3>1. u \in Nat /\ u <= LONG_MAX
      OBVIOUS
    <3>2. u % 10 \in 0 .. 9 /\ u \div 10 \in Nat /\ (u >= 10 => u \div 10 \in 1 .. u - 1)
      BY <3>1, Tenth
    <3>3. <<u % 10>> \in V
      BY <3>2
    <3> QED
      BY <3>1, <3>2, <3>3
  <2> QED
    BY <2>1
<1>2. \A f \in [D -> V] : body(f) \in [D -> V]
  <2>1. ASSUME NEW f \in [D -> V], NEW u \in D PROVE body(f)[u] \in V
    <3>1. <<u % 10>> \in V /\ <<>> \in V
      BY <1>1
    <3>2. CASE u < 10
      BY <3>1, <3>2
    <3>3. CASE ~(u < 10)
      <4>1. u \div 10 \in D
        BY <3>3, <1>1
      <4>2. f[u \div 10] \in V
        BY <4>1
      <4>3. <<u % 10>> \o f[u \div 10] \in V
        BY <4>2, <3>1, ConcatProperties
      <4> QED
        BY <4>3, <3>3
    <3> QED
      BY <3>2, <3>3
  <2> QED
    BY <2>1
<1>3. rank \in [D -> Nat] /\ G \in [[D -> V] -> [D -> V]]
  <2>1. rank \in [D -> Nat]
    OBVIOUS
  <2> HIDE DEF D, V
  <2> QED
    BY <1>2, <2>1
<1>4. ASSUME NEW f \in [D -> V], NEW g \in [D -> V], NEW u \in D,
             \A j \in D : rank[j] < rank[u] => f[j] = g[j]
      PROVE  G[f][u] = G[g][u]
  <2>1. CASE u < 10
    BY <2>1
  <2>2. CASE ~(u < 10)
    <3>1. u \div 10 \in D /\ rank[u \div 10] < rank[u]
      BY <2>2, <1>1
    <3>2. f[u \div 10] = g[u \div 10]
      BY <3>1, <1>4
    <3> HIDE DEF D, V
    <3> QED
      BY <3>2
  <2> QED
    BY <2>1, <2>2
<1>5. \E f \in [D -> V] : G[f] = f
  <2>1. Recursive(D, V, rank, G)
    <3> HIDE DEF D, V, G, rank
    <3> QED
      BY <1>3, <1>4 DEF Recursive
  <2>2. <<>> \in V
    OBVIOUS
  <2> HIDE DEF D, V, G, rank
  <2> QED
    BY <2>1, <2>2, FixpointExists
<1> DEFINE dig == CHOOSE g : g = body(g)
<1>6. dig = body(dig)
  <2>1. PICK f \in [D -> V] : G[f] = f
    BY <1>5
  <2>2. f = body(f)
    BY <2>1
  <2> QED
    BY <2>2
<1>7. sio_putl(long) = Reverse(dig[IF long < 0 THEN -long ELSE long] \o IF long < 0 THEN <<MINUS>> ELSE <<>>)
  <2>1. long # LONG_MIN
    BY DEF LONG_MIN
  <2> QED
    BY <2>1 DEF sio_putl, sio_ltoa, sio_reverse
<1> HIDE DEF dig
<1>8. \A u \in D : dig[u] = <<u % 10>> \o IF u < 10 THEN <<>> ELSE dig[u \div 10]
  BY <1>6
<1> DEFINE P == {u \in D : \E q : Quotients(dig[u], u, q)}
<1>9. ASSUME NEW u \in D, \A j \in 0 .. u - 1 : j \in P PROVE u \in P
  <2>0. u \in Nat /\ u % 10 \in 0 .. 9
    BY Tenth
  <2>1. CASE u < 10
    <3>1. dig[u] = <<u % 10>>
      <4>1. dig[u] = <<u % 10>> \o <<>>
        BY <1>8, <2>1
      <4> QED
        BY <4>1
    <3>2. Quotients(dig[u], u, [k \in 1 .. 1 |-> u])
      BY <3>1, <2>1, <2>0 DEF Quotients
    <3> QED
      BY <3>2
  <2>2. CASE ~(u < 10)
    <3> DEFINE w == u \div 10
    <3>1. w \in 1 .. u - 1 /\ w \in D
      BY <2>2, <2>0, Tenth
    <3>2. w \in P
      BY <3>1, <1>9
    <3>3. PICK q : Quotients(dig[w], w, q)
      BY <3>2
    <3>4. dig[u] = <<u % 10>> \o dig[w]
      BY <1>8, <2>2
    <3> DEFINE e == dig[w]
               r == [k \in 1 .. Len(e) + 1 |-> IF k = 1 THEN u ELSE q[k - 1]]
    <3> HIDE DEF e
    <3>5. /\ e \in Seq(0 .. 9) /\ Len(e) >= 1 /\ q \in [1 .. Len(e) -> Nat]
          /\ q[1] = w /\ q[Len(e)] < 10 /\ \A k \in 1 .. Len(e) : e[k] = q[k] % 10
          /\ \A k \in 1 .. Len(e) - 1 : q[k] >= 10 /\ q[k + 1] = q[k] \div 10
      <4>1. Quotients(e, w, q)
        BY <3>3 DEF e
      <4>2. e \in Seq(0 .. 9) /\ DOMAIN e = 1 .. Len(e)
        BY <4>1 DEF Quotients
      <4> HIDE DEF w
      <4> QED
        BY <4>1, <4>2 DEF Quotients
    <3>6. Len(e) \in Nat
      BY <3>5
    <3>7. dig[u] \in Seq(0 .. 9) /\ Len(dig[u]) = Len(e) + 1 /\ dig[u][1] = u % 10
          /\ \A k \in 2 .. Len(e) + 1 : dig[u][k] = e[k - 1]
      <4>1. dig[u] = <<u % 10>> \o e
        BY <3>4 DEF e
      <4>2. <<u % 10>> \in Seq(0 .. 9)
        BY <2>0
      <4> QED
        BY <4>1, <4>2, <3>5, <3>6
    <3>8. r \in [1 .. Len(e) + 1 -> Nat] /\ r[1] = u /\ r[Len(e) + 1] < 10
      <4>1. ASSUME NEW k \in 1 .. Len(e) + 1 PROVE r[k] \in Nat
        <5>1. CASE k = 1
          BY <5>1, <2>0
        <5>2. CASE k # 1
          <6>1. k - 1 \in 1 .. Len(e)
            BY <5>2, <3>6
          <6> QED
            BY <6>1, <5>2, <3>5
        <5> QED
          BY <5>1, <5>2
      <4>2. r[Len(e) + 1] = q[Len(e)]
        BY <3>5, <3>6
      <4> QED
        BY <4>1, <4>2, <3>5, <3>6
    <3>9. ASSUME NEW k \in 1 .. Len(e) + 1 PROVE dig[u][k] = r[k] % 10
      <4>1. CASE k = 1
        BY <4>1, <3>7, <3>6
      <4>2. CASE k # 1
        <5>1. k - 1 \in 1 .. Len(e) /\ k \in 2 .. Len(e) + 1
          BY <4>2, <3>6
        <5> QED
          BY <5>1, <4>2, <3>7, <3>5
      <4> QED
        BY <4>1, <4>2
    <3>10. ASSUME NEW k \in 1 .. Len(e) PROVE r[k] >= 10 /\ r[k + 1] = r[k] \div 10
      <4>1. CASE k = 1
        BY <4>1, <3>5, <3>6, <2>2
      <4>2. CASE k # 1
        <5>1. k - 1 \in 1 .. Len(e) - 1 /\ (k - 1) + 1 = k
          BY <4>2, <3>6
        <5>2. q[k - 1] >= 10 /\ q[k] = q[k - 1] \div 10
          BY <5>1, <3>5
        <5>3. r[k] = q[k - 1] /\ r[k + 1] = q[k]
          BY <4>2, <3>6
        <5> QED
          BY <5>2, <5>3
      <4> QED
        BY <4>1, <4>2
    <3>11. Quotients(dig[u], u, r)
      <4>1. (Len(e) + 1) - 1 = Len(e) /\ Len(e) + 1 >= 1
        BY <3>6
      <4>2. DOMAIN dig[u] = 1 .. Len(e) + 1
        BY <3>7, <3>6
      <4> HIDE DEF r
      <4> QED
        BY <4>1, <4>2, <3>7, <3>8, <3>9, <3>10 DEF Quotients
    <3> QED
      BY <3>11
  <2> QED
    BY <2>1, <2>2
<1>10. \A u \in 0 .. LONG_MAX : u \in P
  <2>1. P \in SUBSET (0 .. LONG_MAX) /\ 0 \in Int /\ LONG_MAX \in Int
    OBVIOUS
  <2>2. \A u \in 0 .. LONG_MAX : (\A j \in 0 .. u - 1 : j \in P) => u \in P
    <3> HIDE DEF P
    <3> QED
      BY <1>9
  <2> HIDE DEF P, D
  <2> QED
    BY <2>1, <2>2, Upwards
<1> DEFINE a == IF long < 0 THEN -long ELSE long
<1>11. a \in 0 .. LONG_MAX
  OBVIOUS
<1>12. PICK q : Quotients(dig[a], a, q)
  BY <1>10, <1>11
<1> QED
  BY <1>7, <1>12

\* The highest digit comes first once sio_reverse() has turned the digits around.
LEMMA ReversedIs ==
  ASSUME NEW d \in Seq(0 .. 9), Len(d) >= 1, NEW neg \in BOOLEAN,
         NEW w, w = Reverse(d \o IF neg THEN <<MINUS>> ELSE <<>>)
  PROVE  /\ Head(w) = IF neg THEN MINUS ELSE d[Len(d)]
         /\ (IF neg THEN Tail(w) ELSE w) = [k \in 1 .. Len(d) |-> d[Len(d) - k + 1]]
<1> DEFINE n == Len(d)
           r == [k \in 1 .. n |-> d[n - k + 1]]
<1>1. n \in Nat /\ n >= 1 /\ \A k \in 1 .. n : n - k + 1 \in 1 .. n /\ d[k] \in Int
  OBVIOUS
<1>2. CASE neg
  <2> DEFINE e == d \o <<MINUS>>
  <2>1. e \in Seq(Int) /\ Len(e) = n + 1 /\ e[n + 1] = MINUS /\ \A k \in 1 .. n : e[k] = d[k]
    BY DEF MINUS
  <2>2. w = Reverse(e)
    BY <1>2
  <2> HIDE DEF e
  <2>3. w = [k \in 1 .. n + 1 |-> e[(n + 1) - k + 1]]
    BY <2>1, <2>2 DEF Reverse
  <2> HIDE DEF n
  <2>4. w \in Seq(Int) /\ Len(w) = n + 1 /\ w[1] = MINUS
    <3>1. \A k \in 1 .. n + 1 : (n + 1) - k + 1 \in 1 .. n + 1 /\ e[(n + 1) - k + 1] \in Int
      BY <1>1, <2>1
    <3>2. w \in Seq(Int) /\ Len(w) = n + 1
      BY <3>1, <2>3, <1>1
    <3>3. (n + 1) - 1 + 1 = n + 1 /\ 1 \in 1 .. n + 1
      BY <1>1
    <3> QED
      BY <3>2, <3>3, <2>3, <2>1
  <2>5. w # <<>> /\ Head(w) = MINUS /\ Tail(w) \in Seq(Int) /\ Len(Tail(w)) = n
        /\ \A k \in 1 .. n : Tail(w)[k] = w[k + 1]
    BY <2>4, <1>1
  <2>6. ASSUME NEW k \in 1 .. n PROVE Tail(w)[k] = d[n - k + 1]
    <3>1. k + 1 \in 1 .. n + 1 /\ (n + 1) - (k + 1) + 1 = n - k + 1 /\ n - k + 1 \in 1 .. n
      BY <1>1
    <3>2. w[k + 1] = e[(n + 1) - (k + 1) + 1]
      BY <3>1, <2>3
    <3>3. w[k + 1] = e[n - k + 1]
      BY <3>1, <3>2
    <3>4. e[n - k + 1] = d[n - k + 1]
      BY <3>1, <2>1
    <3> QED
      BY <3>3, <3>4, <2>5
  <2>7. Tail(w) = r
    <3>1. Tail(w) = [k \in 1 .. n |-> Tail(w)[k]]
      BY <2>5
    <3> QED
      BY <3>1, <2>6
  <2> QED
    BY <2>5, <2>7, <1>2 DEF n
<1>3. CASE ~neg
  <2>1. w = Reverse(d)
    <3>1. d \o <<>> = d
      OBVIOUS
    <3> QED
      BY <3>1, <1>3
  <2>2. w = r
    BY <2>1 DEF Reverse
  <2> HIDE DEF n
  <2>3. w \in Seq(Int) /\ Len(w) = n /\ w # <<>> /\ w[1] = d[n]
    BY <2>2, <1>1
  <2>4. Head(w) = d[n]
    BY <2>3
  <2> QED
    BY <2>2, <2>4, <1>3 DEF n
<1> QED
  BY <1>2, <1>3

\* What sio_putl() writes stands for the number.
LEMMA LongIs ==
  ASSUME LONG_MAX \in Nat, text \in Longs
  PROVE  LongRight
<1> DEFINE long == text.long
           neg == long < 0
           a == IF neg THEN -long ELSE long
           written == sio_putl(long)
           r == IF neg THEN Tail(written) ELSE written
<1>1. SUFFICES ASSUME long # LONG_MIN
               PROVE  /\ (Head(written) = MINUS) = neg
                      /\ Len(r) > 1 => r[1] # 0
                      /\ \A k \in DOMAIN r : r[k] \in 0 .. 9
                      /\ ValueOf(r) = a
  BY Zenon DEF LongRight
<1>2. long \in Int /\ long \in -LONG_MAX .. LONG_MAX /\ neg \in BOOLEAN
  BY <1>1 DEF Longs, LONG_MIN
<1>3. PICK d, q : /\ Quotients(d, a, q)
                  /\ sio_putl(long) = Reverse(d \o IF neg THEN <<MINUS>> ELSE <<>>)
  <2> HIDE DEF long
  <2> QED
    BY <1>2, DigitsIs
<1> DEFINE n == Len(d)
<1>4. /\ d \in Seq(0 .. 9) /\ n >= 1 /\ q \in [1 .. n -> Nat] /\ DOMAIN d = 1 .. n /\ n \in Nat
      /\ q[1] = a /\ q[n] < 10 /\ \A k \in 1 .. n : d[k] = q[k] % 10 /\ d[k] \in 0 .. 9
      /\ \A k \in 1 .. n - 1 : q[k] >= 10 /\ q[k + 1] = q[k] \div 10
  <2> HIDE DEF a
  <2>1. d \in Seq(0 .. 9)
    BY <1>3 DEF Quotients
  <2>2. DOMAIN d = 1 .. n /\ n \in Nat
    BY <2>1
  <2>3. /\ n >= 1 /\ q \in [1 .. n -> Nat] /\ q[1] = a /\ q[n] < 10
        /\ \A k \in 1 .. n - 1 : q[k] >= 10 /\ q[k + 1] = q[k] \div 10
    BY <1>3 DEF Quotients
  <2>4. \A k \in 1 .. n : d[k] = q[k] % 10
    BY <1>3, <2>2 DEF Quotients
  <2>5. \A k \in 1 .. n : d[k] \in 0 .. 9
    BY <2>1
  <2> QED
    BY <2>1, <2>2, <2>3, <2>4, <2>5
<1>5. Head(written) = (IF neg THEN MINUS ELSE d[n]) /\ r = [k \in 1 .. n |-> d[n - k + 1]]
  <2> HIDE DEF long, neg
  <2> QED
    BY <1>2, <1>3, <1>4, ReversedIs
<1> HIDE DEF r, written, n
<1>6. r \in Seq(Int) /\ Len(r) = n /\ DOMAIN r = 1 .. n /\ \A k \in 1 .. n : r[k] = d[n - k + 1] /\ r[k] \in 0 .. 9
  <2>1. \A k \in 1 .. n : n - k + 1 \in 1 .. n
    BY <1>4
  <2>2. \A k \in 1 .. n : r[k] = d[n - k + 1] /\ r[k] \in 0 .. 9
    BY <1>4, <1>5, <2>1
  <2> QED
    BY <1>4, <1>5, <2>2
<1>7. (Head(written) = MINUS) = neg
  <2>1. n \in 1 .. n
    BY <1>4
  <2>2. d[n] # MINUS
    BY <1>4, <2>1 DEF MINUS
  <2> QED
    BY <1>2, <1>5, <2>2
<1>8. ASSUME n > 1 PROVE r[1] # 0
  <2>1. n - 1 \in 1 .. n - 1 /\ n \in 1 .. n /\ (n - 1) + 1 = n /\ n - 1 + 1 = n /\ 1 \in 1 .. n /\ n - 1 \in 1 .. n
    BY <1>4, <1>8
  <2>2. q[n - 1] >= 10 /\ q[n] = q[n - 1] \div 10 /\ q[n - 1] \in Nat
    BY <1>4, <2>1
  <2>3. q[n] \in Nat /\ q[n] >= 1
    BY <2>2, Tenth
  <2>4. d[n] = q[n]
    <3>1. d[n] = q[n] % 10 /\ q[n] < 10
      BY <2>1, <1>4
    <3> QED
      BY <3>1, <2>3
  <2>5. r[1] = d[n - 1 + 1]
    BY <1>6, <2>1
  <2> QED
    BY <2>1, <2>3, <2>4, <2>5
<1>9. ValueOf(r) = a
  <2>1. PICK f \in [0 .. n -> Int] : /\ f[0] = 0 /\ \A k \in 1 .. n : f[k] = 10 * f[k - 1] + r[k]
                                     /\ ValueOf(r) = f[n]
    BY <1>6, ValueIs
  <2> DEFINE P == {k \in 1 .. n : f[k] = q[n - k + 1]}
  <2>2. ASSUME NEW k \in 1 .. n, \A j \in 1 .. k - 1 : j \in P PROVE k \in P
    <3>1. f[k] = 10 * f[k - 1] + d[n - k + 1] /\ n - k + 1 \in 1 .. n
      BY <2>1, <1>6, <1>4
    <3>2. CASE k = 1
      <4>1. n - k + 1 = n /\ k - 1 = 0 /\ n \in 1 .. n
        BY <3>2, <1>4
      <4>2. d[n] = q[n] /\ q[n] \in Nat
        <5>1. q[n] \in Nat /\ q[n] < 10 /\ d[n] = q[n] % 10
          BY <4>1, <1>4
        <5> QED
          BY <5>1
      <4>3. f[k] = 10 * 0 + q[n]
        BY <3>1, <4>1, <4>2, <2>1
      <4>4. f[k] = q[n - k + 1]
        BY <4>1, <4>2, <4>3
      <4> QED
        BY <4>4
    <3>3. CASE k # 1
      <4> DEFINE j == n - k + 1
      <4>1. k - 1 \in 1 .. k - 1 /\ n - (k - 1) + 1 = j + 1 /\ j \in 1 .. n - 1 /\ j \in 1 .. n
        BY <3>3, <1>4
      <4>2. k - 1 \in P
        BY <4>1, <2>2
      <4>3. f[k - 1] = q[j + 1]
        BY <4>1, <4>2
      <4>4. q[j + 1] = q[j] \div 10 /\ d[j] = q[j] % 10 /\ q[j] \in Nat
        BY <4>1, <1>4
      <4>5. q[j] = 10 * (q[j] \div 10) + (q[j] % 10)
        BY <4>4, Tenth
      <4>6. f[k] = q[j]
        BY <3>1, <4>3, <4>4, <4>5
      <4> QED
        BY <4>6
    <3> QED
      BY <3>2, <3>3
  <2>3. n \in P
    <3>1. P \in SUBSET (1 .. n) /\ 1 \in Int /\ n \in Int /\ n \in 1 .. n
      BY <1>4
    <3>2. \A k \in 1 .. n : (\A j \in 1 .. k - 1 : j \in P) => k \in P
      <4> HIDE DEF P
      <4> QED
        BY <2>2
    <3> HIDE DEF P
    <3> QED
      BY <3>1, <3>2, Upwards
  <2>4. f[n] = q[1]
    <3>1. n - n + 1 = 1
      BY <1>4
    <3> QED
      BY <2>3, <3>1
  <2> QED
    BY <2>1, <2>4, <1>4
<1> QED
  BY <1>6, <1>7, <1>8, <1>9

-----------------------------------------------------------------------------
(* Places of a text: the first of a character, a part between two places, and*)
(* what is where in a text that is put together.                            *)

\* index() finds the first place, or none.
LEMMA IndexIs ==
  ASSUME NEW s, NEW c, NEW from \in Int, Len(s) \in Nat, NEW p \in from .. Len(s), s[p] = c,
         \A q \in from .. p - 1 : s[q] # c
  PROVE  IndexFrom(s, c, from) = p
<1> DEFINE places == {q \in from .. Len(s) : s[q] = c}
<1>1. p \in places /\ \A q \in places : q \in Int /\ p <= q
  OBVIOUS
<1>2. IndexFrom(s, c, from) = IF places = {} THEN 0 ELSE CHOOSE q \in places : \A r \in places : q <= r
  BY DEF IndexFrom
<1> HIDE DEF places
<1>3. ASSUME NEW q \in places, \A r \in places : q <= r PROVE q = p
  <2>1. q <= p /\ p <= q /\ q \in Int
    BY <1>1, <1>3
  <2> QED
    BY <2>1
<1>4. \A r \in places : p <= r
  BY <1>1
<1> QED
  BY <1>1, <1>2, <1>3, <1>4

LEMMA IndexNone ==
  ASSUME NEW s, NEW c, NEW from \in Int, \A q \in from .. Len(s) : s[q] # c
  PROVE  IndexFrom(s, c, from) = 0
  BY DEF IndexFrom

\* A part of a text is what it is at every place.
LEMMA SubSeqIs ==
  ASSUME NEW C, NEW s \in Seq(C), NEW u \in Seq(C), NEW a \in Nat \ {0}, NEW b \in Nat, b <= Len(s),
         Len(u) = b - a + 1, \A k \in 1 .. Len(u) : s[a + k - 1] = u[k]
  PROVE  SubSeq(s, a, b) = u
<1>1. SubSeq(s, a, b) = [k \in 1 .. b - a + 1 |-> s[a + k - 1]]
  <2>1. \A k \in 1 .. b - a + 1 : a + k - 1 = k + a - 1
    OBVIOUS
  <2> QED
    BY <2>1
<1>2. u = [k \in 1 .. Len(u) |-> u[k]]
  OBVIOUS
<1> QED
  BY <1>1, <1>2

LEMMA UptoSeq ==
  ASSUME NEW n \in Nat, NEW T, NEW w \in Upto(n, T)
  PROVE  w \in Seq(T) /\ Len(w) \in 0 .. n
  BY DEF Upto

LEMMA Cat ==
  ASSUME NEW C, NEW a \in Seq(C), NEW b \in Seq(C)
  PROVE  /\ a \o b \in Seq(C) /\ Len(a \o b) = Len(a) + Len(b) /\ Len(a) \in Nat /\ Len(b) \in Nat
         /\ \A k \in 1 .. Len(a) : (a \o b)[k] = a[k]
         /\ \A k \in 1 .. Len(b) : (a \o b)[Len(a) + k] = b[k]
  OBVIOUS

\* Four texts one after the other, with separators.
UrlWith(sc, h, pp, path) == sc \o <<Slash, Slash>> \o h \o pp \o <<Slash>> \o path

Layout(C, url, a, m, e, sc, h, pp, path) ==
  /\ url \in Seq(C) /\ a \in Nat /\ m \in Nat /\ e \in Nat /\ Len(url) = e + 1 + Len(path)
  /\ \A k \in 1 .. a : url[k] = sc[k]
  /\ url[a + 1] = Slash /\ url[a + 2] = Slash /\ url[e + 1] = Slash
  /\ \A k \in 1 .. Len(h) : url[a + 2 + k] = h[k]
  /\ \A k \in 1 .. Len(pp) : url[m + k] = pp[k]
  /\ \A k \in 1 .. Len(path) : url[e + 1 + k] = path[k]

\* What is where in a url.
LEMMA UrlLayout ==
  ASSUME NEW C, Slash \in C, NEW sc \in Seq(C), NEW h \in Seq(C), NEW pp \in Seq(C), NEW path \in Seq(C)
  PROVE  Layout(C, UrlWith(sc, h, pp, path), Len(sc), Len(sc) + 2 + Len(h), Len(sc) + 2 + Len(h) + Len(pp),
                sc, h, pp, path)
<1>17. SUFFICES ASSUME NEW url, url = UrlWith(sc, h, pp, path),
                       NEW a, a = Len(sc), NEW m, m = a + 2 + Len(h), NEW e, e = m + Len(pp)
                PROVE  Layout(C, url, a, m, e, sc, h, pp, path)
  OBVIOUS
<1> DEFINE sep == <<Slash>>
           sep2 == <<Slash, Slash>>
           s1 == sc \o sep2
           s2 == s1 \o h
           s3 == s2 \o pp
           s4 == s3 \o sep
           s5 == s4 \o path
<1>16. Len(sep) = 1 /\ Len(sep2) = 2 /\ sep[1] = Slash /\ sep2[1] = Slash /\ sep2[2] = Slash
  OBVIOUS
<1>0. /\ sep \in Seq(C) /\ sep2 \in Seq(C) /\ Len(h) \in Nat /\ Len(pp) \in Nat /\ Len(path) \in Nat /\ a \in Nat
  BY <1>17
<1>15. url = s5
  BY <1>17 DEF UrlWith
<1> HIDE DEF sep, sep2, s5
<1>1. s1 \in Seq(C) /\ a + 2 = Len(s1) /\ (\A k \in 1 .. a : s1[k] = sc[k])
      /\ \A k \in 1 .. Len(sep2) : s1[a + k] = sep2[k]
  <2>1. /\ sc \o sep2 \in Seq(C) /\ Len(sc \o sep2) = Len(sc) + Len(sep2)
        /\ \A k \in 1 .. Len(sc) : (sc \o sep2)[k] = sc[k]
        /\ \A k \in 1 .. Len(sep2) : (sc \o sep2)[Len(sc) + k] = sep2[k]
    BY <1>0, Cat
  <2> QED
    BY <2>1, <1>0, <1>16, <1>17
<1> HIDE DEF s1
<1>2. s2 \in Seq(C) /\ m = Len(s2) /\ (\A k \in 1 .. a + 2 : s2[k] = s1[k])
      /\ \A k \in 1 .. Len(h) : s2[a + 2 + k] = h[k]
  <2>1. /\ s1 \o h \in Seq(C) /\ Len(s1 \o h) = Len(s1) + Len(h)
        /\ \A k \in 1 .. Len(s1) : (s1 \o h)[k] = s1[k]
        /\ \A k \in 1 .. Len(h) : (s1 \o h)[Len(s1) + k] = h[k]
    BY <1>0, <1>1, Cat
  <2> QED
    BY <2>1, <1>0, <1>1, <1>17
<1> HIDE DEF s2
<1>3. s3 \in Seq(C) /\ e = Len(s3) /\ (\A k \in 1 .. m : s3[k] = s2[k])
      /\ \A k \in 1 .. Len(pp) : s3[m + k] = pp[k]
  <2>1. /\ s2 \o pp \in Seq(C) /\ Len(s2 \o pp) = Len(s2) + Len(pp)
        /\ \A k \in 1 .. Len(s2) : (s2 \o pp)[k] = s2[k]
        /\ \A k \in 1 .. Len(pp) : (s2 \o pp)[Len(s2) + k] = pp[k]
    BY <1>0, <1>2, Cat
  <2> QED
    BY <2>1, <1>0, <1>2, <1>17
<1> HIDE DEF s3
<1>4. s4 \in Seq(C) /\ e + 1 = Len(s4) /\ (\A k \in 1 .. e : s4[k] = s3[k])
      /\ \A k \in 1 .. Len(sep) : s4[e + k] = sep[k]
  <2>1. /\ s3 \o sep \in Seq(C) /\ Len(s3 \o sep) = Len(s3) + Len(sep)
        /\ \A k \in 1 .. Len(s3) : (s3 \o sep)[k] = s3[k]
        /\ \A k \in 1 .. Len(sep) : (s3 \o sep)[Len(s3) + k] = sep[k]
    BY <1>0, <1>3, Cat
  <2> QED
    BY <2>1, <1>0, <1>3, <1>16, <1>17
<1> HIDE DEF s4
<1> USE DEF s5
<1>5. s5 \in Seq(C) /\ e + 1 + Len(path) = Len(s5) /\ (\A k \in 1 .. e + 1 : s5[k] = s4[k])
      /\ \A k \in 1 .. Len(path) : s5[e + 1 + k] = path[k]
  <2>1. /\ s4 \o path \in Seq(C) /\ Len(s4 \o path) = Len(s4) + Len(path)
        /\ \A k \in 1 .. Len(s4) : (s4 \o path)[k] = s4[k]
        /\ \A k \in 1 .. Len(path) : (s4 \o path)[Len(s4) + k] = path[k]
    BY <1>0, <1>4, Cat
  <2> QED
    BY <2>1, <1>0, <1>4
<1> HIDE DEF s5
<1>6. url \in Seq(C) /\ Len(url) = e + 1 + Len(path) /\ (\A k \in 1 .. e + 1 : url[k] = s4[k])
      /\ \A k \in 1 .. Len(path) : url[e + 1 + k] = path[k]
  BY <1>5, <1>15, <1>17
<1>7. a \in Nat /\ m \in Nat /\ e \in Nat /\ a + 2 <= m /\ m <= e
  BY <1>0, <1>17
<1>14. s1[a + 1] = Slash /\ s1[a + 2] = Slash /\ s4[e + 1] = Slash
  BY <1>0, <1>1, <1>4, <1>16
<1>8. \A k \in 1 .. e : url[k] = s3[k]
  <2>1. \A k \in 1 .. e : k \in 1 .. e + 1
    BY <1>7
  <2> QED
    BY <2>1, <1>4, <1>6
<1>9. \A k \in 1 .. m : url[k] = s2[k]
  <2>1. \A k \in 1 .. m : k \in 1 .. e
    BY <1>7
  <2> QED
    BY <2>1, <1>8, <1>3
<1>10. \A k \in 1 .. a + 2 : url[k] = s1[k]
  <2>1. \A k \in 1 .. a + 2 : k \in 1 .. m
    BY <1>7
  <2> QED
    BY <2>1, <1>9, <1>2
<1>11. \A k \in 1 .. Len(h) : url[a + 2 + k] = h[k]
  <2>1. \A k \in 1 .. Len(h) : a + 2 + k \in 1 .. m
    BY <1>0, <1>17
  <2> QED
    BY <2>1, <1>9, <1>2
<1>12. \A k \in 1 .. Len(pp) : url[m + k] = pp[k]
  <2>1. \A k \in 1 .. Len(pp) : m + k \in 1 .. e
    BY <1>0, <1>7, <1>17
  <2> QED
    BY <2>1, <1>8, <1>3
<1>13. url[a + 1] = Slash /\ url[a + 2] = Slash /\ url[e + 1] = Slash /\ \A k \in 1 .. a : url[k] = sc[k]
  <2>1. a + 1 \in 1 .. a + 2 /\ a + 2 \in 1 .. a + 2 /\ e + 1 \in 1 .. e + 1 /\ \A k \in 1 .. a : k \in 1 .. a + 2
    BY <1>7
  <2> QED
    BY <2>1, <1>1, <1>6, <1>10, <1>14
<1> QED
  BY <1>6, <1>7, <1>11, <1>12, <1>13 DEF Layout

\* The digits of the port end where the path begins.
LEMMA DigitsEndIs ==
  ASSUME NEW s, Len(s) \in Nat, NEW from \in Nat, NEW p \in from .. Len(s) + 1,
         p <= Len(s) => s[p] \notin Digit, \A q \in from .. p - 1 : s[q] \in Digit
  PROVE  DigitsEnd(s, from) = p
<1> DEFINE Is(q) == (q <= Len(s) => s[q] \notin Digit) /\ \A r \in from .. q - 1 : s[r] \in Digit
<1>1. ASSUME NEW q \in from .. Len(s) + 1, Is(q) PROVE q = p
  <2>1. CASE q < p
    <3>1. q \in from .. p - 1 /\ q <= Len(s)
      BY <2>1
    <3> QED
      BY <3>1, <1>1
  <2>2. CASE p < q
    <3>1. p \in from .. q - 1 /\ p <= Len(s)
      BY <2>2
    <3> QED
      BY <3>1, <1>1
  <2> QED
    BY <2>1, <2>2
<1>2. Is(p)
  OBVIOUS
<1>3. DigitsEnd(s, from) = CHOOSE q \in from .. Len(s) + 1 : Is(q)
  BY DEF DigitsEnd
<1> HIDE DEF Is
<1> QED
  BY <1>1, <1>2, <1>3

\* A number without zeros in front is printed as it is read.
LEMMA NumberIs ==
  ASSUME NEW s \in Seq(Digit), s # <<>>, s[1] # "0"
  PROVE  Number(s) = s
<1> DEFINE Is(n) == /\ Len(n) = 1 \/ n[1] # "0"
                    /\ \A p \in 1 .. Len(s) - Len(n) : s[p] = "0"
<1>1. Len(s) \in Nat /\ Len(s) >= 1 /\ SubSeq(s, 1, Len(s)) = s
  OBVIOUS
<1>2. s \in Suffixes(s) \ {<<>>} /\ Is(s)
  <2>1. 1 \in 1 .. Len(s)
    BY <1>1
  <2>2. s \in Suffixes(s)
    BY <2>1, <1>1 DEF Suffixes
  <2> QED
    BY <2>2, <1>1
<1>3. ASSUME NEW n \in Suffixes(s) \ {<<>>}, Is(n) PROVE n = s
  <2>1. PICK l \in 1 .. Len(s) : n = SubSeq(s, l, Len(s))
    BY <1>3 DEF Suffixes
  <2>2. Len(n) = Len(s) - l + 1
    BY <2>1, <1>1
  <2>3. CASE l = 1
    BY <2>1, <2>3, <1>1
  <2>4. CASE l # 1
    <3>1. 1 \in 1 .. Len(s) - Len(n)
      BY <2>2, <2>4, <1>1
    <3> QED
      BY <3>1, <1>3
  <2> QED
    BY <2>3, <2>4
<1>4. Number(s) = CHOOSE n \in Suffixes(s) \ {<<>>} : Is(n)
  BY DEF Number
<1> HIDE DEF Is
<1> QED
  BY <1>2, <1>3, <1>4

-----------------------------------------------------------------------------
(* parse_url() and parse_uri().                                             *)

\* parse_url() finds the host, the port and the path of a url of any length.
LEMMA UrlIs ==
  ASSUME text \in Urls
  PROVE  UrlRight
<1> DEFINE C == Plain \cup Digit \cup {Slash, Colon, "http"}
           sc == text.scheme
           h == text.host
           num == text.port
           pp == IF num = <<>> THEN <<>> ELSE <<Colon>> \o num
           path == text.path
           url == UrlOf(text)
           a == Len(sc)
           m == a + 2 + Len(h)
           e == m + Len(pp)
<1>1. SUFFICES ASSUME num # <<>> \/ IndexFrom(path, Colon, 1) = 0
               PROVE  parse_url(url) = [hostname |-> h, filename |-> <<Slash>> \o path,
                                        port |-> IF num = <<>> THEN <<"8", "0">> ELSE num]
  BY DEF UrlRight
<1>2. /\ sc \in Seq(C) /\ (sc = <<>> \/ sc = <<"http", Colon>>)
      /\ h \in Seq(Plain \cup Digit) /\ Len(h) >= 1 /\ h \in Seq(C)
      /\ num \in Seq(Digit) /\ (num # <<>> => num[1] # "0") /\ num \in Seq(C)
      /\ path \in Seq(C)
  <2>1. /\ sc \in {<<"http", Colon>>, <<>>} /\ h \in Upto(MaxWord, Plain \cup Digit) /\ h # <<>>
        /\ num \in Ports /\ path \in Upto(MaxPath, Plain \cup Digit \cup {Slash, Colon})
    BY DEF Urls
  <2>2. MaxWord \in Nat /\ MaxPath \in Nat /\ MaxDigits \in Nat
    BY TextsAssumption DEF TextsAssumption
  <2>3. num \in Upto(MaxDigits, Digit) /\ (num # <<>> => num[1] # "0")
    BY <2>1 DEF Ports
  <2> HIDE DEF sc, h, num, path
  <2>4. h \in Seq(Plain \cup Digit) /\ num \in Seq(Digit) /\ path \in Seq(Plain \cup Digit \cup {Slash, Colon})
    BY <2>1, <2>2, <2>3, UptoSeq
  <2>5. h \in Seq(C) /\ num \in Seq(C) /\ path \in Seq(C)
    BY <2>4
  <2>6. sc \in Seq(C)
    <3>1. "http" \in C /\ Colon \in C
      OBVIOUS
    <3> HIDE DEF C
    <3>2. <<>> \in Seq(C) /\ <<"http", Colon>> \in Seq(C)
      BY <3>1
    <3> QED
      BY <2>1, <3>2
  <2>7. Len(h) >= 1
    BY <2>1, <2>4
  <2> QED
    BY <2>1, <2>3, <2>4, <2>5, <2>6, <2>7
<1>3. /\ \A c \in Plain \cup Digit : c # Slash /\ c # Colon
      /\ "http" # Slash /\ Colon # Slash
      /\ Slash \notin Digit
  BY TextsAssumption DEF TextsAssumption, Slash, Colon
<1>4. pp \in Seq(C) /\ (num # <<>> => /\ Len(pp) = Len(num) + 1 /\ pp[1] = Colon
                                      /\ \A k \in 1 .. Len(num) : pp[k + 1] = num[k])
  <2> HIDE DEF num
  <2>1. CASE num = <<>>
    BY <2>1
  <2>2. CASE num # <<>>
    <3>1. <<Colon>> \in Seq(C)
      OBVIOUS
    <3> HIDE DEF C
    <3> QED
      BY <2>2, <3>1, <1>2
  <2> QED
    BY <2>1, <2>2
<1>5. url = UrlWith(sc, h, pp, path)
  BY DEF UrlOf, UrlWith
<1>6. Slash \in C
  OBVIOUS
<1> HIDE DEF sc, h, num, pp, path, url, C
<1>7. /\ url \in Seq(C) /\ a \in Nat /\ m \in Nat /\ e \in Nat /\ Len(url) = e + 1 + Len(path)
      /\ \A k \in 1 .. a : url[k] = sc[k]
      /\ url[a + 1] = Slash /\ url[a + 2] = Slash /\ url[e + 1] = Slash
      /\ \A k \in 1 .. Len(h) : url[a + 2 + k] = h[k]
      /\ \A k \in 1 .. Len(pp) : url[m + k] = pp[k]
      /\ \A k \in 1 .. Len(path) : url[e + 1 + k] = path[k]
  <2>2. sc \in Seq(C) /\ h \in Seq(C) /\ pp \in Seq(C) /\ path \in Seq(C)
    BY <1>2, <1>4
  <2>3. Layout(C, url, a, m, e, sc, h, pp, path)
    BY <2>2, <1>5, <1>6, UrlLayout
  <2> QED
    BY <2>3 DEF Layout
<1>8. Len(h) \in Nat /\ Len(pp) \in Nat /\ Len(num) \in Nat /\ Len(path) \in Nat
  BY <1>2, <1>4
<1> DEFINE Opens(p) == /\ url[p - 2] = Slash /\ url[p - 1] = Slash
                        /\ \A q \in 3 .. p - 1 : url[q - 2] # Slash \/ url[q - 1] # Slash
           host == CHOOSE p \in 3 .. Len(url) : Opens(p)
           idx == IndexFrom(url, Slash, host)
           port == PortAt(url, host)
           rest == DigitsEnd(url, port + 1)
<1>9. parse_url(url) =
        IF port # 0
        THEN [hostname |-> SubSeq(url, host, port - 1),
              port |-> Number(SubSeq(url, port + 1, rest - 1)), filename |-> After(url, rest)]
        ELSE [hostname |-> SubSeq(url, host, idx - 1), port |-> <<"8", "0">>, filename |-> After(url, idx)]
  BY DEF parse_url
<1>10. host = a + 3
  <2>1. a + 3 \in 3 .. Len(url)
    BY <1>2, <1>7, <1>8
  <2>2. ASSUME NEW q \in 3 .. a + 2 PROVE url[q - 2] # Slash \/ url[q - 1] # Slash
    <3>1. CASE sc = <<>>
      BY <3>1
    <3>2. CASE sc = <<"http", Colon>>
      <4>1. a = 2 /\ sc[1] = "http" /\ sc[2] = Colon
        BY <3>2
      <4>2. url[1] = "http" /\ url[2] = Colon
        BY <4>1, <1>7
      <4>3. q - 2 \in 1 .. 2
        BY <4>1
      <4> QED
        BY <4>2, <4>3, <1>3
    <3> QED
      BY <3>1, <3>2, <1>2
  <2>3. Opens(a + 3)
    <3>1. (a + 3) - 2 = a + 1 /\ (a + 3) - 1 = a + 2
      BY <1>7
    <3> QED
      BY <3>1, <2>2, <1>7
  <2>4. ASSUME NEW p \in 3 .. Len(url), Opens(p) PROVE p = a + 3
    <3>1. CASE p < a + 3
      <4>1. p \in 3 .. (a + 3) - 1
        BY <3>1, <1>7
      <4> QED
        BY <4>1, <2>3, <2>4
    <3>2. CASE a + 3 < p
      <4>1. a + 3 \in 3 .. p - 1
        BY <3>2, <1>7
      <4> QED
        BY <4>1, <2>3, <2>4
    <3> QED
      BY <3>1, <3>2, <1>7
  <2> HIDE DEF Opens
  <2> QED
    BY <2>1, <2>3, <2>4
<1> HIDE DEF host, a, m, e
<1>11. a + 2 + Len(h) = m /\ m + Len(pp) = e
  BY DEF m, e
<1>12. \A k \in 1 .. Len(h) : h[k] # Slash /\ h[k] # Colon
  BY <1>2, <1>3
<1>13. \A q \in a + 3 .. m : url[q] # Slash /\ url[q] # Colon
  <2>1. ASSUME NEW q \in a + 3 .. m PROVE url[q] # Slash /\ url[q] # Colon
    <3> DEFINE k == q - (a + 2)
    <3>1. k \in 1 .. Len(h) /\ a + 2 + k = q
      BY <1>7, <1>8, <1>11
    <3>2. url[q] = h[k]
      <4>1. url[a + 2 + k] = h[k]
        <5> HIDE DEF k
        <5> QED
          BY <3>1, <1>7
      <4> QED
        BY <3>1, <4>1
    <3> QED
      BY <3>1, <3>2, <1>12
  <2> QED
    BY <2>1
<1>14. SubSeq(url, a + 3, m) = h
  <2>1. a + 3 \in Nat \ {0} /\ m <= Len(url) /\ Len(h) = m - (a + 3) + 1
    BY <1>7, <1>8 DEF m, e
  <2>2. h \in Seq(C)
    BY <1>2
  <2>3. \A k \in 1 .. Len(h) : url[(a + 3) + k - 1] = h[k]
    <3>1. \A k \in 1 .. Len(h) : (a + 3) + k - 1 = a + 2 + k
      BY <1>7
    <3> QED
      BY <3>1, <1>7
  <2> QED
    BY <2>1, <2>2, <2>3, <1>7, SubSeqIs
<1>15. After(url, e + 1) = <<Slash>> \o path
  <2> DEFINE f == <<Slash>> \o path
             n == Len(url)
  <2>1. <<Slash>> \in Seq(C)
    BY <1>6
  <2>2. f \in Seq(C) /\ Len(f) = Len(path) + 1 /\ f[1] = Slash /\ \A k \in 1 .. Len(path) : f[k + 1] = path[k]
    BY <2>1, <1>2
  <2> HIDE DEF f
  <2>3. e + 1 \in Nat \ {0} /\ n \in Nat /\ n <= n /\ Len(f) = n - (e + 1) + 1
    BY <2>2, <1>7, <1>8
  <2>4. ASSUME NEW k \in 1 .. Len(f) PROVE url[(e + 1) + k - 1] = f[k]
    <3>1. CASE k = 1
      <4>1. (e + 1) + k - 1 = e + 1
        BY <3>1, <1>7
      <4> QED
        BY <4>1, <3>1, <2>2, <1>7
    <3>2. CASE k # 1
      <4> DEFINE j == k - 1
      <4>1. j \in 1 .. Len(path) /\ j + 1 = k /\ (e + 1) + k - 1 = e + 1 + j
        BY <3>2, <2>2, <1>7, <1>8
      <4> HIDE DEF j
      <4>2. url[e + 1 + j] = path[j] /\ f[j + 1] = path[j]
        BY <4>1, <2>2, <1>7
      <4> QED
        BY <4>1, <4>2
    <3> QED
      BY <3>1, <3>2
  <2>5. SubSeq(url, e + 1, n) = f
    BY <2>2, <2>3, <2>4, <1>7, SubSeqIs
  <2> QED
    BY <2>5 DEF After, f
<1>16. CASE num # <<>>
  <2>1. port = m + 1
    <3>1. m + 1 \in a + 3 .. Len(url) /\ Len(url) \in Nat
      BY <1>16, <1>2, <1>4, <1>7, <1>8, <1>11
    <3>2. 1 \in 1 .. Len(pp)
      BY <1>16, <1>4, <1>8
    <3>3. url[m + 1] = Colon
      BY <3>2, <1>16, <1>4, <1>7
    <3>4. \A q \in a + 3 .. (m + 1) - 1 : url[q] # Colon
      BY <1>13, <1>7
    <3>5. IndexFrom(url, Colon, a + 3) = m + 1
      <4>1. a + 3 \in Int
        BY <1>7
      <4> QED
        BY <3>1, <3>3, <3>4, <4>1, IndexIs
    <3> QED
      BY <3>5, <1>10 DEF PortAt
  <2>2. \A k \in 1 .. Len(num) : url[m + 1 + k] = num[k] /\ num[k] \in Digit
    <3>1. ASSUME NEW k \in 1 .. Len(num) PROVE url[m + 1 + k] = num[k] /\ num[k] \in Digit
      <4>1. k + 1 \in 1 .. Len(pp) /\ m + (k + 1) = m + 1 + k
        BY <1>16, <1>4, <1>7, <1>8
      <4>2. url[m + (k + 1)] = pp[k + 1] /\ pp[k + 1] = num[k]
        BY <4>1, <1>16, <1>4, <1>7
      <4> QED
        BY <4>1, <4>2, <1>2
    <3> QED
      BY <3>1
  <2>3. m + 1 + Len(num) = e
    <3>1. Len(pp) = Len(num) + 1
      BY <1>16, <1>4
    <3> QED
      BY <3>1, <1>11, <1>7, <1>8
  <2> HIDE DEF port
  <2>4. rest = e + 1
    <3>1. e + 1 \in m + 2 .. Len(url) + 1 /\ m + 2 \in Nat /\ Len(url) \in Nat
      BY <2>3, <1>7, <1>8
    <3>2. url[e + 1] \notin Digit
      BY <1>3, <1>7
    <3>3. ASSUME NEW q \in m + 2 .. (e + 1) - 1 PROVE url[q] \in Digit
      <4> DEFINE k == q - (m + 1)
      <4>1. k \in 1 .. Len(num) /\ m + 1 + k = q
        BY <2>3, <1>7, <1>8
      <4> HIDE DEF k
      <4>2. url[m + 1 + k] = num[k] /\ num[k] \in Digit
        BY <4>1, <2>2
      <4> QED
        BY <4>1, <4>2
    <3>4. DigitsEnd(url, m + 2) = e + 1
      BY <3>1, <3>2, <3>3, DigitsEndIs
    <3>5. port + 1 = m + 2
      BY <2>1, <1>7
    <3> QED
      BY <3>4, <3>5
  <2> HIDE DEF rest
  <2>5. SubSeq(url, m + 2, e) = num
    <3>1. m + 2 \in Nat \ {0} /\ e <= Len(url) /\ Len(num) = e - (m + 2) + 1
      BY <2>3, <1>7, <1>8
    <3>2. num \in Seq(C)
      BY <1>2
    <3>3. \A k \in 1 .. Len(num) : url[(m + 2) + k - 1] = num[k]
      <4>1. \A k \in 1 .. Len(num) : (m + 2) + k - 1 = m + 1 + k
        BY <1>7
      <4> QED
        BY <4>1, <2>2
    <3> QED
      BY <3>1, <3>2, <3>3, <1>7, SubSeqIs
  <2>6. Number(num) = num
    BY <1>16, <1>2, NumberIs
  <2>7. port # 0 /\ port - 1 = m /\ port + 1 = m + 2 /\ rest - 1 = e
    BY <2>1, <2>4, <1>7
  <2> QED
    BY <1>9, <1>10, <1>14, <1>15, <1>16, <2>4, <2>5, <2>6, <2>7
<1>17. CASE num = <<>>
  <2>1. pp = <<>> /\ e = m
    <3>1. pp = <<>>
      BY <1>17 DEF pp
    <3> QED
      BY <3>1, <1>7, <1>11
  <2>2. \A k \in 1 .. Len(path) : path[k] # Colon
    <3>1. ASSUME NEW k \in 1 .. Len(path), path[k] = Colon PROVE FALSE
      <4> DEFINE places == {p \in 1 .. Len(path) : path[p] = Colon}
      <4>1. places \in SUBSET Nat /\ k \in places /\ \A p \in places : p # 0 /\ p \in Nat
        BY <3>1
      <4>2. IndexFrom(path, Colon, 1) = IF places = {} THEN 0 ELSE CHOOSE p \in places : \A q \in places : p <= q
        BY DEF IndexFrom
      <4> HIDE DEF places
      <4>3. \E p \in places : \A q \in places : p <= q
        BY <4>1, LeastNat
      <4>4. IndexFrom(path, Colon, 1) \in places
        BY <4>1, <4>2, <4>3
      <4> QED
        BY <4>1, <4>4, <1>1, <1>17
    <3> QED
      BY <3>1
  <2>3. port = 0
    <3>1. ASSUME NEW q \in a + 3 .. Len(url) PROVE url[q] # Colon
      <4>1. CASE q <= m
        BY <4>1, <1>13, <1>7
      <4>2. CASE q = m + 1
        BY <4>2, <2>1, <1>3, <1>7
      <4>3. CASE q > m + 1
        <5> DEFINE k == q - (e + 1)
        <5>1. k \in 1 .. Len(path) /\ e + 1 + k = q
          BY <4>3, <2>1, <1>7, <1>8
        <5> HIDE DEF k
        <5>2. url[e + 1 + k] = path[k]
          BY <5>1, <1>7
        <5> QED
          BY <5>1, <5>2, <2>2
      <4> QED
        BY <4>1, <4>2, <4>3, <1>7
    <3>2. a + 3 \in Int
      BY <1>7
    <3>3. IndexFrom(url, Colon, a + 3) = 0
      BY <3>1, <3>2, IndexNone
    <3> QED
      BY <3>3, <1>10 DEF PortAt
  <2>4. idx = m + 1
    <3>1. a + 3 \in Int /\ m + 1 \in a + 3 .. Len(url) /\ Len(url) \in Nat
      BY <2>1, <1>2, <1>7, <1>8, <1>11
    <3>2. url[m + 1] = Slash
      BY <2>1, <1>7
    <3>3. \A q \in a + 3 .. (m + 1) - 1 : url[q] # Slash
      BY <1>13, <1>7
    <3>4. IndexFrom(url, Slash, a + 3) = m + 1
      BY <3>1, <3>2, <3>3, IndexIs
    <3> QED
      BY <3>4, <1>10
  <2> HIDE DEF port, idx
  <2>5. idx - 1 = m /\ idx = e + 1
    BY <2>1, <2>4, <1>7
  <2> QED
    BY <1>9, <1>10, <1>14, <1>15, <1>17, <2>3, <2>5
<1> QED
  BY <1>16, <1>17

\* index() finds what is there.
LEMMA IndexSome ==
  ASSUME NEW s, NEW c, NEW from \in Nat, from > 0, NEW k \in from .. Len(s), s[k] = c, Len(s) \in Nat
  PROVE  IndexFrom(s, c, from) # 0
<1> DEFINE places == {p \in from .. Len(s) : s[p] = c}
<1>1. places \in SUBSET Nat /\ k \in places /\ \A p \in places : p # 0 /\ p \in Nat
  OBVIOUS
<1>2. IndexFrom(s, c, from) = IF places = {} THEN 0 ELSE CHOOSE p \in places : \A q \in places : p <= q
  BY DEF IndexFrom
<1> HIDE DEF places
<1>3. \E p \in places : \A q \in places : p <= q
  BY <1>1, LeastNat
<1> QED
  BY <1>1, <1>2, <1>3

\* The first suffix of the list that a name has gives its type.
LEMMA FiletypeIs ==
  ASSUME NEW f
  PROVE  /\ \A k \in 1 .. 4 : Has(f, FILETYPES[k][1]) /\ (\A j \in 1 .. k - 1 : ~Has(f, FILETYPES[j][1])) =>
                                get_filetype(f) = FILETYPES[k][2]
         /\ (\A k \in 1 .. 4 : ~Has(f, FILETYPES[k][1])) => get_filetype(f) = "text/plain"
<1> DEFINE I == {i \in 1 .. 4 : Has(f, FILETYPES[i][1])}
           k0 == IF I # {} THEN CHOOSE p1 \in I : \A p2 \in I : p1 <= p2 ELSE 0
<1>1. Len(FILETYPES) = 4
  BY DEF FILETYPES
<1>2. get_filetype(f) = IF k0 = 0 THEN "text/plain" ELSE FILETYPES[k0][2]
  BY <1>1 DEF get_filetype, SelectInSeq, Min
<1>3. ASSUME NEW k \in 1 .. 4, Has(f, FILETYPES[k][1]), \A j \in 1 .. k - 1 : ~Has(f, FILETYPES[j][1])
      PROVE  get_filetype(f) = FILETYPES[k][2]
  <2>1. k \in I /\ \A p2 \in I : k <= p2 /\ p2 \in 1 .. 4
    <3>1. ASSUME NEW p2 \in I, ~(k <= p2) PROVE FALSE
      <4>1. p2 \in 1 .. k - 1
        BY <3>1
      <4> QED
        BY <4>1, <1>3
    <3> QED
      BY <3>1, <1>3
  <2> HIDE DEF I
  <2>2. k0 = k
    <3>1. \A p1 \in I : (\A p2 \in I : p1 <= p2) => p1 = k
      BY <2>1
    <3> QED
      BY <2>1, <3>1
  <2> HIDE DEF k0
  <2> QED
    BY <2>2, <1>2
<1>4. ASSUME \A k \in 1 .. 4 : ~Has(f, FILETYPES[k][1]) PROVE get_filetype(f) = "text/plain"
  BY <1>2, <1>4
<1> QED
  BY <1>3, <1>4

\* parse_uri() tells a program from a file, and takes both from their arguments.
LEMMA UriIs ==
  ASSUME text \in Uris
  PROVE  UriRight
<1> DEFINE C == Plain \cup Suffix \cup {Slash, CGI, HOME, "?", "."}
           path == text.path
           args == text.args
           qq == IF text.query THEN <<"?">> \o args ELSE <<>>
           uri == UriOf(text)
           n == Len(path)
           cgi == \E k \in DOMAIN path : path[k] = CGI
           name == <<".", Slash>> \o path
           base == <<Slash>> \o path
           suffix == IF Last(name) = Slash THEN ".html" ELSE Last(name)
           answer == parse_uri(uri)
<1>1. path \in Seq(C) /\ args \in Seq(C) /\ text.query \in BOOLEAN /\ n \in Nat /\ Len(args) \in Nat
      /\ (\A k \in 1 .. n : path[k] # "?") /\ (\A k \in 1 .. Len(args) : args[k] # CGI)
  <2>1. /\ path \in Upto(MaxPath, Plain \cup {Slash, CGI} \cup Suffix)
        /\ args \in Upto(MaxWord, Plain \cup {"?"}) /\ text.query \in BOOLEAN
    BY DEF Uris
  <2>2. MaxWord \in Nat /\ MaxPath \in Nat
    BY TextsAssumption DEF TextsAssumption
  <2> HIDE DEF path, args
  <2>3. path \in Seq(Plain \cup {Slash, CGI} \cup Suffix) /\ args \in Seq(Plain \cup {"?"})
    BY <2>1, <2>2, UptoSeq
  <2>4. path \in Seq(C) /\ args \in Seq(C)
    BY <2>3
  <2>5. \A c \in Plain \cup {Slash, CGI} \cup Suffix : c # "?"
    <3>1. Suffix = {".html", ".gif", ".png", ".jpg"}
      BY DEF Suffix, FILETYPES
    <3> QED
      BY <3>1, TextsAssumption DEF TextsAssumption, Slash, CGI
  <2>6. \A c \in Plain \cup {"?"} : c # CGI
    BY TextsAssumption DEF TextsAssumption, CGI
  <2>7. (\A k \in 1 .. n : path[k] # "?") /\ (\A k \in 1 .. Len(args) : args[k] # CGI)
    <3>1. \A k \in 1 .. n : path[k] \in Plain \cup {Slash, CGI} \cup Suffix
      BY <2>3
    <3>2. \A k \in 1 .. Len(args) : args[k] \in Plain \cup {"?"}
      BY <2>3
    <3> QED
      BY <3>1, <3>2, <2>5, <2>6
  <2> QED
    BY <2>1, <2>3, <2>4, <2>7
<1>2. Slash # CGI /\ Slash # "?" /\ CGI # "?"
  BY DEF Slash, CGI
<1>3. base \in Seq(C) /\ Len(base) = n + 1 /\ base[1] = Slash /\ \A k \in 1 .. n : base[k + 1] = path[k]
  <2>1. <<Slash>> \in Seq(C)
    OBVIOUS
  <2> HIDE DEF path, C
  <2> QED
    BY <1>1, <2>1
<1>4. name \in Seq(C) /\ name = <<".">> \o base /\ Len(name) = n + 2 /\ Last(name) = Last(base)
  <2>1. <<".", Slash>> \in Seq(C) /\ <<".">> \in Seq(C)
    OBVIOUS
  <2> HIDE DEF path, C
  <2>2. name \in Seq(C) /\ Len(name) = n + 2 /\ name[1] = "." /\ name[2] = Slash /\ \A k \in 1 .. n : name[k + 2] = path[k]
    BY <1>1, <2>1
  <2> DEFINE b == <<".">> \o base
  <2> HIDE DEF base
  <2>3. b \in Seq(C) /\ Len(b) = n + 2 /\ b[1] = "." /\ \A k \in 1 .. n + 1 : b[k + 1] = base[k]
    BY <1>3, <2>1, <1>1
  <2> HIDE DEF name, b
  <2>4. ASSUME NEW k \in 1 .. n + 2 PROVE name[k] = b[k]
    <3>1. CASE k = 1
      BY <3>1, <2>2, <2>3
    <3>2. CASE k = 2
      <4>1. 1 \in 1 .. n + 1 /\ 1 + 1 = 2
        BY <1>1
      <4> QED
        BY <4>1, <3>2, <2>2, <2>3, <1>3
    <3>3. CASE k > 2
      <4> DEFINE j == k - 2
      <4>1. j \in 1 .. n /\ j + 2 = k /\ j + 1 \in 1 .. n + 1 /\ (j + 1) + 1 = k
        BY <3>3, <1>1
      <4> HIDE DEF j
      <4>2. name[j + 2] = path[j] /\ base[j + 1] = path[j] /\ b[(j + 1) + 1] = base[j + 1]
        BY <4>1, <2>2, <2>3, <1>3
      <4> QED
        BY <4>1, <4>2
    <3> QED
      BY <3>1, <3>2, <3>3
  <2>5. name = b
    <3>1. name = [k \in 1 .. n + 2 |-> name[k]] /\ b = [k \in 1 .. n + 2 |-> b[k]]
      BY <2>2, <2>3
    <3> QED
      BY <3>1, <2>4
  <2>6. Last(name) = Last(base)
    <3>1. n + 1 \in 1 .. n + 1 /\ (n + 1) + 1 = n + 2
      BY <1>1
    <3>2. b[(n + 1) + 1] = base[n + 1]
      BY <3>1, <2>3
    <3>3. name[n + 2] = base[n + 1]
      BY <3>1, <3>2, <2>5
    <3> QED
      BY <3>3, <2>2, <1>3 DEF Last
  <2> QED
    BY <2>2, <2>5, <2>6 DEF b
<1>5. uri = base \o qq
  BY DEF UriOf
<1>6. qq \in Seq(C) /\ (text.query => /\ Len(qq) = Len(args) + 1 /\ qq[1] = "?"
                                      /\ \A k \in 1 .. Len(args) : qq[k + 1] = args[k])
  <2>1. <<"?">> \in Seq(C) /\ <<>> \in Seq(C)
    OBVIOUS
  <2> HIDE DEF args, C
  <2>2. CASE text.query
    BY <2>1, <2>2, <1>1
  <2>3. CASE ~text.query
    BY <2>1, <2>3
  <2> QED
    BY <2>2, <2>3
<1>7. uri \in Seq(C) /\ Len(uri) = n + 1 + Len(qq) /\ (\A k \in 1 .. n + 1 : uri[k] = base[k])
      /\ Len(qq) \in Nat /\ \A k \in 1 .. Len(qq) : uri[n + 1 + k] = qq[k]
  <2> HIDE DEF base, qq, uri, C
  <2>1. /\ base \o qq \in Seq(C) /\ Len(base \o qq) = Len(base) + Len(qq) /\ Len(qq) \in Nat
        /\ \A k \in 1 .. Len(base) : (base \o qq)[k] = base[k]
        /\ \A k \in 1 .. Len(qq) : (base \o qq)[Len(base) + k] = qq[k]
    <3>1. base \in Seq(C) /\ qq \in Seq(C)
      BY <1>3, <1>6
    <3> QED
      BY <3>1, Cat
  <2> QED
    BY <2>1, <1>3, <1>5
<1>8. ~text.query => uri = base /\ qq = <<>>
  <2>1. ASSUME ~text.query PROVE uri = base /\ qq = <<>>
    <3>1. qq = <<>>
      BY <2>1
    <3> HIDE DEF qq, base, uri
    <3> QED
      BY <3>1, <1>3, <1>5
  <2> QED
    BY <2>1
<1> HIDE DEF base, qq, C
<1>9. text.query => SubSeq(uri, 1, n + 1) = base /\ After(uri, n + 3) = args
  <2> SUFFICES ASSUME text.query PROVE SubSeq(uri, 1, n + 1) = base /\ After(uri, n + 3) = args
    OBVIOUS
  <2> HIDE DEF uri, path, args
  <2>1. Len(uri) = n + 2 + Len(args)
    <3>1. Len(qq) = Len(args) + 1
      BY <1>6
    <3> QED
      BY <3>1, <1>7, <1>1
  <2>2. SubSeq(uri, 1, n + 1) = base
    <3>1. 1 \in Nat \ {0} /\ n + 1 \in Nat /\ n + 1 <= Len(uri) /\ Len(base) = (n + 1) - 1 + 1
      BY <1>1, <1>3, <2>1
    <3>2. \A k \in 1 .. Len(base) : uri[1 + k - 1] = base[k]
      <4>1. \A k \in 1 .. n + 1 : 1 + k - 1 = k
        BY <1>1
      <4> QED
        BY <4>1, <1>3, <1>7
    <3> QED
      BY <3>1, <3>2, <1>3, <1>7, SubSeqIs
  <2>3. SubSeq(uri, n + 3, Len(uri)) = args
    <3> DEFINE u == Len(uri)
    <3>1. n + 3 \in Nat \ {0} /\ u \in Nat /\ u <= u /\ Len(args) = u - (n + 3) + 1
      BY <1>1, <2>1
    <3>2. ASSUME NEW k \in 1 .. Len(args) PROVE uri[(n + 3) + k - 1] = args[k]
      <4>1. k + 1 \in 1 .. Len(qq) /\ n + 1 + (k + 1) = (n + 3) + k - 1
        BY <1>1, <1>6
      <4>2. uri[n + 1 + (k + 1)] = qq[k + 1] /\ qq[k + 1] = args[k]
        BY <4>1, <1>6, <1>7
      <4> QED
        BY <4>1, <4>2
    <3>3. args \in Seq(C) /\ uri \in Seq(C) /\ u = Len(uri)
      BY <1>1, <1>7
    <3> HIDE DEF u, n
    <3>4. SubSeq(uri, n + 3, u) = args
      BY <3>1, <3>2, <3>3, SubSeqIs
    <3> QED
      BY <3>3, <3>4
  <2> QED
    BY <2>2, <2>3 DEF After
<1> DEFINE ptr == IndexFrom(uri, "?", 1)
           i == IndexFrom(uri, CGI, 1)
<1>10. ptr = IF text.query THEN n + 2 ELSE 0
  <2> HIDE DEF uri, path, args
  <2>1. \A k \in 1 .. n + 1 : uri[k] # "?"
    <3>1. ASSUME NEW k \in 1 .. n + 1 PROVE base[k] # "?"
      <4>1. CASE k = 1
        BY <4>1, <1>2, <1>3
      <4>2. CASE k # 1
        <5>1. k - 1 \in 1 .. n /\ (k - 1) + 1 = k
          BY <4>2, <1>1
        <5>2. base[(k - 1) + 1] = path[k - 1]
          BY <5>1, <1>3
        <5> QED
          BY <5>1, <5>2, <1>1
      <4> QED
        BY <4>1, <4>2
    <3> QED
      BY <3>1, <1>7
  <2>2. CASE text.query
    <3>1. 1 \in 1 .. Len(qq) /\ n + 1 + 1 = n + 2
      BY <2>2, <1>1, <1>6
    <3>2. uri[n + 2] = "?"
      <4>1. uri[n + 1 + 1] = qq[1]
        BY <3>1, <1>7
      <4> QED
        BY <4>1, <3>1, <2>2, <1>6
    <3>3. n + 2 \in 1 .. Len(uri) /\ Len(uri) \in Nat
      BY <2>2, <1>1, <1>6, <1>7
    <3>4. 1 \in Int /\ \A q \in 1 .. (n + 2) - 1 : uri[q] # "?"
      BY <2>1, <1>1
    <3> QED
      BY <3>2, <3>3, <3>4, <2>2, IndexIs
  <2>3. CASE ~text.query
    <3>1. Len(uri) = n + 1
      BY <2>3, <1>3, <1>8
    <3>2. \A k \in 1 .. Len(uri) : uri[k] # "?"
      BY <3>1, <2>1
    <3>3. 1 \in Int
      OBVIOUS
    <3> QED
      BY <3>2, <3>3, <2>3, IndexNone
  <2> QED
    BY <2>2, <2>3
<1>11. (i # 0) <=> cgi
  <2> HIDE DEF uri, args
  <2>1. ASSUME cgi PROVE i # 0
    <3>1. PICK k \in 1 .. n : path[k] = CGI
      BY <1>1, <2>1
    <3> HIDE DEF path
    <3>2. k + 1 \in 1 .. n + 1 /\ k + 1 \in 1 .. Len(uri) /\ Len(uri) \in Nat /\ 1 \in Nat /\ 1 > 0
      BY <1>1, <1>7
    <3>3. uri[k + 1] = CGI
      BY <3>1, <3>2, <1>3, <1>7
    <3> QED
      BY <3>2, <3>3, IndexSome
  <2>2. ASSUME ~cgi PROVE i = 0
    <3>0. DOMAIN path = 1 .. n
      BY <1>1
    <3>1. ASSUME NEW k \in 1 .. Len(uri) PROVE uri[k] # CGI
      <4> HIDE DEF path
      <4>1. CASE k = 1
        BY <4>1, <1>1, <1>2, <1>3, <1>7
      <4>2. CASE k \in 2 .. n + 1
        <5>1. k - 1 \in 1 .. n /\ (k - 1) + 1 = k
          BY <4>2, <1>1
        <5>2. base[(k - 1) + 1] = path[k - 1]
          BY <5>1, <1>3
        <5>3. uri[k] = base[k]
          BY <4>2, <1>1, <1>7
        <5> QED
          BY <5>1, <5>2, <5>3, <2>2, <3>0
      <4>3. CASE k > n + 1
        <5>1. text.query
          <6>1. ASSUME ~text.query PROVE FALSE
            <7>1. Len(uri) = n + 1
              BY <6>1, <1>3, <1>8
            <7> QED
              BY <7>1, <4>3, <1>1
          <6> QED
            BY <6>1
        <5> DEFINE j == k - (n + 1)
        <5>2. j \in 1 .. Len(qq) /\ n + 1 + j = k
          BY <4>3, <1>1, <1>7
        <5>3. uri[k] = qq[j]
          <6> HIDE DEF j
          <6>1. uri[n + 1 + j] = qq[j]
            BY <5>2, <1>7
          <6> QED
            BY <6>1, <5>2
        <5>4. CASE j = 1
          BY <5>1, <5>3, <5>4, <1>2, <1>6
        <5>5. CASE j # 1
          <6> HIDE DEF j
          <6>1. j - 1 \in 1 .. Len(args) /\ (j - 1) + 1 = j
            BY <5>1, <5>2, <5>5, <1>1, <1>6
          <6>2. qq[(j - 1) + 1] = args[j - 1]
            BY <6>1, <5>1, <1>6
          <6> QED
            BY <6>1, <6>2, <5>3, <1>1
        <5> QED
          BY <5>4, <5>5
      <4> QED
        BY <4>1, <4>2, <4>3, <1>1, <1>7
    <3>2. 1 \in Int
      OBVIOUS
    <3> QED
      BY <3>1, <3>2, IndexNone
  <2> QED
    BY <2>1, <2>2
<1>12. CASE cgi
  <2> HIDE DEF uri, cgi, path, args
  <2>1. answer = IF ptr = 0 THEN [static |-> FALSE, cgiargs |-> <<>>, filename |-> <<".">> \o uri]
                 ELSE [static |-> FALSE, cgiargs |-> After(uri, ptr + 1),
                       filename |-> <<".">> \o SubSeq(uri, 1, ptr - 1)]
    BY <1>11, <1>12 DEF parse_uri
  <2> HIDE DEF answer, ptr, name
  <2>2. CASE text.query
    <3>1. ptr # 0 /\ ptr + 1 = n + 3 /\ ptr - 1 = n + 1
      BY <2>2, <1>1, <1>10
    <3>2. answer = [static |-> FALSE, cgiargs |-> args, filename |-> name]
      BY <3>1, <2>1, <2>2, <1>4, <1>9
    <3>3. ~answer.static /\ answer.filename = name /\ answer.cgiargs = args
      BY <3>2
    <3> QED
      BY <3>3, <2>2, <1>12 DEF UriRight, name, answer, uri, path, args, cgi
  <2>3. CASE ~text.query
    <3>1. answer = [static |-> FALSE, cgiargs |-> <<>>, filename |-> name]
      BY <2>1, <2>3, <1>4, <1>8, <1>10
    <3>2. ~answer.static /\ answer.filename = name /\ answer.cgiargs = <<>>
      BY <3>1
    <3> QED
      BY <3>2, <2>3, <1>12 DEF UriRight, name, answer, uri, path, args, cgi
  <2> QED
    BY <2>2, <2>3
<1>13. CASE ~cgi
  <2> HIDE DEF uri, cgi, path, args
  <2>1. answer = [static |-> TRUE, cgiargs |-> <<>>,
                  filename |-> <<".">> \o uri \o IF Last(uri) = Slash THEN <<HOME>> ELSE <<>>]
    BY <1>11, <1>13 DEF parse_uri
  <2> HIDE DEF answer, ptr, name
  <2> DEFINE file == answer.filename
  <2>2. answer.static /\ answer.cgiargs = <<>>
        /\ file = <<".">> \o uri \o IF Last(uri) = Slash THEN <<HOME>> ELSE <<>>
    BY <2>1
  <2>3. ~text.query => file = IF Last(name) = Slash THEN name \o <<HOME>> ELSE name
    <3>1. name \o <<>> = name
      BY <1>4
    <3> HIDE DEF file
    <3> QED
      BY <2>2, <3>1, <1>4, <1>8
  <2>4. Len(name) \in 1 .. Len(name) /\ DOMAIN name = 1 .. Len(name)
    BY <1>1, <1>4
  <2>5. Has(name, Last(name)) /\ (\A f : f = name \o <<HOME>> => Has(f, ".html"))
    <3>1. Has(name, Last(name))
      BY <2>4 DEF Has, Last
    <3>2. ASSUME NEW f, f = name \o <<HOME>> PROVE Has(f, ".html")
      <4>1. Len(name) + 1 \in DOMAIN f /\ f[Len(name) + 1] = HOME
        BY <3>2, <1>4
      <4> QED
        BY <4>1 DEF Has
    <3> QED
      BY <3>1, <3>2
  <2>6. DOMAIN FILETYPES = 1 .. 4 /\ FILETYPES[1][1] = ".html" /\ \A k \in 1 .. 4 : FILETYPES[k][1] = ".html" => k = 1
    BY DEF FILETYPES
  <2>7. ASSUME ~text.query, NEW k \in DOMAIN FILETYPES, suffix = FILETYPES[k][1],
               \A j \in 1 .. k - 1 : ~Has(name, FILETYPES[j][1])
        PROVE  get_filetype(file) = FILETYPES[k][2]
    <3> HIDE DEF file
    <3>1. k \in 1 .. 4
      BY <2>6
    <3>2. CASE Last(name) = Slash
      <4>1. k = 1 /\ Has(file, FILETYPES[k][1])
        BY <2>3, <2>5, <2>6, <2>7, <3>1, <3>2
      <4>2. \A j \in 1 .. k - 1 : ~Has(file, FILETYPES[j][1])
        BY <4>1
      <4> QED
        BY <3>1, <4>1, <4>2, FiletypeIs
    <3>3. CASE Last(name) # Slash
      <4>1. file = name /\ suffix = Last(name)
        BY <2>3, <2>7, <3>3
      <4>2. Has(file, FILETYPES[k][1]) /\ \A j \in 1 .. k - 1 : ~Has(file, FILETYPES[j][1])
        BY <4>1, <2>5, <2>7
      <4> QED
        BY <3>1, <4>2, FiletypeIs
    <3> QED
      BY <3>2, <3>3
  <2>8. ASSUME ~text.query, suffix # ".html", \A e \in Suffix : ~Has(name, e)
        PROVE  get_filetype(file) = "text/plain"
    <3> HIDE DEF file
    <3>1. file = name
      BY <2>3, <2>8
    <3>2. \A k \in 1 .. 4 : ~Has(file, FILETYPES[k][1])
      BY <2>6, <2>8, <3>1 DEF Suffix
    <3> QED
      BY <3>2, FiletypeIs
  <2> HIDE DEF suffix
  <2> DEFINE Typed ==
        /\ file = IF Last(name) = Slash THEN name \o <<HOME>> ELSE name
        /\ \A k \in DOMAIN FILETYPES :
             suffix = FILETYPES[k][1] /\ (\A j \in 1 .. k - 1 : ~Has(name, FILETYPES[j][1])) =>
             get_filetype(file) = FILETYPES[k][2]
        /\ suffix # ".html" /\ (\A e \in Suffix : ~Has(name, e)) => get_filetype(file) = "text/plain"
  <2>9. ~text.query => Typed
    BY <2>3, <2>7, <2>8
  <2>10. UriRight = IF cgi THEN ~answer.static /\ answer.filename = name /\ answer.cgiargs = IF text.query THEN args ELSE <<>>
                    ELSE answer.static /\ answer.cgiargs = <<>> /\ (~text.query => Typed)
    BY Zenon DEF UriRight, name, answer, uri, path, args, cgi, suffix
  <2> HIDE DEF Typed
  <2> QED
    BY <2>2, <2>9, <2>10, <1>13
<1> QED
  BY <1>12, <1>13

-----------------------------------------------------------------------------
(* parseline(): what FlattenSeq() puts where, what one round of the loop does,*)
(* and that the rounds find the arguments.                                  *)

LEMMA AtMostSum ==
  ASSUME NEW a \in Nat, NEW b \in Nat, NEW c \in Nat, NEW d \in Nat, a <= b, c = b + d
  PROVE  a <= c
  OBVIOUS

Flattened(C, seqs, n, begin, flat) ==
  /\ begin \in [1 .. n + 1 -> Nat] /\ begin[1] = 0 /\ flat \in Seq(C) /\ Len(flat) = begin[n + 1]
  /\ \A k \in 1 .. n : /\ begin[k + 1] = begin[k] + Len(seqs[k]) /\ begin[k + 1] <= begin[n + 1]
                       /\ \A j \in 1 .. Len(seqs[k]) : flat[begin[k] + j] = seqs[k][j]

\* FlattenSeq() puts each part behind those before it.
LEMMA FlattenIs ==
  ASSUME NEW C, NEW seqs \in Seq(Seq(C)), NEW n, n = Len(seqs)
  PROVE  \E begin : Flattened(C, seqs, n, begin, FlattenSeq(seqs))
<1>1. n \in Nat /\ \A k \in 1 .. n : seqs[k] \in Seq(C) /\ Len(seqs[k]) \in Nat
  OBVIOUS
<1>2. CASE n = 0
  <2> DEFINE begin == [k \in 1 .. n + 1 |-> 0]
  <2>1. seqs = <<>> /\ Len(<<>>) = 0
    <3>1. Len(seqs) = 0
      BY <1>2
    <3>2. seqs = <<>>
      BY <3>1, EmptySeq
    <3> QED
      BY <3>1, <3>2
  <2>2. FlattenSeq(seqs) = <<>>
    BY <2>1 DEF FlattenSeq
  <2>3. begin \in [1 .. n + 1 -> Nat] /\ begin[1] = 0 /\ begin[n + 1] = 0 /\ <<>> \in Seq(C)
    BY <1>2
  <2> HIDE DEF begin
  <2>4. \A k \in 1 .. n : FALSE
    BY <1>2
  <2> QED
    BY <2>1, <2>2, <2>3, <2>4 DEF Flattened
<1>3. CASE n # 0
  <2> DEFINE D == 1 .. n
             V == Seq(C)
             body(f) == [i \in D |-> IF i = 1 THEN seqs[i] ELSE f[i - 1] \o seqs[i]]
             G == [f \in [D -> V] |-> body(f)]
             rank == [i \in D |-> i]
  <2>1. \A i \in D : seqs[i] \in V /\ (i # 1 => i - 1 \in D /\ rank[i - 1] < rank[i])
    BY <1>1
  <2>2. \A f \in [D -> V] : body(f) \in [D -> V]
    <3> HIDE DEF D
    <3>1. ASSUME NEW f \in [D -> V], NEW i \in D PROVE body(f)[i] \in V
      <4>1. CASE i = 1
        BY <4>1, <2>1
      <4>2. CASE i # 1
        <5>1. f[i - 1] \in V /\ seqs[i] \in V
          BY <4>2, <2>1
        <5>2. f[i - 1] \o seqs[i] \in V
          BY <5>1, Cat
        <5> QED
          BY <5>2, <4>2
      <4> QED
        BY <4>1, <4>2
    <3> QED
      BY <3>1
  <2>3. rank \in [D -> Nat] /\ G \in [[D -> V] -> [D -> V]]
    <3>1. rank \in [D -> Nat]
      OBVIOUS
    <3> HIDE DEF D, V
    <3> QED
      BY <2>2, <3>1
  <2>4. ASSUME NEW f \in [D -> V], NEW g \in [D -> V], NEW i \in D,
               \A j \in D : rank[j] < rank[i] => f[j] = g[j]
        PROVE  G[f][i] = G[g][i]
    <3> HIDE DEF D, V
    <3>1. CASE i = 1
      BY <3>1
    <3>2. CASE i # 1
      <4>1. f[i - 1] = g[i - 1]
        BY <3>2, <2>1, <2>4
      <4> QED
        BY <4>1
    <3> QED
      BY <3>1, <3>2
  <2>5. \E f \in [D -> V] : G[f] = f
    <3>1. <<>> \in V
      OBVIOUS
    <3> HIDE DEF D, V, G, rank
    <3>2. Recursive(D, V, rank, G)
      BY <2>3, <2>4 DEF Recursive
    <3> QED
      BY <3>1, <3>2, FixpointExists
  <2> DEFINE f == CHOOSE g : g = body(g)
  <2>6. f = body(f)
    <3>1. PICK g \in [D -> V] : G[g] = g
      BY <2>5
    <3>2. g = body(g)
      BY <3>1
    <3> QED
      BY <3>2
  <2>7. FlattenSeq(seqs) = f[n]
    BY <1>3 DEF FlattenSeq
  <2> HIDE DEF f
  <2>8. f[1] = seqs[1]
    <3>1. 1 \in D
      BY <1>1, <1>3
    <3> HIDE DEF D
    <3> QED
      BY <2>6, <3>1
  <2>9. ASSUME NEW i \in 2 .. n PROVE f[i] = f[i - 1] \o seqs[i]
    <3>1. i \in D /\ i # 1
      BY <1>1
    <3> HIDE DEF D
    <3> QED
      BY <2>6, <3>1
  <2> DEFINE P1 == {i \in 1 .. n : f[i] \in Seq(C)}
  <2>10. ASSUME NEW i \in 1 .. n, \A j \in 1 .. i - 1 : j \in P1 PROVE i \in P1
    <3>1. CASE i = 1
      BY <3>1, <2>8, <1>1
    <3>2. CASE i # 1
      <4>1. i \in 2 .. n /\ i - 1 \in 1 .. i - 1
        BY <3>2, <1>1
      <4>2. f[i - 1] \in Seq(C) /\ seqs[i] \in Seq(C)
        BY <4>1, <2>10, <1>1
      <4>3. f[i - 1] \o seqs[i] \in Seq(C)
        BY <4>2, Cat
      <4> QED
        BY <4>1, <4>3, <2>9
    <3> QED
      BY <3>1, <3>2
  <2>11. \A i \in 1 .. n : f[i] \in Seq(C) /\ Len(f[i]) \in Nat
    <3>1. \A i \in 1 .. n : i \in P1
      <4>1. P1 \in SUBSET (1 .. n) /\ 1 \in Int /\ n \in Int
        BY <1>1
      <4> HIDE DEF P1
      <4> QED
        BY <4>1, <2>10, Upwards
    <3> QED
      BY <3>1
  <2> DEFINE begin == [k \in 1 .. n + 1 |-> IF k = 1 THEN 0 ELSE Len(f[k - 1])]
  <2>12. begin[1] = 0 /\ (\A k \in 2 .. n + 1 : begin[k] = Len(f[k - 1])) /\ begin[n + 1] = Len(f[n])
    BY <1>1, <1>3
  <2>13. begin \in [1 .. n + 1 -> Nat]
    <3>1. ASSUME NEW k \in 1 .. n + 1 PROVE begin[k] \in Nat
      <4>1. CASE k = 1
        BY <4>1
      <4>2. CASE k # 1
        <5>1. k - 1 \in 1 .. n
          BY <4>2, <1>1
        <5> QED
          BY <5>1, <4>2, <2>11
      <4> QED
        BY <4>1, <4>2
    <3> QED
      BY <3>1
  <2> HIDE DEF begin
  <2>14. ASSUME NEW k \in 1 .. n
         PROVE  /\ begin[k + 1] = Len(f[k]) /\ begin[k + 1] = begin[k] + Len(seqs[k])
                /\ \A j \in 1 .. Len(seqs[k]) : f[k][begin[k] + j] = seqs[k][j]
    <3>1. k + 1 \in 2 .. n + 1 /\ (k + 1) - 1 = k /\ seqs[k] \in Seq(C) /\ Len(seqs[k]) \in Nat
      BY <1>1
    <3>2. begin[k + 1] = Len(f[k])
      BY <3>1, <2>12
    <3>3. CASE k = 1
      <4>1. \A j \in 1 .. Len(seqs[k]) : 0 + j = j
        BY <3>1
      <4> QED
        BY <4>1, <3>1, <3>2, <3>3, <2>8, <2>12
    <3>4. CASE k # 1
      <4>1. k \in 2 .. n /\ k \in 2 .. n + 1 /\ k - 1 \in 1 .. n
        BY <3>4, <1>1
      <4>2. f[k] = f[k - 1] \o seqs[k] /\ f[k - 1] \in Seq(C)
        BY <4>1, <2>9, <2>11
      <4>3. begin[k] = Len(f[k - 1])
        BY <4>1, <2>12
      <4>5. /\ f[k - 1] \o seqs[k] \in Seq(C)
            /\ Len(f[k - 1] \o seqs[k]) = Len(f[k - 1]) + Len(seqs[k])
            /\ \A j \in 1 .. Len(seqs[k]) : (f[k - 1] \o seqs[k])[Len(f[k - 1]) + j] = seqs[k][j]
        <5>1. f[k - 1] \in Seq(C) /\ seqs[k] \in Seq(C)
          BY <4>2, <3>1
        <5> DEFINE u == f[k - 1]
                   w == seqs[k]
        <5>2. u \in Seq(C) /\ w \in Seq(C)
          BY <5>1
        <5> HIDE DEF u, w
        <5>3. /\ u \o w \in Seq(C) /\ Len(u \o w) = Len(u) + Len(w)
              /\ (\A j \in 1 .. Len(u) : (u \o w)[j] = u[j])
              /\ (\A j \in 1 .. Len(w) : (u \o w)[Len(u) + j] = w[j])
          BY <5>2, Cat
        <5> QED
          BY <5>3 DEF u, w
      <4>4. /\ Len(f[k]) = Len(f[k - 1]) + Len(seqs[k])
            /\ \A j \in 1 .. Len(seqs[k]) : f[k][Len(f[k - 1]) + j] = seqs[k][j]
        BY <4>2, <4>5
      <4> QED
        BY <3>2, <4>3, <4>4
    <3> QED
      BY <3>3, <3>4
  <2> DEFINE P2 == {i \in 1 .. n : \A k \in 1 .. i : /\ Len(f[k]) <= Len(f[i])
                                                     /\ \A j \in 1 .. Len(f[k]) : f[i][j] = f[k][j]}
  <2>15. ASSUME NEW i \in 1 .. n, \A j \in 1 .. i - 1 : j \in P2 PROVE i \in P2
    <3> SUFFICES ASSUME NEW k \in 1 .. i
                 PROVE  Len(f[k]) <= Len(f[i]) /\ \A j \in 1 .. Len(f[k]) : f[i][j] = f[k][j]
      OBVIOUS
    <3>1. CASE k = i
      BY <3>1, <2>11
    <3>2. CASE k # i
      <4>1. i - 1 \in 1 .. i - 1 /\ i \in 2 .. n /\ k \in 1 .. i - 1 /\ i - 1 \in 1 .. n /\ k \in 1 .. n
        BY <3>2, <1>1
      <4>2. Len(f[k]) <= Len(f[i - 1]) /\ \A j \in 1 .. Len(f[k]) : f[i - 1][j] = f[k][j]
        BY <4>1, <2>15
      <4>3. f[i] = f[i - 1] \o seqs[i] /\ f[i - 1] \in Seq(C) /\ seqs[i] \in Seq(C)
        BY <4>1, <2>9, <2>11, <1>1
      <4>8. /\ f[i - 1] \o seqs[i] \in Seq(C)
            /\ Len(f[i - 1] \o seqs[i]) = Len(f[i - 1]) + Len(seqs[i])
            /\ \A j \in 1 .. Len(f[i - 1]) : (f[i - 1] \o seqs[i])[j] = f[i - 1][j]
        <5>1. f[i - 1] \in Seq(C) /\ seqs[i] \in Seq(C)
          BY <4>3
        <5> DEFINE u == f[i - 1]
                   w == seqs[i]
        <5>2. u \in Seq(C) /\ w \in Seq(C)
          BY <5>1
        <5> HIDE DEF u, w
        <5>3. /\ u \o w \in Seq(C) /\ Len(u \o w) = Len(u) + Len(w)
              /\ (\A j \in 1 .. Len(u) : (u \o w)[j] = u[j])
              /\ (\A j \in 1 .. Len(w) : (u \o w)[Len(u) + j] = w[j])
          BY <5>2, Cat
        <5> QED
          BY <5>3 DEF u, w
      <4>4. Len(f[i]) = Len(f[i - 1]) + Len(seqs[i]) /\ \A j \in 1 .. Len(f[i - 1]) : f[i][j] = f[i - 1][j]
        BY <4>3, <4>8
      <4>5. Len(f[k]) \in Nat /\ Len(f[i - 1]) \in Nat /\ Len(seqs[i]) \in Nat /\ Len(f[i]) \in Nat
        BY <4>1, <2>11, <1>1
      <4>6. \A j \in 1 .. Len(f[k]) : j \in 1 .. Len(f[i - 1])
        BY <4>2, <4>5
      <4>7. Len(f[k]) <= Len(f[i])
        <5>1. Len(f[k]) <= Len(f[i - 1]) /\ Len(f[i]) = Len(f[i - 1]) + Len(seqs[i])
          BY <4>2, <4>4
        <5> QED
          BY <5>1, <4>5, AtMostSum
      <4> QED
        BY <4>2, <4>4, <4>6, <4>7
    <3> QED
      BY <3>1, <3>2
  <2>16. n \in P2
    <3>1. P2 \in SUBSET (1 .. n) /\ 1 \in Int /\ n \in Int /\ n \in 1 .. n
      BY <1>1, <1>3
    <3> HIDE DEF P2
    <3> QED
      BY <3>1, <2>15, Upwards
  <2>17. ASSUME NEW k \in 1 .. n
         PROVE  begin[k + 1] <= begin[n + 1] /\ \A j \in 1 .. Len(seqs[k]) : f[n][begin[k] + j] = seqs[k][j]
    <3>1. Len(f[k]) <= Len(f[n]) /\ \A j \in 1 .. Len(f[k]) : f[n][j] = f[k][j]
      BY <2>16
    <3>2. begin[k + 1] <= begin[n + 1]
      BY <3>1, <2>12, <2>14
    <3>3. \A j \in 1 .. Len(seqs[k]) : begin[k] + j \in 1 .. Len(f[k])
      <4>1. begin[k] \in Nat /\ Len(seqs[k]) \in Nat /\ Len(f[k]) = begin[k] + Len(seqs[k])
        <5>1. k \in 1 .. n + 1
          BY <1>1
        <5> QED
          BY <5>1, <2>13, <2>14, <1>1
      <4> QED
        BY <4>1
    <3> QED
      BY <3>1, <3>2, <3>3, <2>14
  <2>18. f[n] \in Seq(C) /\ Len(f[n]) = begin[n + 1]
    BY <2>11, <2>12, <1>1, <1>3
  <2>19. Flattened(C, seqs, n, begin, f[n])
    <3> DEFINE flat == f[n]
    <3>1. begin \in [1 .. n + 1 -> Nat] /\ begin[1] = 0 /\ flat \in Seq(C) /\ Len(flat) = begin[n + 1]
      BY <2>12, <2>13, <2>18
    <3>2. \A k \in 1 .. n : /\ begin[k + 1] = begin[k] + Len(seqs[k]) /\ begin[k + 1] <= begin[n + 1]
                           /\ \A j \in 1 .. Len(seqs[k]) : flat[begin[k] + j] = seqs[k][j]
      BY <2>14, <2>17
    <3> HIDE DEF flat
    <3>3. Flattened(C, seqs, n, begin, flat)
      BY <3>1, <3>2 DEF Flattened
    <3> QED
      BY <3>3 DEF flat
  <2> QED
    BY <2>7, <2>19
<1> QED
  BY <1>2, <1>3

LEMMA IndexRange ==
  ASSUME NEW s, NEW c, NEW from \in Nat, Len(s) \in Nat
  PROVE  IndexFrom(s, c, from) = 0 \/ IndexFrom(s, c, from) \in from .. Len(s)
<1> DEFINE places == {p \in from .. Len(s) : s[p] = c}
<1>1. places \in SUBSET Nat /\ \A p \in places : p \in from .. Len(s)
  OBVIOUS
<1>2. IndexFrom(s, c, from) = IF places = {} THEN 0 ELSE CHOOSE p \in places : \A q \in places : p <= q
  BY DEF IndexFrom
<1> HIDE DEF places
<1>3. CASE places = {}
  BY <1>2, <1>3
<1>4. CASE places # {}
  <2>1. \E p \in places : \A q \in places : p <= q
    BY <1>1, <1>4, LeastNat
  <2> QED
    BY <1>1, <1>2, <1>4, <2>1
<1> QED
  BY <1>3, <1>4

\* The spaces before an argument are skipped, and no more.
LEMMA SkipSpacesIs ==
  ASSUME NEW s, Len(s) \in Nat, NEW from \in Nat, NEW p \in from .. Len(s) + 1,
         p <= Len(s) => s[p] # Space, \A q \in from .. p - 1 : s[q] = Space
  PROVE  SkipSpaces(s, from) = p
<1> DEFINE Is(q) == (q <= Len(s) => s[q] # Space) /\ \A r \in from .. q - 1 : s[r] = Space
<1>1. ASSUME NEW q \in from .. Len(s) + 1, Is(q) PROVE q = p
  <2>1. CASE q < p
    <3>1. q \in from .. p - 1 /\ q <= Len(s)
      BY <2>1
    <3> QED
      BY <3>1, <1>1
  <2>2. CASE p < q
    <3>1. p \in from .. q - 1 /\ p <= Len(s)
      BY <2>2
    <3> QED
      BY <3>1, <1>1
  <2> QED
    BY <2>1, <2>2
<1>2. Is(p)
  OBVIOUS
<1>3. SkipSpaces(s, from) = CHOOSE q \in from .. Len(s) + 1 : Is(q)
  BY DEF SkipSpaces
<1> HIDE DEF Is
<1> QED
  BY <1>1, <1>2, <1>3

LEMMA SkipSpacesRange ==
  ASSUME NEW s, Len(s) \in Nat, NEW from \in Nat, from <= Len(s) + 1
  PROVE  SkipSpaces(s, from) \in from .. Len(s) + 1
<1> DEFINE ends == {p \in from .. Len(s) + 1 : p <= Len(s) => s[p] # Space}
<1>1. ends \in SUBSET Nat /\ Len(s) + 1 \in ends
  OBVIOUS
<1>2. PICK p \in ends : \A q \in ends : p <= q
  <2> HIDE DEF ends
  <2> QED
    BY <1>1, LeastNat
<1>3. p \in from .. Len(s) + 1 /\ (p <= Len(s) => s[p] # Space)
  BY <1>2
<1>4. ASSUME NEW q \in from .. p - 1 PROVE s[q] = Space
  <2>1. q \notin ends
    <3>1. ASSUME q \in ends PROVE FALSE
      <4>1. p <= q
        BY <3>1, <1>2
      <4> QED
        BY <4>1, <1>3
    <3> QED
      BY <3>1
  <2>2. q \in from .. Len(s) + 1
    BY <1>3
  <2> QED
    BY <2>1, <2>2
<1>5. SkipSpaces(s, from) = p
  BY <1>3, <1>4, SkipSpacesIs
<1> QED
  BY <1>3, <1>5

\* One round of the loop of parseline() from a place on.
ArgOf(s, args, from) ==
  LET p == SkipSpaces(s, from)
      delim == DelimAt(s, p)
  IN  IF delim = 0 THEN <<>> ELSE <<SubSeq(s, BeginsAt(s, p), delim - 1)>> \o args[delim + 1]

\* A round stays within the line, and the next begins further on.
LEMMA ArgRoundRange ==
  ASSUME NEW C, NEW s \in Seq(C), NEW from \in 1 .. Len(s) + 1, NEW p, p = SkipSpaces(s, from),
         NEW delim, delim = DelimAt(s, p)
  PROVE  /\ delim # 0 => delim + 1 \in from + 1 .. Len(s) + 1
         /\ delim # 0 => SubSeq(s, BeginsAt(s, p), delim - 1) \in Seq(C)
<1>1. Len(s) \in Nat /\ from \in Nat /\ from >= 1 /\ from <= Len(s) + 1
  OBVIOUS
<1>2. p \in from .. Len(s) + 1
  BY <1>1, SkipSpacesRange
<1>3. BeginsAt(s, p) \in {p, p + 1}
  BY DEF BeginsAt
<1>4. ASSUME delim # 0 PROVE delim \in p .. Len(s)
  <2>1. CASE p <= Len(s) /\ s[p] = Quote
    <3>1. delim = IndexFrom(s, Quote, p + 1)
      BY <2>1 DEF DelimAt
    <3>2. p + 1 \in Nat /\ p \in Nat
      BY <1>1, <1>2
    <3>3. delim \in p + 1 .. Len(s)
      BY <3>1, <3>2, <1>1, <1>4, IndexRange
    <3> QED
      BY <3>2, <3>3
  <2>2. CASE ~(p <= Len(s) /\ s[p] = Quote)
    <3>1. delim = IndexFrom(s, Space, p)
      BY <2>2 DEF DelimAt
    <3>2. p \in Nat
      BY <1>1, <1>2
    <3> QED
      BY <3>1, <3>2, <1>1, <1>4, IndexRange
  <2> QED
    BY <2>1, <2>2
<1>5. ASSUME delim # 0 PROVE SubSeq(s, BeginsAt(s, p), delim - 1) \in Seq(C)
  <2> DEFINE b == BeginsAt(s, p)
  <2>1. b \in 1 .. Len(s) + 1 /\ delim - 1 \in 0 .. Len(s)
    BY <1>1, <1>2, <1>3, <1>4, <1>5
  <2> HIDE DEF b
  <2>2. \A i \in b .. delim - 1 : s[i] \in C
    <3>1. \A i \in b .. delim - 1 : i \in 1 .. Len(s)
      BY <2>1, <1>1
    <3> QED
      BY <3>1
  <2>3. SubSeq(s, b, delim - 1) \in Seq(C)
    BY <2>1, <2>2, <1>1
  <2> QED
    BY <2>3 DEF b
<1> QED
  BY <1>1, <1>2, <1>4, <1>5

\* What the rounds from each place on find; Argv() is that of the first.
ArgRounds(C, s, line, args) ==
  /\ args \in [1 .. Len(s) + 1 -> Seq(Seq(C))] /\ Argv(line) = args[1]
  /\ \A from \in 1 .. Len(s) + 1 : args[from] = ArgOf(s, args, from)

\* argsFrom exists, since each round begins further on than the one before.
LEMMA ArgvIs ==
  ASSUME NEW C, NEW line \in Seq(C), Space \in C, NEW s, s = [line EXCEPT ![Len(line)] = Space], s \in Seq(C)
  PROVE  \E args : ArgRounds(C, s, line, args)
<1> DEFINE L == Len(s) + 1
           D == 1 .. L
           V == Seq(Seq(C))
           WordFrom(from) == SubSeq(s, BeginsAt(s, SkipSpaces(s, from)), DelimAt(s, SkipSpaces(s, from)) - 1)
           next(from) == DelimAt(s, SkipSpaces(s, from)) + 1
           last(from) == DelimAt(s, SkipSpaces(s, from)) = 0
           body(f) == [from \in D |-> ArgOf(s, f, from)]
           G == [f \in [D -> V] |-> body(f)]
           rank == [from \in D |-> L - from]
<1>0. \A f, from : ArgOf(s, f, from) = IF last(from) THEN <<>> ELSE <<WordFrom(from)>> \o f[next(from)]
  BY DEF ArgOf
<1>1. L \in Nat /\ 1 \in D /\ \A from \in D : ~last(from) => /\ WordFrom(from) \in Seq(C) /\ next(from) \in D
                                                            /\ next(from) \in from + 1 .. L
  <2>1. Len(s) \in Nat
    OBVIOUS
  <2>2. ASSUME NEW from \in D, ~last(from) PROVE WordFrom(from) \in Seq(C) /\ next(from) \in from + 1 .. L
    BY <2>2, ArgRoundRange
  <2> HIDE DEF WordFrom, next, last
  <2>3. ASSUME NEW from \in D, ~last(from) PROVE next(from) \in D
    BY <2>1, <2>2, <2>3
  <2> QED
    BY <2>1, <2>2, <2>3
<1> HIDE DEF WordFrom, next, last
<1>2. rank \in [D -> Nat] /\ \A from \in D : ~last(from) => rank[next(from)] < rank[from]
  <2>1. rank \in [D -> Nat]
    BY <1>1
  <2>2. ASSUME NEW from \in D, ~last(from) PROVE rank[next(from)] < rank[from]
    <3>1. next(from) \in D /\ next(from) \in from + 1 .. L
      BY <1>1, <2>2
    <3> QED
      BY <3>1, <1>1
  <2> QED
    BY <2>1, <2>2
<1> HIDE DEF D, L, rank
<1>3. \A f \in [D -> V] : body(f) \in [D -> V]
  <2>1. ASSUME NEW f \in [D -> V], NEW from \in D PROVE body(f)[from] \in V
    <3>1. body(f)[from] = IF last(from) THEN <<>> ELSE <<WordFrom(from)>> \o f[next(from)]
      BY <1>0
    <3> HIDE DEF body
    <3>2. CASE last(from)
      BY <3>1, <3>2
    <3>3. CASE ~last(from)
      <4> DEFINE w == WordFrom(from)
                 g == f[next(from)]
      <4>1. w \in Seq(C) /\ g \in V
        BY <3>3, <1>1
      <4> HIDE DEF w, g
      <4>2. <<w>> \o g \in V
        <5>1. <<w>> \in V
          BY <4>1
        <5> QED
          BY <4>1, <5>1, Cat
      <4>3. body(f)[from] = <<w>> \o g
        BY <3>1, <3>3 DEF w, g
      <4> QED
        BY <4>2, <4>3
    <3> QED
      BY <3>2, <3>3
  <2> QED
    BY <2>1
<1>4. ASSUME NEW f \in [D -> V], NEW g \in [D -> V], NEW e1 \in D, \A e2 \in D : rank[e2] < rank[e1] => f[e2] = g[e2]
      PROVE  G[f][e1] = G[g][e1]
  <2>1. ~last(e1) => f[next(e1)] = g[next(e1)]
    BY <1>1, <1>2, <1>4
  <2>2. ArgOf(s, f, e1) = ArgOf(s, g, e1)
    BY <2>1, <1>0
  <2> QED
    BY <2>2
<1>5. PICK f \in [D -> V] : f = body(f)
  <2>1. <<>> \in V
    OBVIOUS
  <2>2. G \in [[D -> V] -> [D -> V]]
    BY <1>3
  <2>3. Recursive(D, V, rank, G)
    <3> HIDE DEF V, G
    <3> QED
      BY <1>2, <1>4, <2>2 DEF Recursive
  <2>4. \E f \in [D -> V] : G[f] = f
    <3> HIDE DEF V, G
    <3> QED
      BY <2>1, <2>3, FixpointExists
  <2> QED
    BY <2>4
<1> DEFINE a == CHOOSE g : g = body(g)
<1>6. a = body(a)
  BY <1>5
<1>7. Argv(line) = a[1]
  BY DEF Argv, ArgOf, D, L
<1> HIDE DEF a
<1>8. \A from \in D : f[from] = ArgOf(s, f, from) /\ a[from] = ArgOf(s, a, from)
  BY <1>5, <1>6
<1> DEFINE P == {from \in 1 .. L : a[from] = f[from]}
<1>9. ASSUME NEW from \in 1 .. L, \A j \in from + 1 .. L : j \in P PROVE from \in P
  <2>1. ~last(from) => a[next(from)] = f[next(from)]
    BY <1>1, <1>9 DEF D
  <2>2. ArgOf(s, f, from) = ArgOf(s, a, from)
    BY <2>1, <1>0
  <2> QED
    BY <2>2, <1>8 DEF D
<1>10. 1 \in P
  <2>1. P \in SUBSET (1 .. L) /\ 1 \in Int /\ L \in Int /\ 1 \in 1 .. L
    BY <1>1 DEF D
  <2> HIDE DEF P
  <2> QED
    BY <2>1, <1>9, Downwards
<1>11. a[1] = f[1]
  BY <1>10
<1>12. ArgRounds(C, s, line, f)
  BY <1>5, <1>7, <1>8, <1>11 DEF D, L, ArgRounds
<1> QED
  BY <1>12

\* What parseline() can meet in a line.
LineChars == Plain \cup {"&", Space, Quote, "\n"}

\* Argument a is in s behind place b and ends at place e; its text, or its quote, is at place pos.
ArgAt(s, b, e, pos, a) ==
  /\ pos = b + a.spaces + 1
  /\ \A q \in b + 1 .. pos - 1 : s[q] = Space
  /\ a.quoted => /\ s[pos] = Quote /\ s[pos + Len(a.word) + 1] = Quote /\ e = pos + Len(a.word) + 1
                 /\ \A j \in 1 .. Len(a.word) : s[pos + j] = a.word[j]
  /\ ~a.quoted => /\ e = pos - 1 + Len(a.word)
                  /\ \A j \in 1 .. Len(a.word) : s[pos - 1 + j] = a.word[j]

ArgOk(a) ==
  /\ a.quoted \in BOOLEAN /\ a.spaces \in Nat /\ a.word \in Seq(LineChars) /\ Len(a.word) \in Nat
  /\ a.quoted => \A j \in 1 .. Len(a.word) : a.word[j] # Quote
  /\ ~a.quoted => Len(a.word) >= 1 /\ a.word[1] # Quote /\ \A j \in 1 .. Len(a.word) : a.word[j] # Space

\* What an argument can be.
LEMMA ArgumentsOk ==
  ASSUME NEW a \in Arguments
  PROVE  ArgOk(a)
<1>1. MaxWord \in Nat
  BY TextsAssumption DEF TextsAssumption
<1>2. a.quoted \in BOOLEAN /\ a.spaces \in Nat /\ a.word \in Upto(MaxWord, Plain \cup {"&", Space, Quote})
  BY DEF Arguments
<1> DEFINE w == a.word
<1>3. w \in Seq(Plain \cup {"&", Space, Quote}) /\ Len(w) \in Nat
  <2> HIDE DEF w
  <2>1. w \in Upto(MaxWord, Plain \cup {"&", Space, Quote})
    BY <1>2 DEF w
  <2> QED
    BY <1>1, <2>1, UptoSeq
<1>4. w \in Seq(LineChars) /\ DOMAIN w = 1 .. Len(w)
  BY <1>3 DEF LineChars
<1>5. IF a.quoted THEN \A k \in DOMAIN w : w[k] # Quote
      ELSE w # <<>> /\ w[1] # Quote /\ \A k \in DOMAIN w : w[k] # Space
  BY DEF Arguments
<1>6. w # <<>> => Len(w) >= 1
  BY <1>3, EmptySeq
<1> QED
  BY <1>2, <1>3, <1>4, <1>5, <1>6 DEF ArgOk

LEMMA SpacesIs ==
  ASSUME NEW n \in Nat
  PROVE  Spaces(n) \in Seq(LineChars) /\ Len(Spaces(n)) = n /\ \A k \in 1 .. n : Spaces(n)[k] = Space
<1>1. Space \in LineChars
  BY DEF LineChars
<1> QED
  BY <1>1 DEF Spaces

\* c is a of length m with b of length n behind it.
Beside(C, c, a, m, b, n) ==
  /\ c \in Seq(C) /\ Len(c) = m + n
  /\ \A k \in 1 .. m : c[k] = a[k]
  /\ \A k \in 1 .. n : c[m + k] = b[k]

LEMMA CatAt ==
  ASSUME NEW C, NEW a \in Seq(C), NEW b \in Seq(C), NEW m, NEW n, m = Len(a), n = Len(b),
         NEW c, c = a \o b
  PROVE  Beside(C, c, a, m, b, n)
  BY DEF Beside

\* An argument as it is written, behind its spaces.
LEMMA PieceIs ==
  ASSUME NEW a, ArgOk(a), NEW p, p = Spaces(a.spaces) \o Written(a)
  PROVE  p \in Seq(LineChars) /\ ArgAt(p, 0, Len(p), a.spaces + 1, a)
<1> DEFINE sp == Spaces(a.spaces)
           w == Written(a)
           word == a.word
           n == a.spaces
           q1 == <<Quote>>
           m == Len(word)
<1>1. /\ n \in Nat /\ word \in Seq(LineChars) /\ m \in Nat /\ m = Len(word) /\ sp \in Seq(LineChars) /\ n = Len(sp)
      /\ \A k \in 1 .. n : sp[k] = Space
  BY SpacesIs DEF ArgOk
<1>2. q1 \in Seq(LineChars) /\ 1 = Len(q1) /\ q1[1] = Quote
  BY DEF LineChars
<1>3. p = sp \o w
  OBVIOUS
<1>4. w = IF a.quoted THEN (q1 \o word) \o q1 ELSE word
  BY DEF Written
<1> HIDE DEF sp, w, word, n, q1
<1>5. CASE a.quoted
  <2> DEFINE opened == q1 \o word
  <2>1. /\ opened \in Seq(LineChars) /\ Len(opened) = 1 + m /\ (\A k \in 1 .. 1 : opened[k] = q1[k])
        /\ \A j \in 1 .. m : opened[1 + j] = word[j]
    <3>1. Beside(LineChars, opened, q1, 1, word, m)
      <4> HIDE DEF m
      <4> QED
        BY <1>1, <1>2, CatAt
    <3> QED
      BY <3>1 DEF Beside
  <2>7. opened \in Seq(LineChars) /\ 1 + m = Len(opened) /\ opened[1] = Quote /\ \A j \in 1 .. m : opened[1 + j] = word[j]
    BY <2>1, <1>2
  <2> HIDE DEF opened
  <2>2. w = opened \o q1
    BY <1>4, <1>5 DEF opened
  <2>8. /\ w \in Seq(LineChars) /\ Len(w) = (1 + m) + 1 /\ (\A k \in 1 .. 1 + m : w[k] = opened[k])
        /\ \A k \in 1 .. 1 : w[(1 + m) + k] = q1[k]
    <3>1. Beside(LineChars, w, opened, 1 + m, q1, 1)
      BY <2>2, <2>7, <1>2, CatAt
    <3> QED
      BY <3>1 DEF Beside
  <2>3. /\ w \in Seq(LineChars) /\ 2 + m = Len(w) /\ w[1] = Quote /\ w[2 + m] = Quote
        /\ \A j \in 1 .. m : w[1 + j] = word[j]
    <3>1. 1 \in 1 .. 1 /\ 1 \in 1 .. 1 + m /\ (\A j \in 1 .. m : 1 + j \in 1 .. 1 + m) /\ (1 + m) + 1 = 2 + m
      BY <1>1
    <3> QED
      BY <3>1, <2>7, <2>8, <1>2
  <2>4. /\ p \in Seq(LineChars) /\ Len(p) = n + (2 + m) /\ (\A k \in 1 .. n : p[k] = Space)
        /\ \A k \in 1 .. 2 + m : p[n + k] = w[k]
    <3>1. Beside(LineChars, p, sp, n, w, 2 + m)
      BY <2>3, <1>1, <1>3, CatAt
    <3>2. /\ p \in Seq(LineChars) /\ Len(p) = n + (2 + m) /\ (\A k \in 1 .. n : p[k] = sp[k])
          /\ \A k \in 1 .. 2 + m : p[n + k] = w[k]
      BY <3>1 DEF Beside
    <3> QED
      BY <3>2, <1>1
  <2>5. p[n + 1] = Quote /\ p[n + 1 + m + 1] = Quote /\ \A j \in 1 .. m : p[n + 1 + j] = word[j]
    <3>1. 1 \in 1 .. 2 + m /\ 2 + m \in 1 .. 2 + m /\ n + (2 + m) = n + 1 + m + 1
      BY <1>1
    <3>2. \A j \in 1 .. m : 1 + j \in 1 .. 2 + m /\ n + (1 + j) = n + 1 + j
      BY <1>1
    <3> QED
      BY <3>1, <3>2, <2>3, <2>4
  <2>6. Len(p) = n + 1 + m + 1 /\ 0 + n + 1 = n + 1 /\ \A q \in 0 + 1 .. (n + 1) - 1 : p[q] = Space
    BY <2>4, <1>1
  <2> QED
    BY <2>4, <2>5, <2>6, <1>5 DEF ArgAt, n, word
<1>6. CASE ~a.quoted
  <2>1. w = word
    BY <1>4, <1>6
  <2>2. /\ p \in Seq(LineChars) /\ Len(p) = n + m /\ (\A k \in 1 .. n : p[k] = Space)
        /\ \A k \in 1 .. m : p[n + k] = word[k]
    <3>2. Beside(LineChars, p, sp, n, word, m)
      <4> HIDE DEF m
      <4> QED
        BY <2>1, <1>1, <1>3, CatAt
    <3>1. /\ p \in Seq(LineChars) /\ Len(p) = n + m /\ (\A k \in 1 .. n : p[k] = sp[k])
          /\ \A k \in 1 .. m : p[n + k] = word[k]
      BY <3>2 DEF Beside
    <3> QED
      BY <3>1, <1>1
  <2>3. Len(p) = (n + 1) - 1 + m /\ 0 + n + 1 = n + 1 /\ \A q \in 0 + 1 .. (n + 1) - 1 : p[q] = Space
    BY <2>2, <1>1
  <2>4. \A k \in 1 .. m : p[(n + 1) - 1 + k] = word[k]
    BY <2>2, <1>1
  <2> QED
    BY <2>2, <2>3, <2>4, <1>6 DEF ArgAt, n, word
<1> QED
  BY <1>5, <1>6 DEF ArgOk

\* An argument of a longer text.
LEMMA ArgShifted ==
  ASSUME NEW a, ArgOk(a), NEW p, p \in Seq(LineChars), ArgAt(p, 0, Len(p), a.spaces + 1, a),
         NEW s, NEW b \in Nat, \A j \in 1 .. Len(p) : s[b + j] = p[j]
  PROVE  ArgAt(s, b, b + Len(p), b + a.spaces + 1, a)
<1> DEFINE n == a.spaces
           m == Len(a.word)
           word == a.word
<1>1. n \in Nat /\ m \in Nat /\ Len(p) \in Nat
  BY DEF ArgOk
<1>2. /\ \A q \in 1 .. n : p[q] = Space
      /\ a.quoted => /\ p[n + 1] = Quote /\ p[n + 1 + m + 1] = Quote /\ Len(p) = n + 1 + m + 1
                     /\ \A j \in 1 .. m : p[n + 1 + j] = word[j]
      /\ ~a.quoted => /\ Len(p) = n + m
                      /\ \A j \in 1 .. m : p[n + j] = word[j]
  <2>1. 0 + 1 = 1 /\ (n + 1) - 1 = n
    BY <1>1
  <2> QED
    BY <2>1 DEF ArgAt
<1> HIDE DEF n, m, word
<1>3. \A q \in b + 1 .. b + n : s[q] = Space
  <2>1. SUFFICES ASSUME NEW q \in b + 1 .. b + n PROVE s[q] = Space
    OBVIOUS
  <2>2. q - b \in 1 .. n /\ n <= Len(p) /\ b + (q - b) = q
    BY <1>1, <1>2
  <2>3. q - b \in 1 .. Len(p)
    BY <2>2, <1>1
  <2> QED
    BY <2>2, <2>3, <1>2
<1>4. ASSUME a.quoted
      PROVE  /\ s[b + n + 1] = Quote /\ s[b + n + 1 + m + 1] = Quote /\ b + Len(p) = b + n + 1 + m + 1
             /\ \A j \in 1 .. m : s[b + n + 1 + j] = word[j]
  <2>1. n + 1 \in 1 .. Len(p) /\ n + 1 + m + 1 \in 1 .. Len(p) /\ \A j \in 1 .. m : n + 1 + j \in 1 .. Len(p)
    BY <1>1, <1>2, <1>4
  <2>2. b + (n + 1) = b + n + 1 /\ b + (n + 1 + m + 1) = b + n + 1 + m + 1
        /\ \A j \in 1 .. m : b + (n + 1 + j) = b + n + 1 + j
    BY <1>1
  <2>3. b + Len(p) = b + n + 1 + m + 1
    <3>1. Len(p) = n + 1 + m + 1
      BY <1>2, <1>4
    <3> QED
      BY <3>1, <1>1
  <2> QED
    BY <2>1, <2>2, <2>3, <1>2, <1>4
<1>5. ASSUME ~a.quoted
      PROVE  b + Len(p) = b + n + m /\ \A j \in 1 .. m : s[b + n + j] = word[j]
  <2>1. \A j \in 1 .. m : n + j \in 1 .. Len(p) /\ b + (n + j) = b + n + j
    BY <1>1, <1>2, <1>5
  <2>2. b + Len(p) = b + n + m
    BY <1>1, <1>2, <1>5
  <2> QED
    BY <2>1, <2>2, <1>2, <1>5
<1>6. (b + n + 1) - 1 = b + n
  BY <1>1
<1> QED
  BY <1>3, <1>4, <1>5, <1>6 DEF ArgAt, n, m, word

\* The n arguments are in s, which ends with spaces: argument k behind place begin[k].
Scanned(s, L, args, n, begin, pos) ==
  /\ n \in Nat /\ L \in Nat /\ L = Len(s) /\ s \in Seq(LineChars)
  /\ begin \in [1 .. n + 1 -> Nat] /\ pos \in [1 .. n + 1 -> Nat] /\ begin[1] = 0 /\ pos[n + 1] = L + 1
  /\ \A k \in 1 .. n : /\ ArgOk(args[k]) /\ ArgAt(s, begin[k], begin[k + 1], pos[k], args[k])
                       /\ begin[k + 1] <= begin[n + 1]
                       /\ ~args[k].quoted => pos[k + 1] >= begin[k + 1] + 2
  /\ begin[n + 1] + 1 <= L /\ \A q \in begin[n + 1] + 1 .. L : s[q] = Space

\* The round that finds argument k: the next one begins behind its delimiter.
ArgRound(s, L, args, begin, pos, val, k, from) ==
  \E next \in begin[k + 1] + 1 .. pos[k + 1] :
     next \in 1 .. L + 1 /\ ArgOf(s, val, from) = <<args[k].word>> \o val[next]

LEMMA ArgRoundIs ==
  ASSUME NEW s, NEW L, NEW args, NEW n, NEW begin, NEW pos, Scanned(s, L, args, n, begin, pos),
         NEW val, NEW k \in 1 .. n, NEW from \in begin[k] + 1 .. pos[k]
  PROVE  ArgRound(s, L, args, begin, pos, val, k, from)
<1> DEFINE a == args[k]
           word == a.word
           m == Len(word)
           p == pos[k]
           e == begin[k + 1]
           b == begin[k]
<1>1. /\ n \in Nat /\ L \in Nat /\ L = Len(s) /\ s \in Seq(LineChars)
      /\ begin \in [1 .. n + 1 -> Nat] /\ pos \in [1 .. n + 1 -> Nat] /\ pos[n + 1] = L + 1
      /\ ArgOk(a) /\ ArgAt(s, b, e, p, a) /\ e <= begin[n + 1]
      /\ ~a.quoted => pos[k + 1] >= e + 2
      /\ begin[n + 1] + 1 <= L /\ \A q \in begin[n + 1] + 1 .. L : s[q] = Space
  BY DEF Scanned
<1>2. k \in 1 .. n + 1 /\ k + 1 \in 1 .. n + 1 /\ n + 1 \in 1 .. n + 1
  BY <1>1
<1>3. b \in Nat /\ e \in Nat /\ p \in Nat /\ begin[n + 1] \in Nat /\ pos[k + 1] \in Nat /\ e + 1 <= L
  <2>1. b \in Nat /\ e \in Nat /\ p \in Nat /\ begin[n + 1] \in Nat /\ pos[k + 1] \in Nat
    BY <1>1, <1>2
  <2> QED
    BY <2>1, <1>1
<1>4. pos[k + 1] >= e + 1 /\ \A q \in e + 1 .. pos[k + 1] - 1 : s[q] = Space
  <2>1. CASE k = n
    BY <2>1, <1>1, <1>3
  <2>2. CASE k # n
    <3>1. k + 1 \in 1 .. n
      BY <2>2, <1>1
    <3> DEFINE a2 == args[k + 1]
               e2 == begin[(k + 1) + 1]
               p2 == pos[k + 1]
    <3>2. ArgOk(a2) /\ ArgAt(s, e, e2, p2, a2)
      BY <3>1 DEF Scanned
    <3>3. a2.spaces \in Nat /\ p2 = e + a2.spaces + 1 /\ \A q \in e + 1 .. p2 - 1 : s[q] = Space
      BY <3>2 DEF ArgOk, ArgAt
    <3> QED
      BY <3>3, <1>3
  <2> QED
    BY <2>1, <2>2
<1>5. /\ word \in Seq(LineChars) /\ m \in Nat /\ a.quoted \in BOOLEAN /\ p >= b + 1
      /\ (\A q \in b + 1 .. p - 1 : s[q] = Space)
  <2>1. /\ word \in Seq(LineChars) /\ m \in Nat /\ a.quoted \in BOOLEAN /\ a.spaces \in Nat
        /\ p = b + a.spaces + 1 /\ \A q \in b + 1 .. p - 1 : s[q] = Space
    BY <1>1 DEF ArgOk, ArgAt
  <2> HIDE DEF a, word, m, p, b
  <2> QED
    BY <2>1, <1>3
<1>6. ASSUME a.quoted
      PROVE  /\ s[p] = Quote /\ s[p + m + 1] = Quote /\ e = p + m + 1
             /\ \A j \in 1 .. m : s[p + j] = word[j] /\ word[j] # Quote
  BY <1>1, <1>6 DEF ArgOk, ArgAt
<1>7. ASSUME ~a.quoted
      PROVE  /\ e = p - 1 + m /\ m >= 1 /\ word[1] # Quote
             /\ \A j \in 1 .. m : s[p - 1 + j] = word[j] /\ word[j] # Space
  BY <1>1, <1>7 DEF ArgOk, ArgAt
<1> HIDE DEF a, word, m, p, e, b
<1>8. p <= e /\ p <= L /\ s[p] # Space
  <2>1. CASE a.quoted
    <3>1. s[p] # Space
      BY <2>1, <1>6 DEF Space, Quote
    <3>2. p <= e /\ p <= L
      BY <2>1, <1>1, <1>6, <1>3, <1>5
    <3> QED
      BY <3>1, <3>2
  <2>2. CASE ~a.quoted
    <3>1. 1 \in 1 .. m /\ p - 1 + 1 = p
      BY <2>2, <1>7, <1>3, <1>5
    <3>2. s[p] # Space
      BY <3>1, <2>2, <1>7
    <3>4. e = p - 1 + m /\ m >= 1 /\ m \in Nat /\ p \in Nat /\ e \in Nat /\ e + 1 <= L /\ L \in Nat
      BY <2>2, <1>1, <1>7, <1>3, <1>5
    <3>3. p <= e /\ p <= L
      BY <3>4
    <3> QED
      BY <3>2, <3>3
  <2> QED
    BY <2>1, <2>2
<1>9. from \in b + 1 .. p
  BY DEF b, p
<1>10. SkipSpaces(s, from) = p
  <2>1. from \in Nat /\ p \in from .. Len(s) + 1 /\ Len(s) \in Nat
    BY <1>9, <1>8, <1>3, <1>1
  <2>2. \A q \in from .. p - 1 : s[q] = Space
    BY <1>9, <1>5, <1>3
  <2> QED
    BY <2>1, <2>2, <1>8, SkipSpacesIs
<1>11. CASE a.quoted
  <2>1. BeginsAt(s, p) = p + 1 /\ DelimAt(s, p) = IndexFrom(s, Quote, p + 1)
    BY <1>8, <1>1, <1>6, <1>11 DEF BeginsAt, DelimAt
  <2>2. IndexFrom(s, Quote, p + 1) = e
    <3>4. e = p + m + 1 /\ p \in Nat /\ m \in Nat /\ e \in Nat /\ L \in Nat /\ e + 1 <= L /\ s[e] = Quote
      BY <1>6, <1>11, <1>1, <1>3, <1>5
    <3>5. p + 1 \in Int /\ e \in p + 1 .. L
      BY <3>4
    <3>1. p + 1 \in Int /\ Len(s) \in Nat /\ e \in p + 1 .. Len(s) /\ s[e] = Quote
      BY <3>4, <3>5, <1>1
    <3>2. ASSUME NEW q \in p + 1 .. e - 1 PROVE s[q] # Quote
      <4>1. q - p \in 1 .. m /\ p + (q - p) = q
        BY <1>3, <1>5, <1>6, <1>11
      <4> QED
        BY <4>1, <1>6, <1>11
    <3> QED
      BY <3>1, <3>2, IndexIs
  <2>3. SubSeq(s, p + 1, e - 1) = word
    <3> DEFINE a1 == p + 1
               b1 == e - 1
    <3>4. e = p + m + 1 /\ p \in Nat /\ m \in Nat /\ e \in Nat /\ L \in Nat /\ e + 1 <= L
      BY <1>6, <1>11, <1>1, <1>3, <1>5
    <3>5. a1 \in Nat \ {0} /\ b1 \in Nat /\ b1 <= L /\ m = b1 - a1 + 1
      BY <3>4
    <3>1. a1 \in Nat \ {0} /\ b1 \in Nat /\ b1 <= Len(s) /\ m = b1 - a1 + 1
      BY <3>5, <1>1
    <3>2. \A i \in 1 .. m : s[a1 + i - 1] = word[i]
      <4>1. \A i \in 1 .. m : a1 + i - 1 = p + i
        BY <1>3
      <4> QED
        BY <4>1, <1>6, <1>11
    <3> HIDE DEF a1, b1
    <3>3. SubSeq(s, a1, b1) = word
      BY <3>1, <3>2, <1>1, <1>5, SubSeqIs DEF m
    <3> QED
      BY <3>3 DEF a1, b1
  <2>4. e # 0
    BY <1>3, <1>5, <1>6, <1>11
  <2>5. ArgOf(s, val, from) = <<word>> \o val[e + 1]
    BY <1>10, <2>1, <2>2, <2>3, <2>4 DEF ArgOf
  <2>6. e + 1 \in e + 1 .. pos[k + 1] /\ e + 1 \in 1 .. L + 1
    BY <1>1, <1>3, <1>4
  <2> QED
    BY <2>5, <2>6 DEF word, a, e, ArgRound
<1>12. CASE ~a.quoted
  <2>1. BeginsAt(s, p) = p /\ DelimAt(s, p) = IndexFrom(s, Space, p)
    <3>1. 1 \in 1 .. m /\ p - 1 + 1 = p
      BY <1>12, <1>7, <1>3, <1>5
    <3>2. s[p] # Quote
      BY <3>1, <1>12, <1>7
    <3> QED
      BY <3>2 DEF BeginsAt, DelimAt
  <2>2. IndexFrom(s, Space, p) = e + 1
    <3>1. p \in Int /\ Len(s) \in Nat /\ e + 1 \in p .. Len(s)
      BY <1>1, <1>3, <1>8
    <3>2. s[e + 1] = Space
      <4>1. pos[k + 1] >= e + 2
        BY <1>1, <1>12 DEF e
      <4>2. e + 1 \in e + 1 .. pos[k + 1] - 1
        BY <4>1, <1>3
      <4> QED
        BY <4>2, <1>4
    <3>3. ASSUME NEW q \in p .. (e + 1) - 1 PROVE s[q] # Space
      <4>1. q - p + 1 \in 1 .. m /\ p - 1 + (q - p + 1) = q
        BY <1>3, <1>5, <1>7, <1>12
      <4> QED
        BY <4>1, <1>7, <1>12
    <3> QED
      BY <3>1, <3>2, <3>3, IndexIs
  <2>3. SubSeq(s, p, (e + 1) - 1) = word
    <3> DEFINE b1 == (e + 1) - 1
    <3>4. e = p - 1 + m /\ p \in Nat /\ p >= b + 1 /\ b \in Nat /\ m \in Nat /\ e \in Nat /\ L \in Nat /\ e + 1 <= L
      BY <1>7, <1>12, <1>1, <1>3, <1>5
    <3>5. p \in Nat \ {0} /\ b1 \in Nat /\ b1 <= L /\ m = b1 - p + 1
      BY <3>4
    <3>1. p \in Nat \ {0} /\ b1 \in Nat /\ b1 <= Len(s) /\ m = b1 - p + 1
      BY <3>5, <1>1
    <3>2. \A i \in 1 .. m : s[p + i - 1] = word[i]
      <4>1. \A i \in 1 .. m : p + i - 1 = p - 1 + i
        BY <1>3
      <4> QED
        BY <4>1, <1>7, <1>12
    <3> HIDE DEF b1
    <3>3. SubSeq(s, p, b1) = word
      BY <3>1, <3>2, <1>1, <1>5, SubSeqIs DEF m
    <3> QED
      BY <3>3 DEF b1
  <2>4. e + 1 # 0 /\ (e + 1) + 1 = e + 2
    BY <1>3
  <2>5. ArgOf(s, val, from) = <<word>> \o val[e + 2]
    BY <1>10, <2>1, <2>2, <2>3, <2>4 DEF ArgOf
  <2>6. e + 2 \in e + 1 .. pos[k + 1] /\ e + 2 \in 1 .. L + 1
    <3>1. pos[k + 1] >= e + 2
      BY <1>1, <1>12 DEF e
    <3> QED
      BY <3>1, <1>3, <1>1
  <2> QED
    BY <2>5, <2>6 DEF word, a, e, ArgRound
<1> QED
  BY <1>5, <1>11, <1>12

LEMMA ArgRoundEnd ==
  ASSUME NEW s, NEW L, NEW args, NEW n, NEW begin, NEW pos, Scanned(s, L, args, n, begin, pos),
         NEW val, NEW from \in begin[n + 1] + 1 .. pos[n + 1]
  PROVE  ArgOf(s, val, from) = <<>>
<1>1. /\ n \in Nat /\ L \in Nat /\ L = Len(s) /\ begin[n + 1] \in Nat /\ pos[n + 1] = L + 1
      /\ \A q \in begin[n + 1] + 1 .. L : s[q] = Space
  BY DEF Scanned
<1>2. SkipSpaces(s, from) = L + 1
  <2>1. from \in Nat /\ L + 1 \in from .. Len(s) + 1 /\ Len(s) \in Nat /\ ~(L + 1 <= Len(s))
    BY <1>1
  <2>2. \A q \in from .. (L + 1) - 1 : s[q] = Space
    BY <1>1
  <2> QED
    BY <2>1, <2>2, SkipSpacesIs
<1>3. DelimAt(s, L + 1) = 0
  <2>1. ~(L + 1 <= Len(s)) /\ L + 1 \in Int /\ \A q \in L + 1 .. Len(s) : FALSE
    BY <1>1
  <2>2. DelimAt(s, L + 1) = IndexFrom(s, Space, L + 1)
    BY <2>1 DEF DelimAt
  <2>3. IndexFrom(s, Space, L + 1) = 0
    BY <2>1, IndexNone
  <2> QED
    BY <2>2, <2>3
<1> QED
  BY <1>2, <1>3 DEF ArgOf

\* The words from the k-th on.
LEMMA TailOf ==
  ASSUME NEW V, NEW words \in Seq(V), NEW n, n = Len(words), NEW k \in 1 .. n
  PROVE  SubSeq(words, k, n) = <<words[k]>> \o SubSeq(words, k + 1, n)
<1>1. n \in Nat /\ k \in Nat /\ words[k] \in V
  OBVIOUS
<1> DEFINE u == SubSeq(words, k + 1, n)
           tail == SubSeq(words, k, n)
           c == <<words[k]>> \o u
<1>2. u \in Seq(V) /\ n - k = Len(u) /\ \A i \in 1 .. n - k : u[i] = words[k + i]
  <2>1. u \in Seq(V)
    BY <1>1
  <2>2. Len(u) = n - k
    BY <1>1
  <2>3. \A i \in 1 .. n - k : u[i] = words[(k + 1) + i - 1] /\ (k + 1) + i - 1 = k + i
    BY <1>1
  <2> QED
    BY <2>1, <2>2, <2>3
<1>3. tail \in Seq(V) /\ n - k + 1 = Len(tail) /\ \A i \in 1 .. n - k + 1 : tail[i] = words[k + i - 1]
  BY <1>1
<1> HIDE DEF u, tail
<1>4. c \in Seq(V) /\ Len(c) = 1 + (n - k) /\ c[1] = words[k] /\ \A i \in 1 .. n - k : c[1 + i] = u[i]
  <2> DEFINE w == <<words[k]>>
  <2>1. w \in Seq(V) /\ 1 = Len(w) /\ w[1] = words[k]
    BY <1>1
  <2>2. c = w \o u
    OBVIOUS
  <2> HIDE DEF w, c
  <2>3. Beside(V, c, w, 1, u, n - k)
    BY <2>1, <2>2, <1>2, CatAt
  <2> QED
    BY <2>1, <2>3 DEF Beside
<1> HIDE DEF c
<1>5. \A i \in 1 .. n - k + 1 : tail[i] = c[i]
  <2>1. ASSUME NEW i \in 1 .. n - k + 1 PROVE tail[i] = c[i]
    <3>1. CASE i = 1
      <4>1. k + i - 1 = k
        BY <3>1, <1>1
      <4> QED
        BY <4>1, <3>1, <1>3, <1>4
    <3>2. CASE i # 1
      <4>1. i - 1 \in 1 .. n - k /\ 1 + (i - 1) = i /\ k + i - 1 = k + (i - 1)
        BY <3>2, <1>1
      <4>2. tail[i] = words[k + (i - 1)] /\ c[i] = u[i - 1] /\ u[i - 1] = words[k + (i - 1)]
        BY <4>1, <1>2, <1>3, <1>4
      <4> QED
        BY <4>2
    <3> QED
      BY <3>1, <3>2
  <2> QED
    BY <2>1
<1>6. Len(tail) = Len(c)
  BY <1>1, <1>3, <1>4
<1>7. tail = c
  BY <1>3, <1>4, <1>5, <1>6
<1> QED
  BY <1>7 DEF u, tail, c

\* The loop of parseline() finds the arguments, the last first to prove it.
LEMMA ScanIs ==
  ASSUME NEW s, NEW L, NEW args, NEW n, NEW begin, NEW pos, Scanned(s, L, args, n, begin, pos),
         NEW words \in Seq(Seq(LineChars)), n = Len(words), \A k \in 1 .. n : words[k] = args[k].word,
         NEW C, NEW line, NEW val, ArgRounds(C, s, line, val)
  PROVE  Argv(line) = words
<1>1. /\ n \in Nat /\ L \in Nat
      /\ begin \in [1 .. n + 1 -> Nat] /\ pos \in [1 .. n + 1 -> Nat] /\ begin[1] = 0 /\ pos[n + 1] = L + 1
      /\ begin[n + 1] + 1 <= L
  BY DEF Scanned
<1>7. Argv(line) = val[1] /\ \A from \in 1 .. L + 1 : val[from] = ArgOf(s, val, from)
  <2>1. L = Len(s)
    BY DEF Scanned
  <2> QED
    BY <2>1 DEF ArgRounds
<1> DEFINE P == {k \in 1 .. n + 1 :
                   \A from \in begin[k] + 1 .. pos[k] : from \in 1 .. L + 1 => val[from] = SubSeq(words, k, n)}
<1>2. ASSUME NEW k \in 1 .. n + 1, \A j \in k + 1 .. n + 1 : j \in P PROVE k \in P
  <2> SUFFICES ASSUME NEW from \in begin[k] + 1 .. pos[k], from \in 1 .. L + 1 PROVE val[from] = SubSeq(words, k, n)
    OBVIOUS
  <2>1. CASE k = n + 1
    <3>1. ArgOf(s, val, from) = <<>>
      BY <2>1, ArgRoundEnd
    <3>2. SubSeq(words, n + 1, n) = <<>>
      BY <1>1
    <3> QED
      BY <2>1, <3>1, <3>2, <1>7
  <2>2. CASE k # n + 1
    <3>1. k \in 1 .. n /\ k + 1 \in k + 1 .. n + 1
      BY <2>2, <1>1
    <3>2. PICK next \in begin[k + 1] + 1 .. pos[k + 1] :
              next \in 1 .. L + 1 /\ ArgOf(s, val, from) = <<args[k].word>> \o val[next]
      <4> HIDE DEF P
      <4>1. k \in 1 .. n /\ from \in begin[k] + 1 .. pos[k] /\ Scanned(s, L, args, n, begin, pos)
        BY <3>1
      <4>2. ArgRound(s, L, args, begin, pos, val, k, from)
        BY <4>1, ArgRoundIs
      <4> QED
        BY <4>2 DEF ArgRound
    <3>3. val[next] = SubSeq(words, k + 1, n)
      BY <3>1, <3>2, <1>2
    <3>4. SubSeq(words, k, n) = <<words[k]>> \o SubSeq(words, k + 1, n)
      BY <3>1, TailOf
    <3> QED
      BY <3>1, <3>2, <3>3, <3>4, <1>7
  <2> QED
    BY <2>1, <2>2
<1>3. 1 \in P
  <2>1. P \in SUBSET (1 .. n + 1) /\ 1 \in Int /\ n + 1 \in Int /\ 1 \in 1 .. n + 1
    BY <1>1
  <2> HIDE DEF P
  <2> QED
    BY <2>1, <1>2, Downwards
<1>4. 1 \in begin[1] + 1 .. pos[1] /\ 1 \in 1 .. L + 1
  <2>1. pos[1] >= 1
    <3>1. CASE n = 0
      BY <3>1, <1>1
    <3>2. CASE n # 0
      <4>1. 1 \in 1 .. n
        BY <3>2, <1>1
      <4> DEFINE a == args[1]
                 e == begin[1 + 1]
                 p == pos[1]
                 b == begin[1]
      <4>2. ArgOk(a) /\ ArgAt(s, b, e, p, a)
        BY <4>1 DEF Scanned
      <4>3. a.spaces \in Nat /\ p = b + a.spaces + 1
        BY <4>2 DEF ArgOk, ArgAt
      <4> QED
        BY <4>3, <1>1
    <3> QED
      BY <3>1, <3>2
  <2>2. pos[1] \in Nat
    BY <1>1
  <2> QED
    BY <2>1, <2>2, <1>1
<1>5. val[1] = SubSeq(words, 1, n)
  BY <1>3, <1>4
<1>6. SubSeq(words, 1, n) = words
  OBVIOUS
<1> QED
  BY <1>5, <1>6, <1>7

\* The arguments of a line that LineOf() composes are in it, one behind the other.
LEMMA LineScanned ==
  ASSUME text \in Lines, NEW line, line = LineOf(text),
         NEW s, s = [line EXCEPT ![Len(line)] = Space]
  PROVE  /\ line \in Seq(LineChars) /\ s \in Seq(LineChars)
         /\ text.args \in Seq(Arguments) /\ (\A k \in DOMAIN text.args : ArgOk(text.args[k]))
         /\ \E begin, pos : Scanned(s, Len(s), text.args, Len(text.args), begin, pos)
<1> DEFINE args == text.args
           n == Len(args)
           t == text.spaces
           sp == Spaces(t)
           nl == <<"\n">>
           pieces == [k \in 1 .. n |-> Spaces(args[k].spaces) \o Written(args[k])]
           flat == FlattenSeq(pieces)
           f2 == flat \o sp
           F == Len(flat)
           L == (F + t) + 1
<1>1. /\ args \in Seq(Arguments) /\ n \in Nat /\ DOMAIN args = 1 .. n /\ t \in Nat
      /\ \A k \in 1 .. n : args[k] \in Arguments
      /\ \A k \in 1 .. n : k = 1 \/ args[k - 1].quoted \/ args[k].spaces > 0
  <2>1. MaxArgs \in Nat /\ MaxSpaces \in Nat
    BY TextsAssumption DEF TextsAssumption
  <2>2. args \in Upto(MaxArgs, Arguments) /\ t \in Nat
    BY <2>1 DEF Lines
  <2>3. args \in Seq(Arguments)
    <3> HIDE DEF args
    <3> QED
      BY <2>1, <2>2, UptoSeq
  <2>4. \A k \in DOMAIN args : k = 1 \/ args[k - 1].quoted \/ args[k].spaces > 0
    BY DEF Lines
  <2> HIDE DEF args
  <2> QED
    BY <2>2, <2>3, <2>4
<1>2. line = f2 \o nl
  BY <1>1 DEF LineOf
<1> HIDE DEF args, t
<1>3. \A k \in 1 .. n : ArgOk(args[k])
  BY <1>1, ArgumentsOk
<1>4. ASSUME NEW k \in 1 .. n
      PROVE  /\ pieces[k] \in Seq(LineChars)
             /\ ArgAt(pieces[k], 0, Len(pieces[k]), args[k].spaces + 1, args[k])
  <2>1. pieces[k] = Spaces(args[k].spaces) \o Written(args[k]) /\ ArgOk(args[k])
    BY <1>3
  <2> HIDE DEF pieces
  <2> QED
    BY <2>1, PieceIs
<1>5. pieces \in Seq(Seq(LineChars)) /\ n = Len(pieces)
  <2>1. \A k \in 1 .. n : Spaces(args[k].spaces) \o Written(args[k]) \in Seq(LineChars)
    BY <1>4
  <2>2. pieces \in [1 .. n -> Seq(LineChars)]
    BY <2>1
  <2>3. Len(pieces) = n
    BY <1>1
  <2> HIDE DEF pieces
  <2> QED
    BY <2>2, <2>3, <1>1
<1> HIDE DEF pieces
<1>6. PICK begin : Flattened(LineChars, pieces, n, begin, flat)
  <2> HIDE DEF n
  <2> QED
    BY <1>5, FlattenIs
<1>7. /\ begin \in [1 .. n + 1 -> Nat] /\ begin[1] = 0 /\ flat \in Seq(LineChars) /\ F = begin[n + 1] /\ F \in Nat
      /\ \A k \in 1 .. n : /\ begin[k + 1] = begin[k] + Len(pieces[k]) /\ begin[k + 1] <= F
                           /\ \A j \in 1 .. Len(pieces[k]) : flat[begin[k] + j] = pieces[k][j]
  <2>1. flat \in Seq(LineChars)
    BY <1>6 DEF Flattened
  <2>2. F \in Nat
    <3> HIDE DEF flat
    <3> QED
      BY <2>1
  <2> QED
    BY <1>6, <2>1, <2>2 DEF Flattened
<1> HIDE DEF flat, n
<1>8. Beside(LineChars, f2, flat, F, sp, t)
  <2>1. sp \in Seq(LineChars) /\ t = Len(sp)
    BY <1>1, SpacesIs
  <2> HIDE DEF sp
  <2> QED
    BY <2>1, <1>7, CatAt
<1>9. sp \in Seq(LineChars) /\ \A k \in 1 .. t : sp[k] = Space
  BY <1>1, SpacesIs
<1> HIDE DEF sp, F
<1>10. /\ f2 \in Seq(LineChars) /\ F + t = Len(f2) /\ (\A q \in 1 .. F : f2[q] = flat[q])
       /\ \A q \in F + 1 .. F + t : f2[q] = Space
  <2>1. \A q \in F + 1 .. F + t : q - F \in 1 .. t /\ F + (q - F) = q
    BY <1>1, <1>7
  <2>2. \A q \in F + 1 .. F + t : f2[F + (q - F)] = sp[q - F]
    BY <1>8, <2>1 DEF Beside
  <2> HIDE DEF f2
  <2>3. \A q \in F + 1 .. F + t : f2[q] = Space
    BY <2>1, <2>2, <1>9
  <2> QED
    BY <2>3, <1>8 DEF Beside
<1> HIDE DEF f2
<1>11. Beside(LineChars, line, f2, F + t, nl, 1)
  <2>1. "\n" \in LineChars
    BY DEF LineChars
  <2>2. nl \in Seq(LineChars) /\ 1 = Len(nl)
    BY <2>1
  <2> HIDE DEF nl
  <2> QED
    BY <2>2, <1>2, <1>10, CatAt
<1>12. line \in Seq(LineChars) /\ Len(line) = L /\ L \in Nat /\ \A q \in 1 .. F + t : line[q] = f2[q]
  BY <1>1, <1>7, <1>11 DEF Beside
<1>13. /\ s \in Seq(LineChars) /\ L = Len(s) /\ (\A q \in 1 .. F + t : s[q] = line[q]) /\ s[L] = Space
  <2>1. Space \in LineChars /\ DOMAIN line = 1 .. L /\ L \in 1 .. L
    BY <1>1, <1>7, <1>12 DEF LineChars
  <2>2. s = [line EXCEPT ![L] = Space]
    BY <1>12
  <2>3. \A q \in 1 .. F + t : q \in 1 .. L /\ q # L
    BY <1>1, <1>7
  <2>4. s \in [1 .. L -> LineChars]
    BY <2>1, <2>2, <1>12
  <2> HIDE DEF L
  <2>5. s \in Seq(LineChars) /\ L = Len(s)
    BY <2>1, <2>2, <1>12
  <2>6. (\A q \in 1 .. F + t : s[q] = line[q]) /\ s[L] = Space
    BY <2>1, <2>2, <2>3, <1>12
  <2> QED
    BY <2>5, <2>6
<1>14. /\ \A q \in 1 .. F : s[q] = flat[q]
       /\ \A q \in F + 1 .. L : s[q] = Space
  <2>3. F \in Nat /\ t \in Nat
    BY <1>1, <1>7
  <2>1. \A q \in 1 .. F : q \in 1 .. F + t
    BY <2>3
  <2>2. \A q \in F + 1 .. L : q = L \/ (q \in F + 1 .. F + t /\ q \in 1 .. F + t)
    BY <2>3
  <2> HIDE DEF L
  <2> QED
    BY <2>1, <2>2, <1>10, <1>12, <1>13
<1> DEFINE pos == [k \in 1 .. n + 1 |-> IF k = n + 1 THEN L + 1 ELSE begin[k] + args[k].spaces + 1]
<1>15. ASSUME NEW k \in 1 .. n PROVE begin[k] \in Nat /\ args[k].spaces \in Nat /\ k \in 1 .. n + 1 /\ k # n + 1
                                     /\ begin[k + 1] \in Nat /\ k + 1 \in 1 .. n + 1
  <2>1. k \in 1 .. n + 1 /\ k # n + 1 /\ k + 1 \in 1 .. n + 1
    BY <1>1
  <2>2. args[k].spaces \in Nat
    BY <1>3 DEF ArgOk
  <2>3. begin \in [1 .. n + 1 -> Nat]
    BY <1>7
  <2> QED
    BY <2>1, <2>2, <2>3
<1>16. /\ pos \in [1 .. n + 1 -> Nat] /\ pos[n + 1] = L + 1
       /\ \A k \in 1 .. n : pos[k] = begin[k] + args[k].spaces + 1
  <2>1. n + 1 \in 1 .. n + 1 /\ L + 1 \in Nat
    BY <1>1, <1>12
  <2>2. ASSUME NEW k \in 1 .. n + 1 PROVE (IF k = n + 1 THEN L + 1 ELSE begin[k] + args[k].spaces + 1) \in Nat
    <3>1. CASE k = n + 1
      BY <3>1, <2>1
    <3>2. CASE k # n + 1
      <4>1. k \in 1 .. n
        BY <3>2, <1>1
      <4> QED
        BY <4>1, <1>15
    <3> QED
      BY <3>1, <3>2
  <2> HIDE DEF L
  <2> QED
    BY <2>1, <2>2, <1>15
<1> HIDE DEF pos
<1>17. ASSUME NEW k \in 1 .. n PROVE ArgAt(s, begin[k], begin[k + 1], pos[k], args[k])
  <2> DEFINE p == pieces[k]
             b == begin[k]
             a == args[k]
  <2>1. /\ ArgOk(a) /\ p \in Seq(LineChars) /\ ArgAt(p, 0, Len(p), a.spaces + 1, a) /\ b \in Nat
        /\ begin[k + 1] = b + Len(p) /\ pos[k] = b + a.spaces + 1 /\ begin[k + 1] <= F
        /\ \A j \in 1 .. Len(p) : flat[b + j] = p[j]
    BY <1>3, <1>4, <1>7, <1>15, <1>16
  <2> HIDE DEF p, b, a
  <2>2. \A j \in 1 .. Len(p) : b + j \in 1 .. F
    <3>1. Len(p) \in Nat /\ b + Len(p) <= F
      BY <2>1
    <3> QED
      BY <3>1, <2>1, <1>7
  <2>3. \A j \in 1 .. Len(p) : s[b + j] = p[j]
    BY <2>1, <2>2, <1>14
  <2>4. ArgAt(s, b, b + Len(p), b + a.spaces + 1, a)
    BY <2>1, <2>3, ArgShifted
  <2> QED
    BY <2>1, <2>4 DEF p, b, a
<1>18. ASSUME NEW k \in 1 .. n, ~args[k].quoted PROVE pos[k + 1] >= begin[k + 1] + 2
  <2>1. CASE k = n
    BY <2>1, <1>1, <1>7, <1>16
  <2>2. CASE k # n
    <3>1. k + 1 \in 1 .. n /\ (k + 1) - 1 = k /\ k + 1 # 1
      BY <2>2, <1>1
    <3>2. args[k + 1].spaces > 0
      BY <3>1, <1>1, <1>18
    <3>3. pos[k + 1] = begin[k + 1] + args[k + 1].spaces + 1 /\ begin[k + 1] \in Nat /\ args[k + 1].spaces \in Nat
      BY <3>1, <1>15, <1>16
    <3> QED
      BY <3>2, <3>3
  <2> QED
    BY <2>1, <2>2
<1>19. begin[n + 1] + 1 <= L /\ \A q \in begin[n + 1] + 1 .. L : s[q] = Space
  BY <1>1, <1>7, <1>14
<1>20. Scanned(s, L, args, n, begin, pos)
  <2> HIDE DEF L
  <2> QED
    BY <1>1, <1>3, <1>7, <1>12, <1>13, <1>16, <1>17, <1>18, <1>19 DEF Scanned
<1>21. \E begin2, pos2 : Scanned(s, Len(s), args, n, begin2, pos2)
  <2> HIDE DEF L
  <2>1. Scanned(s, Len(s), args, n, begin, pos)
    BY <1>13, <1>20
  <2> QED
    BY <2>1
<1> QED
  <2> HIDE DEF L
  <2> QED
    BY <1>1, <1>3, <1>12, <1>13, <1>21 DEF args, n

\* parseline() finds the arguments of a line, and whether it is one for the background.
LEMMA LineIs ==
  ASSUME text \in Lines
  PROVE  LineRight
<1> DEFINE args == text.args
           n == Len(args)
           line == LineOf(text)
           s == [line EXCEPT ![Len(line)] = Space]
           L == Len(s)
           words == [k \in DOMAIN args |-> args[k].word]
           argv == Argv(line)
           bg == words # <<>> /\ Last(words) # <<>> /\ Head(Last(words)) = "&"
           bg2 == argv # <<>> /\ Last(argv) # <<>> /\ Last(argv)[1] = "&"
<1>1. /\ line \in Seq(LineChars) /\ s \in Seq(LineChars)
      /\ args \in Seq(Arguments) /\ (\A k \in DOMAIN args : ArgOk(args[k]))
      /\ \E begin, pos : Scanned(s, L, args, n, begin, pos)
  <2> HIDE DEF line
  <2>1. line = LineOf(text)
    BY DEF line
  <2> HIDE DEF s
  <2>2. s = [line EXCEPT ![Len(line)] = Space]
    BY DEF s
  <2> QED
    BY <2>1, <2>2, LineScanned
<1>2. words \in Seq(Seq(LineChars)) /\ n = Len(words) /\ \A k \in 1 .. n : words[k] = args[k].word
  <2> HIDE DEF args
  <2>1. DOMAIN args = 1 .. n /\ n \in Nat
    BY <1>1
  <2>2. \A k \in 1 .. n : args[k].word \in Seq(LineChars)
    BY <1>1, <2>1 DEF ArgOk
  <2>3. words \in [1 .. n -> Seq(LineChars)] /\ \A k \in 1 .. n : words[k] = args[k].word
    BY <2>1, <2>2
  <2> HIDE DEF words, n
  <2> QED
    BY <2>1, <2>3
<1>3. argv = words
  <2> HIDE DEF line, s, args, n, words
  <2>1. Space \in LineChars /\ s = [line EXCEPT ![Len(line)] = Space]
    BY DEF LineChars, s
  <2>2. PICK val : ArgRounds(LineChars, s, line, val)
    BY <1>1, <2>1, ArgvIs
  <2>3. PICK begin, pos : Scanned(s, L, args, n, begin, pos)
    BY <1>1
  <2> QED
    BY <2>2, <2>3, <1>2, ScanIs
<1> HIDE DEF line, words
<1>4. words # <<>> => Last(words) \in Seq(LineChars) /\ (Last(words) # <<>> => Head(Last(words)) = Last(words)[1])
  <2>1. ASSUME words # <<>> PROVE Len(words) \in 1 .. Len(words)
    <3>1. Len(words) # 0
      BY <2>1, <1>2, EmptySeq
    <3> QED
      BY <3>1, <1>2
  <2>2. words # <<>> => words[Len(words)] \in Seq(LineChars)
    BY <2>1, <1>2
  <2> DEFINE last == words[Len(words)]
  <2>3. last \in Seq(LineChars) /\ last # <<>> => Head(last) = last[1]
    <3> HIDE DEF last
    <3> QED
      OBVIOUS
  <2>4. Last(words) = last
    BY DEF Last
  <2> HIDE DEF last
  <2> QED
    BY <2>2, <2>3, <2>4 DEF last
<1>5. bg2 = bg
  BY <1>3, <1>4
<1>6. parseline(line) = IF argv = <<>> THEN [argv |-> argv, bg |-> TRUE]
                        ELSE [argv |-> IF bg2 THEN Front(argv) ELSE argv, bg |-> bg2]
  BY DEF parseline
<1> HIDE DEF argv
<1>7. CASE words = <<>>
  <2>1. parseline(line).argv = <<>> /\ parseline(line).bg
    BY <1>3, <1>6, <1>7
  <2> QED
    BY <2>1, <1>7 DEF LineRight, words, line
<1>8. CASE words # <<>>
  <2> HIDE DEF bg, bg2
  <2>1. parseline(line) = [argv |-> IF bg THEN Front(words) ELSE words, bg |-> bg]
    BY <1>3, <1>5, <1>6, <1>8
  <2>2. parseline(line).bg = bg /\ parseline(line).argv = IF bg THEN Front(words) ELSE words
    BY <2>1
  <2> QED
    BY <2>2, <1>8 DEF LineRight, words, line, bg
<1> QED
  BY <1>7, <1>8

\* The text of a behaviour is one that TextsInit composes, or none.
TextOk == text \in Lines \cup Urls \cup Uris \cup Longs \cup {[kind |-> "none"]}

\* What parseline(), parse_url(), parse_uri() and sio_putl() take apart or write is right, for command
\* lines of any number of arguments, urls, uris and words of any length over any characters, any
\* number of spaces between arguments, and longs of any width.
THEOREM TextsCorrect == Spec => []TextRight
<1>1. Init => TextOk
  <2>1. NoTexts => TextOk
    BY DEF NoTexts, TextOk
  <2>2. TextsInit => TextOk
    BY DEF TextsInit, TextOk
  <2> QED
    BY <2>1, <2>2 DEF Init
<1>2. TextOk /\ [Next]_vars => TextOk'
  <2>1. [Next]_vars => text' = text
    BY DEF Next, vars
  <2> QED
    BY <2>1 DEF TextOk
<1>3. TextOk => TextRight
  <2>1. ASSUME text \in Lines PROVE TextRight
    <3>1. text.kind = "line"
      BY <2>1 DEF Lines
    <3> QED
      BY <2>1, <3>1, LineIs DEF TextRight
  <2>2. ASSUME text \in Urls PROVE TextRight
    <3>1. text.kind = "url"
      BY <2>2 DEF Urls
    <3> QED
      BY <2>2, <3>1, UrlIs DEF TextRight
  <2>3. ASSUME text \in Uris PROVE TextRight
    <3>1. text.kind = "uri"
      BY <2>3 DEF Uris
    <3> QED
      BY <2>3, <3>1, UriIs DEF TextRight
  <2>4. ASSUME text \in Longs PROVE TextRight
    <3>1. text.kind = "long" /\ LONG_MAX \in Nat
      BY <2>4, TextsAssumption DEF Longs, TextsAssumption
    <3> QED
      BY <2>4, <3>1, LongIs DEF TextRight
  <2>5. ASSUME text = [kind |-> "none"] PROVE TextRight
    <3>1. text.kind = "none"
      BY <2>5
    <3> QED
      BY <3>1 DEF TextRight
  <2> QED
    BY <2>1, <2>2, <2>3, <2>4, <2>5 DEF TextOk
<1> QED
  BY <1>1, <1>2, <1>3, PTL DEF Spec
=============================================================================
