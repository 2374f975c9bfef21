-------------------------------- MODULE Csim --------------------------------
(***************************************************************************)
(* The cache simulator cachelab/csim.c: main() replays the lines of a      *)
(* trace, access_cache() looks a block up in its set.  The trace is any    *)
(* sequence of loads, stores (one access) and modifications (two).         *)
(***************************************************************************)
EXTENDS Integers, Sequences, FiniteSets

CONSTANTS Geometries,  \* <<S, E>>: the numbers of sets and of lines of a set on the command line
          Blocks,      \* block numbers: addresses without their b low bits
          MaxAccesses  \* bound: accesses of a trace

ASSUME CsimAssumption == /\ Geometries \subseteq (Nat \ {0}) \X (Nat \ {0})
                         /\ Blocks \subseteq Nat /\ MaxAccesses \in Nat

VARIABLES geometry,    \* <<S, E>>
          lines,       \* the lines of each set
          hit_count, miss_count, eviction_count,
          access_log,  \* how many characters strcat() has put in access_log[20]
          again,       \* the blocks to access a second time: one, after the first half of an M
          recent       \* in each set, <<t, u>>: tag t was used after u (the code has no such thing)

counts == <<hit_count, miss_count, eviction_count>>
cachevars == <<lines, counts, access_log, again, recent>>
csimvars == <<geometry, cachevars>>

S == geometry[1]
E == geometry[2]

Sets == 0 .. S - 1
Ways == 1 .. E

SetOf(block) == block % S
TagOf(block) == block \div S

Least(I) == CHOOSE i \in I : \A j \in I : i <= j

\* main() takes the lines from malloc(), the first of the program: zero.
EmptyLines == [s \in Sets |-> [i \in Ways |-> [valid |-> FALSE, tag |-> 0, lru_counter |-> 0]]]
NoUse == [s \in Sets |-> {}]

EmptyCache ==
  /\ lines = EmptyLines /\ recent = NoUse
  /\ hit_count = 0 /\ miss_count = 0 /\ eviction_count = 0
  /\ access_log = 0 /\ again = {}

CsimInit == geometry \in Geometries /\ EmptyCache

\* Where the first loop stops: the tag, or a line that was never used.
Stops(set, tag) == {i \in Ways : ~set[i].valid \/ set[i].tag = tag}

Filled(tag) == [valid |-> TRUE, tag |-> tag, lru_counter |-> 0]

\* The first loop: a hit and a cold start leave the line in the same state.
Touch(set, tag) == IF Stops(set, tag) = {} THEN set
                   ELSE [set EXCEPT ![Least(Stops(set, tag))] = Filled(tag)]

\* The second loop: the first of the lines with the largest counter, and all grow older.
Oldest(set) == Least({i \in Ways : \A j \in Ways : set[j].lru_counter <= set[i].lru_counter})
Age(set) == [i \in Ways |-> [set[i] EXCEPT !.lru_counter = @ + 1]]

\* The characters of "hit ", "miss " and "miss eviction ".
HIT == 4
MISS == 5
MISS_EVICTION == 14

Valid(s) == {i \in Ways : lines[s][i].valid}
Cached(s) == {lines[s][i].tag : i \in Valid(s)}

\* The order of use once tag is used in a set where only others stay.
Used(order, tag, others) == (order \cap (others \X others)) \cup ({tag} \X others)

\* access_cache() in one of its three cases; log is what access_log holds when it is called.
Hit(s, tag, log) ==
  LET stops == Stops(lines[s], tag)
  IN  /\ stops # {} /\ lines[s][Least(stops)].valid
      /\ lines' = [lines EXCEPT ![s] = Age(Touch(@, tag))]
      /\ hit_count' = hit_count + 1 /\ access_log' = log + HIT
      /\ recent' = [recent EXCEPT ![s] = Used(@, tag, Cached(s) \ {tag})]
      /\ UNCHANGED <<miss_count, eviction_count>>

Cold(s, tag, log) ==
  LET stops == Stops(lines[s], tag)
  IN  /\ stops # {} /\ ~lines[s][Least(stops)].valid
      /\ lines' = [lines EXCEPT ![s] = Age(Touch(@, tag))]
      /\ miss_count' = miss_count + 1 /\ access_log' = log + MISS
      /\ recent' = [recent EXCEPT ![s] = Used(@, tag, Cached(s) \ {tag})]
      /\ UNCHANGED <<hit_count, eviction_count>>

\* Mutation: the line that is evicted gets the tag only.
Evict_KeepsCounter(s, tag, log) ==
  LET victim == Oldest(lines[s])
  IN  /\ Stops(lines[s], tag) = {}
      /\ lines' = [lines EXCEPT ![s] = [Age(@) EXCEPT ![victim].tag = tag]]
      /\ miss_count' = miss_count + 1 /\ eviction_count' = eviction_count + 1
      /\ access_log' = log + MISS_EVICTION
      /\ recent' = [recent EXCEPT ![s] = Used(@, tag, Cached(s) \ {lines[s][victim].tag})]
      /\ UNCHANGED hit_count

\* Mutation: need_evict is not reset by a cold start: an eviction in a set with free lines.
Evict_Early(s, tag, log) ==
  LET victim == Oldest(lines[s])
  IN  /\ \A i \in Ways : lines[s][i].valid => lines[s][i].tag # tag
      /\ lines' = [lines EXCEPT ![s] = [Age(@) EXCEPT ![victim] = Filled(tag)]]
      /\ miss_count' = miss_count + 1 /\ eviction_count' = eviction_count + 1
      /\ access_log' = log + MISS_EVICTION
      /\ recent' = [recent EXCEPT ![s] = Used(@, tag, Cached(s) \ {lines[s][victim].tag})]
      /\ UNCHANGED hit_count

\* The line that is evicted was aged before: its counter is 0, that of a line just hit is 1.
Evict(s, tag, log) ==
  LET victim == Oldest(lines[s])
  IN  /\ Stops(lines[s], tag) = {}
      /\ lines' = [lines EXCEPT ![s] = [Age(@) EXCEPT ![victim] = Filled(tag)]]
      /\ miss_count' = miss_count + 1 /\ eviction_count' = eviction_count + 1
      /\ access_log' = log + MISS_EVICTION
      /\ recent' = [recent EXCEPT ![s] = Used(@, tag, Cached(s) \ {lines[s][victim].tag})]
      /\ UNCHANGED hit_count

Access(block, log) ==
  LET s == SetOf(block)
      tag == TagOf(block)
  IN  /\ Hit(s, tag, log) \/ Cold(s, tag, log) \/ Evict(s, tag, log)
      /\ UNCHANGED geometry

\* Mutation: the log is not cleared between the lines of a trace.
Replay_KeepsLog(block, twice) ==
  /\ again = {} /\ hit_count + miss_count < MaxAccesses
  /\ Access(block, access_log)
  /\ again' = IF twice THEN {block} ELSE {}

\* main() on a line of the trace: L and S access the block once, M twice.  The log is cleared first.
Replay(block, twice) ==
  /\ again = {} /\ hit_count + miss_count < MaxAccesses
  /\ Access(block, 0)
  /\ again' = IF twice THEN {block} ELSE {}

Again ==
  /\ \E block \in again : Access(block, access_log)
  /\ again' = {}

CsimNext == Again \/ \E block \in Blocks, twice \in BOOLEAN : Replay(block, twice)

-----------------------------------------------------------------------------
CacheTypeOK ==
  /\ lines \in [Sets -> [Ways -> [valid : BOOLEAN, tag : Nat, lru_counter : Nat]]]
  /\ hit_count \in Nat /\ miss_count \in Nat /\ eviction_count \in Nat
  /\ access_log \in Nat /\ again \subseteq Blocks /\ Cardinality(again) <= 1
  /\ recent \in [Sets -> SUBSET (Nat \X Nat)]

\* The lines in use come first and have different tags: the first loop may stop at the first
\* line that was never used, the tag is not further on.  And every miss has filled a line of its
\* own or evicted one: the counts that printSummary() shows agree with what is in the cache, and
\* no set evicts before it is full.  No line is older than the number of accesses: the counters of
\* age cannot overflow before those counts do.
CacheExact ==
  /\ \A s \in Sets, i, j \in Ways :
       /\ j \in Valid(s) /\ i < j => i \in Valid(s)
       /\ i \in Valid(s) /\ j \in Valid(s) /\ lines[s][i].tag = lines[s][j].tag => i = j
  /\ miss_count = eviction_count + Cardinality({p \in Sets \X Ways : p[2] \in Valid(p[1])})
  /\ \A s \in Sets, i \in Ways : lines[s][i].lru_counter <= hit_count + miss_count

\* strcat() stays within access_log[20], the final NUL included.
LogFits == access_log + 1 <= 20

\* What leaves a set is, of its tags, the one not used for longest or the one used next after
\* it: a line that an eviction has filled looks one access younger than it is, no more.
NearlyLru ==
  [][\A s \in Sets : \A tag \in Cached(s) \ Cached(s)' :
       \A t, u \in Cached(s) : {<<tag, t>>, <<tag, u>>} \subseteq recent[s] => t = u]_csimvars
=============================================================================
