--------------------------- MODULE MCProxyCache ---------------------------
EXTENDS ProxyCache, TLC

\* Threads are interchangeable, and so are the urls that fit a line.  Not for liveness.
Symmetry == Permutations(Threads) \cup Permutations(Urls \ Big)
=============================================================================
