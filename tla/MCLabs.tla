------------------------------- MODULE MCLabs -------------------------------
EXTENDS Labs

\* Two sets of three lines; a direct mapped cache; one set of two lines.
MCGeometries == {<<2, 3>>, <<4, 1>>, <<1, 2>>}
\* The least matrix; tiles of 17 that end at the edge, one row and one column beyond it; a scan of
\* a matrix that fills the array's width.
MCOtherSizes == {<<1, 1>>, <<17, 18>>, <<18, 17>>, <<35, 4>>, <<256, 2>>}
=============================================================================
