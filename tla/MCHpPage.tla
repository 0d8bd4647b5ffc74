------------------------------ MODULE MCHpPage ------------------------------
EXTENDS HpPage

\* Three bands, the last of them two dots; a row of three words or of three
\* words less half a byte; every kind of printer
MCDevices ==
    {[land |-> land, sf |-> sf, jet |-> jet, strips |-> strips,
      xImage |-> IF land THEN 10 * 2 ^ sf ELSE width * 2 ^ sf,
      yImage |-> IF land THEN width * 2 ^ sf ELSE 10 * 2 ^ sf] :
        land \in BOOLEAN, sf \in {0, 1}, jet \in BOOLEAN, strips \in BOOLEAN, width \in {11, 12}}

\* Up to three dots, in the first and last bytes of rows and between them, and
\* in the first and last rows of bands, as seen in portrait and in landscape
MCPlaces == {0, 3, 8, 11}
MCRows == {0, 3, 4, 9}
MCInks == UNION {{{a, b, c} : a, b, c \in dots} :
                     dots \in {MCPlaces \X MCRows, MCRows \X MCPlaces}} \cup {{}}

\* No text; text whose place is that of a strip and in landscape not of a band,
\* or the other way round, or both or none; the paper is there or not
MCTexts ==
    {[x |-> -1, y |-> -1, err |-> 0, at |-> 0], [x |-> 6, y |-> 4, err |-> 0, at |-> 70],
     [x |-> 0, y |-> 0, err |-> 0, at |-> 0], [x |-> 8, y |-> 4, err |-> -4, at |-> 101],
     [x |-> 5, y |-> 3, err |-> -1, at |-> -7]}
=============================================================================
