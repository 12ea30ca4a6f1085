--------------------------- MODULE MCClosingPrice ---------------------------
EXTENDS ClosingPrice

CONSTANTS own, soft, sharp

\* The pick's own book, another soft book, the anchor.
MCPage(o, s, a) == [q \in {own, soft, sharp} |-> CASE q = own   -> o
                                                 [] q = soft  -> s
                                                 [] q = sharp -> a]

\* Two fills, two anchors, a page without the own book and one without anchor.
MCPages == {MCPage(2, 0, 1), MCPage(3, 0, 1), MCPage(3, 0, 2), MCPage(0, 1, 2),
            MCPage(2, 0, 0)}
=============================================================================
