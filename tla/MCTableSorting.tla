--------------------------- MODULE MCTableSorting ---------------------------
(* Two tables of a page, with every kind of cell, and five rows at most.   *)
EXTENDS TableSorting, TLC

CellOf(looks, text, number, parts) == [looks |-> looks, text |-> text, number |-> number, parts |-> parts]
Word(n)  == CellOf("word", 100 + n, NaN, <<>>)
Num(n)   == CellOf("number", n, n, <<>>)
Money(n) == CellOf("money", 50 + n, n, <<>>)
Empty    == CellOf("empty", -1, NaN, <<>>)
Date10(y, m, d) == CellOf("date10", 10 * d + m, d, <<y, m, d>>)
Date8(y, m, d)  == CellOf("date8", 10 * d + m, d, <<y, m, d>>)
Address(a, b)   == CellOf("ip", 10 + a, 10, <<10, 0, a, b>>)
TwoColumns(a, b) == [r \in DOMAIN a |-> (0 :> a[r]) @@ (1 :> b[r])]
MCContent ==
    <<TwoColumns(<<Word(1), Word(3), Word(2)>>, <<Empty, Date8(49, 1, 1), Date10(1950, 1, 1)>>),
      TwoColumns(<<Empty, Empty>>, <<Money(5), Empty>>),
      TwoColumns(<<Num(7), Word(2), Num(0)>>, <<Date10(2004, 5, 1), Date8(99, 12, 31), Date8(5, 2, 3)>>),
      TwoColumns(<<Address(2, 2), Word(1), Address(1, 3)>>, <<Money(5), Money(9), Money(3)>>),
      TwoColumns(<<Word(1)>>, <<Num(5)>>)>>
MCContents ==
    {h \in [Table -> DOMAIN MCContent] : Len(MCContent[h[1]]) + Len(MCContent[h[2]]) <= 5}
MCNodes == {<<(0 :> n) @@ (1 :> 3), (0 :> 0) @@ (1 :> 2)>> : n \in 1 .. 2}
=============================================================================
