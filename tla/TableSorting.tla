---------------------------- MODULE TableSorting ----------------------------
(***************************************************************************)
(* standardista-table-sorting.js with css.js: the tables of a console page *)
(* get headings to click, and rows that are sorted, turned round, moved    *)
(* and striped.  One object remembers the last sort of the whole page, by  *)
(* the id of its table; connections.jsp gives two tables the same id.      *)
(***************************************************************************)
EXTENDS Integers, Sequences, FiniteSets, SequencesExt

CONSTANTS Table,    \* 1 .. n, in the order of the page; all have class autostripe
          Column,   \* 0 .. n
          Content,  \* name -> row -> column -> cell: what a table may have
          Contents, \* choices of: table -> the name of what it has
          Nodes,    \* choices of: table -> column -> how many nodes its heading has
          MaxClicks \* bounds the clicks

ASSUME TableAssumption == Table \subseteq Nat \ {0} /\ 1 \in Table
ASSUME ColumnAssumption == Column \subseteq Nat /\ 0 \in Column
ASSUME ContentAssumption ==
    Contents \subseteq [Table -> DOMAIN Content] /\ \A n \in DOMAIN Content : Len(Content[n]) \in Nat

VARIABLES
    ids,      \* table -> its id
    holds,    \* table -> the name of what it has
    rows,     \* table -> its rows, in order
    odd,      \* the rows with class odd
    heading,  \* table -> column -> the nodes in its link, and those that are not
    arrow,    \* table -> column -> "", "ASC" or "DESC"
    last,     \* lastSortedTable, sortColumnIndex, newRows and the function that sorted
    turned,   \* the headings with an upward arrow that were sorted upwards again
    loaded,   \* whether the page's load event was handled
    clicks
tableVars == <<ids, holds, rows, odd, heading, arrow, last, turned, loaded, clicks>>

NoTable == 0
Cell(r, c) == Content[holds[r[1]]][r[2]][c]

-----------------------------------------------------------------------------
(* Sorting.  A cell has the text it shows as a rank among texts, the number    *)
(* parsed from it, NaN if there is none, and what looks like a date or an      *)
(* address as the sequence of its parts; an empty one is "19" as a date.       *)

NaN == 1000

determineSortFunction(c) ==
    CASE c.looks \in {"date10", "date8"} -> "sortDate"
      [] c.looks = "money"               -> "sortCurrency"
      [] c.looks = "number"              -> "sortNumeric"
      [] c.looks = "ip"                  -> "sortIP"
      [] OTHER                           -> "sortCaseInsensitive"

\* Two digit years less than 50 are of this century.
DateKey(c) ==
    LET y == Head(c.parts) IN
    CASE c.looks = "date10" -> c.parts
      [] c.looks = "date8"  -> <<IF y < 50 THEN 2000 + y ELSE 1900 + y>> \o Tail(c.parts)
      [] OTHER -> <<19>>

\* What a sort function compares, part by part; makeStandardIPAddress fills the parts
\* of an address up to three digits, so that texts compare as numbers do.  Among addresses
\* nothing is "000", a number is filled up as well, and a word of three letters or more
\* comes after them.
IPKey(c) ==
    CASE c.looks = "ip"     -> c.parts
      [] c.looks = "empty"  -> <<0>>
      [] c.looks = "number" -> <<c.number>>
      [] OTHER              -> <<1000 + c.text>>

Key(fn, c) ==
    CASE fn = "sortDate"     -> DateKey(c)
      [] fn = "sortCurrency" -> <<c.number>>
      [] fn = "sortNumeric"  -> <<IF c.number = NaN THEN 0 ELSE c.number>>
      [] fn = "sortIP"       -> IPKey(c)
      [] OTHER               -> <<c.text>>

Less(a, b) ==
    \E n \in 0 .. Len(a) : /\ n < Len(b)
                           /\ SubSeq(a, 1, n) = SubSeq(b, 1, n)
                           /\ n = Len(a) \/ a[n + 1] < b[n + 1]

\* A difference with NaN is neither.
Comparable(fn, list, c) == \A r \in Range(list) : fn = "sortCurrency" => Cell(r, c).number # NaN

Ascending(list, fn, c) ==
    \A i \in 1 .. Len(list) - 1 : ~Less(Key(fn, Cell(list[i + 1], c)), Key(fn, Cell(list[i], c)))

\* What sort may leave: equals in any order, and any order if it cannot compare the rows.
Orders(list) == {order \in [DOMAIN list -> Range(list)] : IsInjective(order)}

Sorted(list, fn, c) ==
    IF Comparable(fn, list, c) THEN {order \in Orders(list) : Ascending(order, fn, c)}
    ELSE Orders(list)

-----------------------------------------------------------------------------
\* doStripe along the rows: every other one has the class.
Striped(list, had) == (had \ Range(list)) \union {list[i] : i \in {j \in DOMAIN list : j % 2 = 0}}

\* The n nodes of a heading move into its link while the list of them is gone along.
IntoLink(n) ==
    LET after[j \in 0 .. n] ==
          IF j = 0 THEN [link |-> <<>>, left |-> [i \in 1 .. n |-> i]]
          ELSE LET so == after[j - 1]
               IN  IF j > Len(so.left) THEN so
                   ELSE [link |-> Append(so.link, so.left[j]), left |-> RemoveAt(so.left, j)]
    IN  after[n]

\* A page as init and run leave it: makeSortable makes every heading a link, and
\* stripes the rows.
Page(idOf, contentOf, nodesOf) ==
    /\ ids = idOf
    /\ holds = contentOf
    /\ rows = [t \in Table |-> [i \in 1 .. Len(Content[contentOf[t]]) |-> <<t, i>>]]
    /\ odd = UNION {{t} \X {i \in 1 .. Len(Content[contentOf[t]]) : i % 2 = 0} : t \in Table}
    /\ heading = [t \in Table |-> [c \in Column |-> IntoLink(nodesOf[t][c])]]
    /\ arrow = [t \in Table |-> [c \in Column |-> ""]]
    /\ last = [table |-> NoTable, column |-> -1, newRows |-> <<>>, fn |-> "", of |-> NoTable]
    /\ turned = {}
    /\ loaded = FALSE
    /\ clicks = 0

TablesInit ==
    \E idOf \in {[t \in Table |-> t], [t \in Table |-> 1]}, nodesOf \in Nodes,
       contentOf \in Contents : Page(idOf, contentOf, nodesOf)

\* A list without the rows that are taken out of it.
Without(list, taken) ==
    LET stay == {i \in DOMAIN list : list[i] \notin Range(taken)}
        Nth(n) == CHOOSE i \in stay : Cardinality({h \in stay : h < i}) = n - 1
    IN  [n \in 1 .. Cardinality(stay) |-> list[Nth(n)]]

\* (Mutant: the rows are moved as they are.)
moveRowsUnstriped(t, newRows) ==
    /\ rows' = [u \in Table |->
                  Without(rows[u], newRows) \o (IF u = t THEN newRows ELSE <<>>)]
    /\ odd' = odd

\* appendChild moves the rows from where they are to the end of the table.
moveRows(t, newRows) ==
    /\ rows' = [u \in Table |->
                  Without(rows[u], newRows) \o (IF u = t THEN newRows ELSE <<>>)]
    /\ odd' = Striped(newRows, odd)

\* The first cell of the column that is not empty tells how to compare.
SortFunction(list, c) ==
    LET full  == {i \in DOMAIN list : Cell(list[i], c).looks # "empty"}
        first == IF full = {} THEN Len(list) ELSE CHOOSE i \in full : \A j \in full : i <= j
    IN  determineSortFunction(Cell(list[first], c))

\* (Mutant: the column is not looked at.)
AgainAnyColumn(t, c) == last.table = ids[t]

\* Sorted by this column last time: the rows of then are turned round.
Again(t, c) == last.table = ids[t] /\ last.column = c

\* (Mutant: the other arrows stay.)
ArrowsBeside(t, c) ==
    [d \in Column |-> IF d # c THEN arrow[t][d] ELSE IF arrow[t][c] = "ASC" THEN "DESC" ELSE "ASC"]

Arrows(t, c) ==
    [d \in Column |-> IF d # c THEN "" ELSE IF arrow[t][c] = "ASC" THEN "DESC" ELSE "ASC"]

headingClicked(t, c) ==
    /\ Len(rows[t]) > 1
    /\ clicks < MaxClicks
    /\ clicks' = clicks + 1
    /\ LET fn    == SortFunction(rows[t], c)
           again == Again(t, c)
       IN  \E newRows \in IF again THEN {Reverse(last.newRows)} ELSE Sorted(rows[t], fn, c) :
              /\ moveRows(t, newRows)
              /\ last' = [table |-> ids[t], column |-> c, newRows |-> newRows, of |-> t,
                          fn |-> IF again THEN last.fn ELSE fn]
              /\ turned' = IF ~again /\ arrow[t][c] = "ASC" THEN turned \union {<<t, c>>}
                           ELSE IF again THEN turned ELSE turned \ {<<t, c>>}
    /\ arrow' = [arrow EXCEPT ![t] = Arrows(t, c)]
    /\ UNCHANGED <<ids, holds, heading>>

\* The handler of the load event clicks the first node of the page's first heading:
\* its link, unless a text was left before that, whose parents are no link's parents.
standardistaTableSortingInit ==
    /\ ~loaded
    /\ loaded' = TRUE
    /\ IF heading[1][0].left = <<>> /\ Len(rows[1]) > 1 THEN headingClicked(1, 0)
       ELSE UNCHANGED <<ids, holds, rows, odd, heading, arrow, last, turned, clicks>>

UserClicks(t, c) == loaded /\ headingClicked(t, c) /\ UNCHANGED loaded

TablesNext ==
    \/ standardistaTableSortingInit
    \/ \E t \in Table, c \in Column : UserClicks(t, c)

TablesSpec == TablesInit /\ [][TablesNext]_tableVars

-----------------------------------------------------------------------------
(* Properties. *)

OneIdEach == IsInjective(ids)

\* moveRows and doStripe, lines 399 to 420: while each table has an id of its own, the
\* rows of every table have class odd in turn, whatever was sorted before.
StripesAlternate ==
    OneIdEach => \A t \in Table : \A i \in DOMAIN rows[t] : rows[t][i] \in odd <=> i % 2 = 0

\* headingClicked, lines 161 to 192: the rows of the table sorted last go up or down by
\* the column clicked last, unless it has amounts that are not numbers.
LastGoesOneWay ==
    OneIdEach /\ last.of # NoTable /\ Comparable(last.fn, last.newRows, last.column) =>
        /\ rows[last.of] = last.newRows
        /\ \/ Ascending(last.newRows, last.fn, last.column)
           \/ Ascending(Reverse(last.newRows), last.fn, last.column)

\* Lines 161 to 192 and 399 to 420: what was sorted last is in order where it was sorted,
\* and no sorting upsets the stripes of any table.
SortedOneWay == LastGoesOneWay /\ StripesAlternate

\* Line 194: "give the user some feedback about which way the column is sorted".  It is
\* right, unless the heading had an upward arrow and another table or column was sorted
\* in between, for then the rows are sorted upwards again; or cells of one column look
\* different, for then the way they are compared is another once they are sorted.
ArrowTells ==
    \A t \in Table, c \in Column :
        arrow[t][c] # "" /\ <<t, c>> \notin turned /\ OneIdEach =>
            LET fn == SortFunction(rows[t], c)
                Alike(r) == Cell(r, c).looks = "empty" \/ determineSortFunction(Cell(r, c)) = fn
            IN  Comparable(fn, rows[t], c) /\ (\A r \in Range(rows[t]) : Alike(r)) =>
                    Ascending(IF arrow[t][c] = "ASC" THEN rows[t] ELSE Reverse(rows[t]), fn, c)

\* Line 173: "if the last column that was sorted was this one, then all we need to do is
\* reverse the sorting on this column"; so no click takes rows out of another table.
RowsStay == \A t \in Table : Range(rows[t]) = {t} \X (1 .. Len(Content[holds[t]]))
=============================================================================
