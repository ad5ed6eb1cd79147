---------------------------- MODULE MCWebConsole ----------------------------
(* Pages for each of the scripts of WebConsole.                             *)
EXTENDS WebConsole, MCTableSorting, FiniteSets, SequencesExt, TLC

-----------------------------------------------------------------------------
(* MochiKit *)

\* What MochiKitAsync calls Fn(name, on); a constant of that module names none of its operators.
NoCall == <<"null", "null">>
MCCallbacks ==
    {<<f, NoCall>> : f \in {<<"give", "a">>, <<"raise", "null">>, <<"add", "null">>}
                           \union {"wait", "cancel"} \X Deferreds}
      \union {<<NoCall, <<"give", "a">>>>}
      \union {<<<<"wait", d>>, <<"wait", d>>>> : d \in Deferreds}
MCMaxCalls == [chain |-> 4, lock |-> 6, list |-> 4, net |-> 5]
Sym == Permutations(Deferreds)

Arr(s) == [kind |-> "array", list |-> s, i |-> 0]
Rng(a, b, c) == [kind |-> "range", start |-> a, stop |-> b, step |-> c]
IterOver(kind, of) == [kind |-> kind, of |-> of]
Sync(of, n) == [kind |-> "sync", of |-> of, pos |-> [i \in 1 .. n |-> -1], deque |-> <<>>,
                max |-> -1, min |-> -1]
TeeOf(sync, n) == [kind |-> "tee", sync |-> sync, n |-> n]
Pred(kind, of, set) == [kind |-> kind, of |-> of, pred |-> set, stopped |-> FALSE, dropped |-> FALSE]
Islice(of, a, b, c) == [kind |-> "islice", of |-> of, start |-> a, stop |-> b, step |-> c, i |-> -1]
Imap(of, fun) == [kind |-> "imap", of |-> of, fun |-> fun]
CountOf(n) == [kind |-> "count", n |-> n]
RepeatOf(n) == [kind |-> "repeat", n |-> n, elem |-> 7]
Cyc(of) == [kind |-> "cycle", of |-> of, lst |-> <<>>, i |-> -1, looping |-> FALSE]
Grp(of) == [kind |-> "groupby", of |-> of, key |-> [v \in 0 .. 2 |-> v], pk |-> <<>>,
            k |-> <<>>, v |-> <<>>, first |-> TRUE]
\* Every iterator is over a short list, and some are over others.
MCBuilds ==
    UNION {{<<Arr(s), Sync(1, 3), TeeOf(2, 1), TeeOf(2, 2), TeeOf(2, 3)>>,
            <<Arr(s), Cyc(1)>>,
            <<Arr(s), Pred("takewhile", 1, {0}), Arr(<<1>>), IterOver("chain", <<2, 3>>)>>,
            <<Arr(s), Pred("filter", 1, {0, 1}), Arr(<<5, 6>>), IterOver("izip", <<2, 3>>)>>,
            <<Arr(s), Pred("filterfalse", 1, {0}), Pred("dropwhile", 2, {2}), CountOf(3),
              Imap(<<3, 4>>, "add")>>}
             : s \in SeqOf(0 .. 2, 3)}
      \union {<<Rng(a, 4, 1), Islice(1, b, c, d)>> : a \in {0, 2}, b \in 0 .. 2, c \in 0 .. 4, d \in 1 .. 3}
      \union {<<Arr(s), Grp(1)>> : s \in SeqOf({0, 1}, 4)}
      \union {<<Rng(4, b, -2), RepeatOf(n), IterOver("chain", <<1, 2>>)>> : b \in -1 .. 4, n \in 0 .. 2}

MCSizes == {-1, 0, 1}

-----------------------------------------------------------------------------
(* The pages' own scripts *)

MCClassName == {<<"odd">>, <<"odd", "row">>, <<"sortable">>}
MCFirstClasses == {<<<<>>>>, <<<<"sortable">>, <<"odd">>>>}

-----------------------------------------------------------------------------
(* prettify *)

Node(tag, marked, lang, before, child, after) ==
    [tag |-> tag, marked |-> marked, lang |-> lang, before |-> before, child |-> child, after |-> after]
Single(tag, marked, lang, html) == [n \in {"one"} |-> Node(tag, marked, lang, html, "", <<>>)]
Nested(tags, marked, html, inner) ==
    [n \in {"one", "two"} |-> IF n = "one" THEN Node(tags[1], marked[1], "", html, "two", <<"nl", "x">>)
                              ELSE Node(tags[2], marked[2], "", inner, "", <<>>)]
Codes3 == SeqOf({"x", " ", "tab", "/", "*", "sq", "nl", "bs"}, 3) \union SeqOf({"return", "/", "#", "x", "dq"}, 3)
Tagged == SeqOf({"x", " ", "<br>", "<b>", "<b nocode>", "</b>", "<!---->"}, 3)
Pieces ==
    {<<"&lt;", "x">>, <<" ", "x", "=", "dq", "x", "dq">>, <<" ", "onx", "x", "=", "sq", "x", "sq">>,
     <<" ", "x", "=", "x", "/">>, <<"&gt;">>,
     <<"&lt;", "script", "&gt;", "x", ";", "&lt;", "/", "script", "&gt;">>,
     <<"&lt;", "!", "--", "x", "--", "&gt;">>, <<"&lt;", "?", "x", "?", "&gt;">>,
     <<"&lt;", "!", "x", "&gt;">>, <<"&amp;", "nbsp", ";">>}
Markup ==
    {<<"&lt;">> \o FlattenSeq(s) : s \in SeqOf(Pieces, 2)}
      \union {<<"&lt;", "x">> \o FlattenSeq(s) : s \in SeqOf({p \in Pieces : p[1] \in {" ", "&gt;"}}, 3)}
Java == SeqOf({"x", ";", "/", "*", "sq", "dq", "nl", "bs"}, 3) \union SeqOf({"/", "*", "sq", "nl", "bs"}, 4)
MCPages ==
    {Single("PRE", TRUE, "java", h) : h \in Java}
      \union {Single("PRE", TRUE, "", h) : h \in Codes3 \union Tagged \union Markup}
      \union {Single(t, m, "", h) : t \in {"CODE", "XMP"}, m \in BOOLEAN,
                                    h \in {<<>>, <<"x", "nl">>, <<"<b>", "x", "</b>">>, <<"<br>", " ">>,
                                            <<"&lt;", "x">>, <<"<!---->">>, <<"<b nocode>", "/", "/">>,
                                            <<"&nbsp;">>}}
      \union {Nested(t, m, h, i) :
                t \in {<<"PRE", "CODE">>, <<"CODE", "PRE">>, <<"PRE", "XMP">>, <<"CODE", "XMP">>},
                m \in BOOLEAN \X BOOLEAN, h \in {<<>>, <<"x">>, <<" ">>},
                i \in {<<>>, <<"x">>, <<" ", "tab">>, <<"<br>">>}}

\* The first and last letters, and their neighbours.
Edge == {60, 65, 68, 90, 97, 100, 122}
MCCharsets == UNION {[1 .. n -> {r \in Edge \X Edge : r[1] <= r[2]}] : n \in 1 .. 2}
MCCodes == 58 .. 126

-----------------------------------------------------------------------------
(* PlotKit *)

\* The origin is zero on both axes or on none, and both axes are given or none.
Opts(zero, axis, xTicks, yTicks) ==
    [xOriginIsZero |-> zero, yOriginIsZero |-> zero, xAxis |-> axis, yAxis |-> axis,
     xTicks |-> xTicks, yTicks |-> yTicks]
MCOptions ==
    {Opts(TRUE, <<>>, <<>>, <<>>), Opts(TRUE, <<>>, <<1, 2>>, <<1, 3>>), Opts(FALSE, <<>>, <<>>, <<>>),
     Opts(TRUE, <<1, 4>>, <<1>>, <<2>>)}
MCDatasets == {<<<<2, 3>>>>, <<<<4, 1>>, <<2, 2>>, <<1, 0>>>>}
SvgPage(class, adobe, useDiv) == [class |-> class, adobe |-> adobe, axisLabelUseDiv |-> useDiv]
MCSvgPages ==
    {SvgPage("none", FALSE, TRUE), SvgPage("SVG", FALSE, FALSE), SvgPage("SweetSVG", FALSE, TRUE),
     SvgPage("SweetSVG", TRUE, TRUE)}
MCPadding == [left |-> 2, right |-> 1, top |-> 2, bottom |-> 3]
MCCanvasAt == [x |-> 4, y |-> 7]
=============================================================================
