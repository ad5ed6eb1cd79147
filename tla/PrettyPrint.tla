----------------------------- MODULE PrettyPrint -----------------------------
(***************************************************************************)
(* prettify.js over a page: the walk over its marked elements, a slice of  *)
(* time after another, and what becomes of the text of each: its tags are  *)
(* taken out, the rest is lexed, and both are put together again.          *)
(* An element's HTML is a sequence of units: characters, entities, tags.   *)
(***************************************************************************)
EXTENDS PrettyLexer, TLC

CONSTANTS Pages,       \* the pages: node -> [tag, marked, lang, before, child, after]
          PR_TAB_WIDTH

VARIABLES
    page,      \* the page as it was loaded
    isIE6,
    nodes,     \* the page now; a child of "" is none
    attached,  \* the nodes that are in the document
    elements,  \* what the walk goes over
    k,
    phase,     \* "loaded", "working", "waiting", "done", "called", "threw", "cut"
    printed    \* node -> how often its content was replaced
prettyVars == <<page, isIE6, nodes, attached, elements, k, phase, printed>>

Entity == ("&lt;" :> "<") @@ ("&gt;" :> ">") @@ ("&amp;" :> "&") @@ ("&nbsp;" :> " ")
Escape == ("<" :> "&lt;") @@ (">" :> "&gt;") @@ ("&" :> "&amp;")

(* The tags a content may hold; the children of the page have theirs too.  *)
OpenTag  == [n \in {"one", "two"} |-> IF n = "one" THEN "<one>" ELSE "<two>"]
CloseTag == [n \in {"one", "two"} |-> IF n = "one" THEN "</one>" ELSE "</two>"]
TagName  == [t \in {"<b>", "<b nocode>", "</b>"} |-> "b"]
                @@ [t \in {"<one>", "</one>"} |-> "one"] @@ [t \in {"<two>", "</two>"} |-> "two"]
                @@ ("<br>" :> "br") @@ ("<br />" :> "br")
Closing  == {"</b>", "</one>", "</two>"}
SpanStyles   == {"str", "kwd", "com", "typ", "lit", "pun", "pln", "tag", "dec", "atn", "atv"}
Spans    == SpanStyles \union {"</span>"}
IsTag(u) == u \in DOMAIN TagName \union Spans \union {"<!---->"}

textToHtml(s) == [i \in DOMAIN s |-> IF s[i] \in DOMAIN Escape THEN Escape[s[i]] ELSE s[i]]

RECURSIVE InnerHtml(_, _)
InnerHtml(ns, n) ==
    LET c == ns[n].child
    IN  ns[n].before
          \o (IF c = "" THEN <<>> ELSE <<OpenTag[c]>> \o InnerHtml(ns, c) \o <<CloseTag[c]>>)
          \o ns[n].after

(* What an xmp holds is no markup: its tags and entities are characters.   *)
Spelled == ("<b>" :> <<"<", "x", ">">>) @@ ("</b>" :> <<"<", "/", "x", ">">>)
             @@ ("<b nocode>" :> <<"<", "x", " ", "x", "=", "dq", "x", "dq", ">">>)
             @@ ("<br>" :> <<"<", "x", ">">>) @@ ("<!---->" :> <<"<", "!", "--", "--", ">">>)
             @@ [e \in {"&lt;", "&gt;", "&amp;"} |-> <<"&", "x", ";">>] @@ ("&nbsp;" :> <<"&", "nbsp", ";">>)
isRawContent(ns, n) == ns[n].tag = "XMP"
getInnerHtml(ns, n) ==
    LET html == InnerHtml(ns, n)
    IN  IF ~isRawContent(ns, n) THEN html
        ELSE textToHtml(FlattenSeq([i \in DOMAIN html |->
                IF html[i] \in DOMAIN Spelled THEN Spelled[html[i]] ELSE <<html[i]>>]))

-----------------------------------------------------------------------------
(* extractTags: the text, and what was taken out of it with its places.    *)

(* The entities one after another: what &amp; leaves may read as &nbsp;.   *)
RECURSIVE Blanked(_)
Blanked(s) ==
    CASE Len(s) < 3 -> s
      [] Len(s) >= 3 /\ SubSeq(s, 1, 3) = <<"&", "nbsp", ";">> -> <<" ">> \o Blanked(SubSeq(s, 4, Len(s)))
      [] OTHER -> <<s[1]>> \o Blanked(Tail(s))
htmlToText(html) ==
    Blanked([i \in DOMAIN html |-> IF html[i] \in DOMAIN Entity THEN Entity[html[i]] ELSE html[i]])

(* Where the section that the tag at i opens is closed; 0 if it is not.    *)
EndOfSection(html, i) ==
    LET same == {j \in (i + 1)..Len(html) :
                    html[j] \in DOMAIN TagName /\ TagName[html[j]] = TagName[html[i]]}
        Depth(j) == 1 + Cardinality({m \in same : m <= j /\ html[m] \notin Closing})
                      - Cardinality({m \in same : m <= j /\ html[m] \in Closing})
    IN  First({j \in same : Depth(j) = 0}, 0)

RECURSIVE ExtractFrom(_, _, _)
ExtractFrom(html, i, got) ==
    LET u    == html[i]
        run  == First({j \in i..Len(html) : IsTag(html[j])}, Len(html) + 1) - 1
        end  == EndOfSection(html, i)
        Out(j) == [got EXCEPT !.tags = Append(@, <<Len(got.source), SubSeq(html, i, j)>>)]
    IN  CASE i > Len(html) -> got
          [] i <= Len(html) /\ ~IsTag(u) ->
                ExtractFrom(html, run + 1, [got EXCEPT !.source = @ \o htmlToText(SubSeq(html, i, run))])
          [] i <= Len(html) /\ u = "<!---->" -> ExtractFrom(html, i + 1, got)
          [] i <= Len(html) /\ u \in {"<br>", "<br />"} ->
                ExtractFrom(html, i + 1, [got EXCEPT !.source = Append(@, "nl")])
          [] i <= Len(html) /\ u = "<b nocode>" /\ end # 0 -> ExtractFrom(html, end + 1, Out(end))
          [] OTHER -> ExtractFrom(html, i + 1, Out(i))
extractTags(html) == ExtractFrom(html, 1, [source |-> <<>>, tags |-> <<>>])

-----------------------------------------------------------------------------
(* recombineTagsAndDecorations                                             *)

(* Tabs made spaces, the first character standing in column col.           *)
RECURSIVE TabExpander(_, _)
TabExpander(s, col) ==
    IF s = <<>> THEN [text |-> <<>>, col |-> col]
    ELSE LET n    == PR_TAB_WIDTH - (col % PR_TAB_WIDTH)
             here == IF Head(s) = "tab" THEN [i \in 1..n |-> " "] ELSE <<Head(s)>>
             rest == TabExpander(Tail(s), CASE Head(s) = "tab" -> col + n
                                            [] Head(s) = "nl"  -> 0
                                            [] OTHER           -> col + 1)
         IN  [rest EXCEPT !.text = here \o @]

(* (Mutant: the end of what was emitted before is forgotten.)              *)
HardenedAlone(s, lastWasSpace) ==
    LET Step(r, c) ==
            LET hard == c = " " /\ r.soft
            IN  [out  |-> Append(r.out, IF hard THEN "&nbsp;" ELSE c),
                 soft |-> c = "nl" \/ (c = " " /\ ~hard)]
    IN  FoldLeft(Step, [out |-> <<>>, soft |-> FALSE], s).out

(* A space after a space or at the beginning of a line is made &nbsp;.     *)
Hardened(s, lastWasSpace) ==
    LET Step(r, c) ==
            LET hard == c = " " /\ r.soft
            IN  [out  |-> Append(r.out, IF hard THEN "&nbsp;" ELSE c),
                 soft |-> c = "nl" \/ (c = " " /\ ~hard)]
    IN  FoldLeft(Step, [out |-> <<>>, soft |-> lastWasSpace], s).out

emitTextUpTo(source, r, to) ==
    IF to <= r.idx THEN r
    ELSE LET changes == r.open # "" /\ r.open # r.current
             opens   == (changes \/ r.open = "") /\ r.current # ""
             tabbed  == TabExpander(SubSeq(source, r.idx + 1, to), r.col)
             chunk   == Hardened(textToHtml(tabbed.text), r.lastWasSpace)
             br      == IF isIE6 THEN <<"&nbsp;", "<br />">> ELSE <<"<br />">>
             lines   == FlattenSeq([i \in DOMAIN chunk |->
                                        IF chunk[i] = "nl" THEN br ELSE <<chunk[i]>>])
         IN  [html         |-> r.html \o (IF changes THEN <<"</span>">> ELSE <<>>)
                                 \o (IF opens THEN <<r.current>> ELSE <<>>) \o lines,
              idx          |-> to,
              open         |-> IF opens THEN r.current ELSE IF changes THEN "" ELSE r.open,
              current      |-> r.current,
              lastWasSpace |-> chunk[Len(chunk)] \in {" ", "nl"},
              col          |-> tabbed.col]

RECURSIVE Recombine(_, _, _, _)
Recombine(source, tags, decorations, r) ==
    LET outputTag == tags # <<>> /\ (decorations # <<>> => tags[1][1] <= decorations[1][1])
    IN  CASE outputTag ->
                LET e == emitTextUpTo(source, r, tags[1][1])
                IN  Recombine(source, Tail(tags), decorations,
                        [e EXCEPT !.html = @ \o (IF e.open # "" THEN <<"</span>">> ELSE <<>>) \o tags[1][2],
                                  !.open = ""])
          [] ~outputTag /\ decorations # <<>> ->
                LET e == emitTextUpTo(source, r, decorations[1][1])
                IN  Recombine(source, tags, Tail(decorations), [e EXCEPT !.current = decorations[1][2]])
          [] OTHER ->
                LET e == emitTextUpTo(source, r, Len(source))
                IN  e.html \o (IF e.open # "" THEN <<"</span>">> ELSE <<>>)

applyDecorator(html, lang) ==
    LET job == extractTags(html)
    IN  Recombine(job.source, job.tags, Decorations(lang, job.source),
            [html |-> <<>>, idx |-> 0, open |-> "", current |-> "", lastWasSpace |-> TRUE, col |-> 0])

(* Firefox adds newlines at the end.                                       *)
Chomped(html) ==
    IF html # <<>> /\ html[Len(html)] = "nl" THEN SubSeq(html, 1, Len(html) - 1) ELSE html

-----------------------------------------------------------------------------
(* prettyPrint                                                             *)

Init ==
    /\ page \in Pages
    /\ isIE6 \in BOOLEAN
    /\ nodes = page
    /\ attached = DOMAIN page
    /\ elements = <<>>
    /\ k = 1
    /\ phase = "loaded"
    /\ printed = [n \in DOMAIN page |-> 0]

(* The pre elements first, then code, then xmp, each kind as in the page.  *)
Collected ==
    LET inPage == SelectSeq(<<"one", "two">>, LAMBDA n : n \in DOMAIN nodes)
        Kind(t) == SelectSeq(inPage, LAMBDA n : nodes[n].tag = t)
    IN  Kind("PRE") \o Kind("CODE") \o Kind("XMP")

prettyPrint ==
    /\ phase = "loaded"
    /\ elements' = Collected
    /\ phase' = "working"
    /\ UNCHANGED <<page, isIE6, nodes, attached, k, printed>>

Ancestors(n) == {m \in DOMAIN nodes : nodes[m].child = n}

(* In an HTML document the name of a tag is in capitals.                   *)
Nested(n) == \E p \in Ancestors(n) : nodes[p].tag \in {"pre", "code", "xmp"} /\ nodes[p].marked

(* The place i of the HTML of n is in an xmp of the page within n.  What   *)
(* is put there is text to the browser, the spans and breaks as well.      *)
InXmp(n, html, i) ==
    LET c == page[n].child
    IN  /\ c # "" /\ isRawContent(page, c)
        /\ \E a \in 1..(i - 1) : html[a] = OpenTag[c]
        /\ \E b \in (i + 1)..Len(html) : html[b] = CloseTag[c]

(* IE 6 is given line feeds for the breaks of a pre.                       *)
LineFeeds(n, tag, html) ==
    [i \in DOMAIN html |->
        IF isIE6 /\ tag = "PRE" /\ html[i] \in {"<br>", "<br />"} /\ ~InXmp(n, html, i)
        THEN "nl" ELSE html[i]]

(* The content is put in its place; what was in the element goes out of    *)
(* the page.  An xmp is replaced by a pre, which takes a parent.           *)
replaceWithPrettyPrintedHtml(n, newContent) ==
    LET orphan == isRawContent(nodes, n) /\ n \notin attached
        tag    == IF isRawContent(nodes, n) THEN "PRE" ELSE nodes[n].tag
    IN  IF newContent = <<>> THEN UNCHANGED <<nodes, attached, printed>> /\ k' = k + 1 /\ phase' = phase
        ELSE IF orphan THEN UNCHANGED <<nodes, attached, printed, k>> /\ phase' = "cut"
        ELSE /\ nodes' = [nodes EXCEPT ![n] =
                    [@ EXCEPT !.before = LineFeeds(n, tag, newContent), !.child = "", !.after = <<>>,
                              !.tag = tag]]
             /\ attached' = attached \ {nodes[n].child}
             /\ printed' = [printed EXCEPT ![n] = @ + 1]
             /\ k' = k + 1
             /\ phase' = phase

doWork ==
    /\ phase = "working" /\ k <= Len(elements)
    /\ LET cs == elements[k]
       IN  IF nodes[cs].marked /\ ~Nested(cs)
           THEN replaceWithPrettyPrintedHtml(cs,
                    applyDecorator(Chomped(getInnerHtml(nodes, cs)), nodes[cs].lang))
           ELSE k' = k + 1 /\ UNCHANGED <<nodes, attached, printed, phase>>
    /\ UNCHANGED <<page, isIE6, elements>>

(* The slice of time is used up: the rest is left to a timer.              *)
Pause ==
    /\ phase = "working" /\ k <= Len(elements)
    /\ phase' = "waiting"
    /\ UNCHANGED <<page, isIE6, nodes, attached, elements, k, printed>>
(* (Mutant: the element it stopped at is passed over.)                     *)
ContinueAfter ==
    /\ phase = "waiting"
    /\ phase' = "working"
    /\ k' = k + 1
    /\ UNCHANGED <<page, isIE6, nodes, attached, elements, printed>>
Continue ==
    /\ phase = "waiting"
    /\ phase' = "working"
    /\ UNCHANGED <<page, isIE6, nodes, attached, elements, k, printed>>

(* opt_whenDone is nothing, a function, or the load event: head.jsp has    *)
(* handleEvent call prettyPrint with it, and an event cannot be called.    *)
WhenDone ==
    /\ phase = "working" /\ k > Len(elements)
    /\ phase' \in {"done", "called", "threw"}
    /\ UNCHANGED <<page, isIE6, nodes, attached, elements, k, printed>>

Next == prettyPrint \/ doWork \/ Pause \/ Continue \/ WhenDone

-----------------------------------------------------------------------------
(* What must hold.                                                         *)

(* What a reader sees of HTML: the characters, with the tags among them.   *)
Seen(html) ==
    LET units == SelectSeq(html, LAMBDA u : u \notin Spans \union {"<!---->"})
        Char(u) == CASE u \in DOMAIN Entity        -> Entity[u]
                     [] u \in {"<br>", "<br />"} -> "nl"
                     [] OTHER                      -> u
    IN  [i \in DOMAIN units |-> Char(units[i])]

(* The same with its tabs as wide as the columns say, counted for each tab *)
(* from the beginning of its line.                                         *)
IsChar(u) == u \notin DOMAIN TagName
RECURSIVE ColumnAt(_, _)
ColumnAt(s, i) ==
    IF i = 1 THEN 0
    ELSE CASE s[i - 1] = "nl"   -> 0
           [] s[i - 1] = "tab"  -> PR_TAB_WIDTH * (ColumnAt(s, i - 1) \div PR_TAB_WIDTH + 1)
           [] OTHER             -> ColumnAt(s, i - 1) + (IF IsChar(s[i - 1]) THEN 1 ELSE 0)
Tabbed(s) ==
    FlattenSeq([i \in DOMAIN s |->
        IF s[i] = "tab" THEN [j \in 1..(PR_TAB_WIDTH - (ColumnAt(s, i) % PR_TAB_WIDTH)) |-> " "]
        ELSE <<s[i]>>])

(* Without the space an old browser is given before every line break.      *)
Unpadded(html) ==
    LET Kept(i) == ~(isIE6 /\ i < Len(html) /\ html[i] = "&nbsp;" /\ html[i + 1] \in {"<br />", "nl"})
        keep    == SelectSeq([i \in DOMAIN html |-> i], Kept)
    IN  [j \in DOMAIN keep |-> html[keep[j]]]

(* The places of the characters and line breaks outside nocode sections.   *)
TextPlaces(html) ==
    LET raw == UNION {i..EndOfSection(html, i) : i \in {j \in DOMAIN html : html[j] = "<b nocode>"}}
        IsText(i) == i \notin raw /\ (~IsTag(html[i]) \/ html[i] = "<br />")
    IN  SelectSeq([i \in DOMAIN html |-> i], IsText)

(* The last span tag before i.                                             *)
SpanBefore(html, i) ==
    LET before == {j \in 1..(i - 1) : html[j] \in Spans}
    IN  IF before = {} THEN "</span>" ELSE html[Max(before)]

NamesBlank(html) ==
    \E i \in 1..(Len(html) - 2) : SubSeq(html, i, i + 2) = <<"&amp;", "nbsp", ";">>

(* A printed element reads as it did: the same characters in the same      *)
(* order, tabs as wide as their column says, the same tags between them,   *)
(* comments gone; and no space that a browser would drop is left, one      *)
(* after another or at the beginning of a line.                            *)
(* An element that spells "&nbsp;" out is left aside: the code reads the   *)
(* text of it as a space.  So is a code in which a pre was printed before: *)
(* its text is then printed twice, and with tabs as for its own beginning. *)
(* And so is what is in an xmp within the element, though not what is      *)
(* around it: there the markup of the spans becomes part of the text, and  *)
(* what the xmp spelled out is read as markup.                             *)
PrintedInside(n) ==
    page[n].child # "" /\ page[page[n].child].tag = "PRE" /\ page[page[n].child].marked
OutsideXmp(n, s) ==
    LET out == SelectSeq([i \in DOMAIN s |-> i], LAMBDA i : ~InXmp(n, s, i))
    IN  [j \in DOMAIN out |-> s[out[j]]]
TextKept ==
    \A n \in attached :
        LET before == Chomped(getInnerHtml(page, n))
            after  == InnerHtml(nodes, n)
            at     == TextPlaces(Unpadded(after))
            text   == [j \in DOMAIN at |-> Unpadded(after)[at[j]]]
        IN  printed[n] > 0 /\ ~NamesBlank(before) /\ ~PrintedInside(n) =>
              /\ OutsideXmp(n, Seen(Unpadded(after))) = OutsideXmp(n, Tabbed(Seen(before)))
              /\ page[n].child = "" =>
                   \A i \in DOMAIN text : text[i] = " " => i > 1 /\ text[i - 1] \notin {" ", "<br />", "nl"}

StyleAt(decorations, i) ==
    decorations[Max({d \in DOMAIN decorations : decorations[d][1] < i})][2]

Punctuation == {";", "*", "=", "<", ">", "bs", "&", "!", "?", "+"}

(* Java read character by character: which ones are in a comment and which *)
(* in a string, a string being closed on its line.                         *)
JavaStyles(s) ==
    LET Closed(i) == \E j \in (i + 1)..Len(s) :
                        s[j] = s[i] /\ ~Escaped(s, i, j) /\ \A m \in i..j : s[m] # "nl"
        ToEnd(i)  == ~Escaped(s, i, Len(s) + 1) /\ \A m \in i..Len(s) : s[m] # "nl"
        Opens(i)  == CASE At(s, i, <<"/", "/">>)                          -> "line"
                       [] At(s, i, <<"/", "*">>)                          -> "block"
                       [] s[i] \in {"sq", "dq"} /\ (Closed(i) \/ ToEnd(i)) -> s[i]
                       [] OTHER                                           -> "code"
        Ends(r, i) == \/ r.mode = "block" /\ i > r.from + 2 /\ s[i] = "/" /\ s[i - 1] = "*"
                      \/ r.mode \in {"sq", "dq"} /\ i > r.from /\ s[i] = r.mode /\ ~Escaped(s, r.from, i)
        Step(r, i) ==
            LET in   == r.mode # "code" /\ ~(r.mode = "line" /\ s[i] = "nl")
                now  == IF in THEN r ELSE [r EXCEPT !.mode = Opens(i), !.from = i]
            IN  [now EXCEPT !.styles = Append(@, CASE now.mode \in {"line", "block"} -> "com"
                                                   [] now.mode \in {"sq", "dq"}     -> "str"
                                                   [] OTHER                          -> ""),
                            !.mode = IF Ends(now, i) THEN "code" ELSE @]
    IN  FoldLeft(Step, [mode |-> "code", from |-> 0, styles |-> <<>>], [i \in DOMAIN s |-> i]).styles

(* Each character of the source has the style of its decoration, and a tab *)
(* all its width.                                                          *)
StyledText(source, decs) ==
    LET Width(i) == IF source[i] = "tab" THEN PR_TAB_WIDTH - (ColumnAt(source, i) % PR_TAB_WIDTH) ELSE 1
    IN  FlattenSeq([i \in DOMAIN source |-> [j \in 1..Width(i) |-> StyleAt(decs, i)]])

(* A quote that nothing closes is styled as a string, with the punctuation *)
(* after it.                                                               *)
ReadAsJava(source, decs, read) ==
    \A i \in DOMAIN read :
        LET style == StyleAt(decs, i) IN
        \/ style = read[i]
        \/ read[i] = "" /\ style \notin {"com", "str"}
        \/ /\ read[i] = ""
           /\ \E j \in 1..i : /\ source[j] \in {"sq", "dq"} /\ read[j] = ""
                              /\ RunEnd(source, j + 1, Punctuation) >= i

StylesShown(html, at, source, decs, lang) ==
    /\ \A d \in 1..(Len(decs) - 1) : decs[d][1] <= decs[d + 1][1]
    /\ [j \in DOMAIN at |-> SpanBefore(html, at[j])] = StyledText(source, decs)
    /\ \A i \in 1..(Len(html) + 1) :
          i > Len(html) \/ html[i] \in SpanStyles \/ (html[i] \in DOMAIN TagName /\ html[i] # "<br />")
            => SpanBefore(html, i) = "</span>"
    /\ lang = "java" => ReadAsJava(source, decs, JavaStyles(source))

(* Every character of a printed element stands in a span of the style that *)
(* the lexers gave its place, whatever languages are in one another, and   *)
(* no span is open where another one or a tag of the text begins, nor at   *)
(* the end.  In Java the comments are just what a reader takes for them,   *)
(* and so are the strings.                                                 *)
StylesExact ==
    \A n \in attached :
        LET html   == Unpadded(InnerHtml(nodes, n))
            source == extractTags(Chomped(getInnerHtml(page, n))).source
        IN  printed[n] > 0 /\ page[n].child = "" =>
              StylesShown(html, TextPlaces(html), source, Decorations(page[n].lang, source), page[n].lang)

(* A walk that comes to its end has printed every marked element that is   *)
(* in the page, once, whatever the pauses; it stops before only where an   *)
(* xmp lay in a marked element, whose printing took it out of the page.    *)
EachPrintedOnce ==
    /\ \A n \in DOMAIN page : printed[n] <= IF page[n].marked THEN 1 ELSE 0
    /\ phase \in {"done", "called", "threw"} =>
          \A n \in attached : page[n].marked /\ Seen(Chomped(getInnerHtml(page, n))) # <<>> => printed[n] = 1
    /\ phase = "cut" => \E m \in DOMAIN page :
                            page[m].marked /\ page[m].child # "" /\ page[page[m].child].tag = "XMP"
=============================================================================
