----------------------------- MODULE PlotKitSVG -----------------------------
(***************************************************************************)
(* plotkit/SVG.js and SweetSVG.js: the other renderers of a layout, which  *)
(* make a node of each shape; a page has one of these or one of a canvas.  *)
(* The nodes are appended to the root, which an Adobe plugin keeps in a    *)
(* document of its own, and removed from the element.                      *)
(***************************************************************************)
EXTENDS PlotKitCanvas

CONSTANT SvgPages   \* [class |-> "none", "SVG" or "SweetSVG", adobe, axisLabelUseDiv]

VARIABLE svg
(* One record: the page's SvgPage,                                         *)
(*   root, divs   the nodes in the root, the labels that are DIVs          *)
(*   xlabels, ylabels   the places in divs of those that clear will remove *)
(*   asked        the last call, "nothing", "render" or "clear"            *)
(*   since        renders since the last clear                             *)
(*   canvas       what a SweetCanvasRenderer had drawn at the last render  *)

SvgInit ==
    \E p \in SvgPages :
        /\ CanvasInit
        /\ p.class = "none" \/ ~isIE
        /\ svg = [page |-> p, root |-> <<>>, divs |-> <<>>, xlabels |-> {}, ylabels |-> {},
                  asked |-> "nothing", since |-> 0, canvas |-> [chart |-> <<>>, axis |-> <<>>]]

sweet == svg.page.class = "SweetSVG"

-----------------------------------------------------------------------------
(* The nodes.  The shadows and the ticks' own lines are left out.          *)

_renderBackground == IF sweet THEN renderBackground ELSE <<[kind |-> "canvas"]>>

(* Set after set, each with the next colour.                               *)
_renderBarOrLine(data) ==
    [i \in DOMAIN layout.names |->
        [items |-> SelectSeq(data, LAMBDA d : d.name = layout.names[i]),
         color |-> (i - 1) % ColorCount]]

(* (Mutant: a bar reaches the edge, past the padding.)                     *)
_drawRectToEdge(b, color) ==
    [kind |-> "bar", x |-> PixelX(b.x), y |-> PixelY(b.y), w |-> Times(Whole(area.w), b.w),
     h |-> Minus(Whole(CanvasHeight), PixelY(b.y)), color |-> color]
_drawRect(b, color) ==
    [kind |-> "bar", x |-> PixelX(b.x), y |-> PixelY(b.y), w |-> Times(Whole(area.w), b.w),
     h |-> Times(Whole(area.h), b.h), color |-> color]

AtLeastAPixel(r) == Leq(Whole(1), r.w) /\ Leq(Whole(1), r.h)

_renderBarChart ==
    LET sets == _renderBarOrLine(layout.bars)
        Bars(set) == [j \in DOMAIN set.items |-> _drawRect(set.items[j], set.color)]
        all == FlattenSeq([i \in DOMAIN sets |-> Bars(sets[i])])
    IN  IF sweet THEN SelectSeq(all, AtLeastAPixel) ELSE all

_renderLineChart ==
    LET low == Whole(area.y + area.h)
        sets == _renderBarOrLine(layout.points)
        Polygon(set) ==
            [kind |-> "line", color |-> set.color,
             path |-> << <<Whole(area.x), low>> >>
                        \o [j \in DOMAIN set.items |-> <<PixelX(set.items[j].x), PixelY(set.items[j].y)>>]
                        \o << <<Whole(area.x + area.w), low>> >>]
    IN  [i \in DOMAIN sets |-> Polygon(sets[i])]

(* A slice is an arc between two points, on the one side or on the other;  *)
(* the only slice of a pie is a circle.                                    *)
_renderPieChart ==
    LET slices == layout.slices
        Path(i) == [kind |-> "path", radius |-> pieRadius, color |-> (i - 1) % ColorCount,
                    from |-> Minus(slices[i].startAngle, Frac(1, 4)),
                    to   |-> Minus(slices[i].endAngle, Frac(1, 4)),
                    largearc |-> Below(Frac(1, 2), Minus(slices[i].endAngle, slices[i].startAngle))]
    IN  IF Len(slices) = 1 THEN <<[kind |-> "circle", radius |-> pieRadius, color |-> 0]>>
        ELSE [i \in DOMAIN slices |-> Path(i)]

_chart == CASE layout.style = "bar"  -> _renderBarChart
            [] layout.style = "line" -> _renderLineChart
            [] layout.style = "pie"  -> _renderPieChart

(* A label is a DIV, of which x and y are left and top, or a text, whose y *)
(* is that of its baseline and whose x is where it begins; of the text of  *)
(* a tick of the x axis it is the middle.                                  *)
axisLabelUseDiv == svg.page.axisLabelUseDiv

(* (Mutant: the labels of the y axis are placed from the top of the area.) *)
_yLabelInArea(tick) ==
    LET y == Minus(PixelY(tick[1]), Whole(area.y))
    IN  [axis |-> "y", text |-> tick[2], x |-> Whole(area.x - Padding.left + 3),
         y |-> IF axisLabelUseDiv THEN Minus(y, Whole(axisLabelFontSize)) ELSE Plus(y, Whole(3))]
_yLabel(tick) ==
    LET y == PixelY(tick[1])
    IN  [axis |-> "y", text |-> tick[2], x |-> Whole(area.x - Padding.left + 3),
         y |-> IF axisLabelUseDiv THEN Minus(y, Whole(axisLabelFontSize)) ELSE Plus(y, Whole(3))]
_xLabel(tick) ==
    LET x == PixelX(tick[1])
        y == area.y + area.h + axisTickSize
    IN  [axis |-> "x", text |-> tick[2],
         x |-> Minus(x, IF axisLabelUseDiv THEN Frac(axisLabelWidth, 2) ELSE Whole(3)),
         y |-> Whole(IF axisLabelUseDiv THEN y ELSE y + axisLabelFontSize)]
_renderAxis ==
    [i \in DOMAIN layout.yticks |-> _yLabel(layout.yticks[i])]
      \o [i \in DOMAIN layout.xticks |-> _xLabel(layout.xticks[i])]

(* Ten pixels farther out than the labels of a canvas.  The texts, but not *)
(* the DIVs, of the left half begin a label's width before their point.    *)
_renderPieAxis ==
    LET slices    == layout.slices
        lookup(v) == Max({0} \union {i \in DOMAIN slices : slices[i].xval = v})
        radius    == Plus(pieRadius, Whole(10))
        Label(tick) ==
            LET slice == slices[lookup(tick[2])]
                angle == Over(Plus(slice.startAngle, slice.endAngle), Whole(2))
                At(x, y) == [axis |-> "pie", text |-> tick[2], angle |-> angle,
                             distance |-> Plus(radius, Whole(10)), x |-> x, y |-> y]
            IN  CASE Leq(angle, Frac(1, 4)) -> At(0, -axisLabelFontSize)
                  [] Below(Frac(1, 4), angle) /\ Leq(angle, Frac(1, 2)) -> At(0, 0)
                  [] Below(Frac(1, 2), angle) /\ Leq(angle, Frac(3, 4)) ->
                        At(IF axisLabelUseDiv THEN 0 ELSE -axisLabelWidth, 0)
                  [] OTHER -> IF axisLabelUseDiv THEN At(0, 0) ELSE At(-axisLabelWidth, -axisLabelFontSize)
        ticks == SelectSeq(layout.xticks, LAMBDA t : lookup(t[2]) # 0)
    IN  [i \in DOMAIN ticks |-> Label(ticks[i])]
_axis == IF layout.style = "pie" THEN _renderPieAxis ELSE _renderAxis

-----------------------------------------------------------------------------
(* render and clear                                                        *)

_render ==
    LET div   == axisLabelUseDiv
        texts == IF div THEN <<>> ELSE [i \in DOMAIN _axis |-> [kind |-> "text", label |-> _axis[i]]]
        new   == IF div THEN _axis ELSE <<>>
        Places(axes) == {Len(svg.divs) + i : i \in {j \in DOMAIN new : new[j].axis \in axes}}
    IN  svg' = [svg EXCEPT !.root = @ \o _renderBackground \o _chart \o texts,
                           !.divs = @ \o new,
                           !.ylabels = @ \union Places({"y"}),
                           !.xlabels = @ \union Places({"x", "pie"}),
                           !.asked = "render", !.since = @ + 1,
                           !.canvas = [chart |-> Chart, axis |-> Axis]]

Kept(divs, gone) ==
    LET places == SelectSeq([i \in DOMAIN divs |-> i], LAMBDA i : i \notin gone)
    IN  [j \in DOMAIN places |-> divs[places[j]]]

(* (Mutant: the labels of the y axis stay.)                                *)
_clearX ==
    LET gone == svg.xlabels
    IN  svg' = [svg EXCEPT !.root = IF svg.page.adobe THEN @ ELSE <<>>,
                           !.divs = Kept(svg.divs, gone),
                           !.xlabels = {}, !.ylabels = {},
                           !.asked = "clear", !.since = 0]

(* The element is emptied, and with it the root, if it is the element.     *)
_clear ==
    LET gone == svg.xlabels \union svg.ylabels
    IN  svg' = [svg EXCEPT !.root = IF svg.page.adobe THEN @ ELSE <<>>,
                           !.divs = Kept(svg.divs, gone),
                           !.xlabels = {}, !.ylabels = {},
                           !.asked = "clear", !.since = 0]

OnSvg(draw) == svg.page.class # "none" /\ Called /\ draw /\ UNCHANGED <<layoutVars, canvasVars, ready, hit>>

SvgNext ==
    \/ svg.page.class = "none" /\ CanvasNext /\ UNCHANGED svg
    \/ svg.page.class # "none" /\ LayoutNext /\ UNCHANGED svg
    \/ OnSvg(_render)
    \/ OnSvg(_clear)

-----------------------------------------------------------------------------
(* What must hold.                                                         *)

SvgPicture ==
    LET from == Max({0} \union {i \in DOMAIN svg.root : svg.root[i].kind \in {"area", "canvas"}})
    IN  SubSeq(svg.root, from + 1, Len(svg.root))

(* An arc that turns one way between two points of a circle about the      *)
(* middle of the pie, as its flag says: the longer or the shorter one.     *)
AsSlice(n) ==
    LET turn == IF n.kind = "circle" THEN Whole(1) ELSE Minus(n.to, n.from)
        rest == Minus(Whole(1), turn)
        long == IF Below(turn, rest) THEN rest ELSE turn
        short == IF Below(turn, rest) THEN turn ELSE rest
    IN  [color |-> n.color, radius |-> n.radius,
         turn |-> CASE n.kind = "path" -> IF n.largearc THEN long ELSE short [] OTHER -> turn]

SameChart(nodes, shapesDrawn) ==
    LET visible == SelectSeq(nodes, LAMBDA n : /\ n.kind = "bar" => AtLeastAPixel(n)
                                               /\ n.kind = "path" => n.from # n.to)
    IN  IF layout.style # "pie" THEN visible = shapesDrawn
        ELSE \/ [i \in DOMAIN visible |-> AsSlice(visible[i])]
                   = [i \in DOMAIN shapesDrawn |-> AsSlice(shapesDrawn[i])]
             \/ \E n \in Range(visible) : n.kind = "path" /\ Minus(n.to, n.from) = Whole(1)

(* The label l of an SVG chart stands for the canvas's label c, and beside *)
(* where that one stands: with a tick of the y axis, 12 pixels being its   *)
(* height; its middle within three pixels of that of an x tick, a line     *)
(* lower at most; about a pie at its slice, no nearer to it, and on the    *)
(* same side of its point, but for a DIV in the left half.                 *)
Beside(l, c) ==
    LET Within(d, most) == d = <<0, 0>> \/ (Leq(Whole(0), d) /\ Leq(d, Whole(most)))
        Lower(most) == Within(Minus(l.y, c.top), most)
        middle == Plus(l.x, IF axisLabelUseDiv THEN Frac(axisLabelWidth, 2) ELSE Whole(0))
        aside  == Minus(Plus(c.left, Frac(axisLabelWidth, 2)), middle)
    IN  /\ l.axis = c.axis /\ l.text = c.text
        /\ l.axis = "y" => Lower(IF axisLabelUseDiv THEN 0 ELSE axisLabelFontSize + 3)
        /\ l.axis = "x" => /\ Within(aside, 3)
                           /\ Lower(IF axisLabelUseDiv THEN 0 ELSE axisLabelFontSize)
        /\ l.axis = "pie" => /\ l.angle = c.angle /\ Leq(c.distance, l.distance)
                             /\ ~axisLabelUseDiv \/ Leq(l.angle, Frac(1, 2)) => l.x = c.left /\ l.y = c.top

(* SVG.js, lines 137 to 604.                                               *)
(* What was rendered last looks as the canvas renderer would have drawn    *)
(* it then: the same bars, lines or slices, each with the colour at the    *)
(* same place of the renderer's colour scheme, above all that was rendered *)
(* before; and after a clear the same labels at the same ticks or slices,  *)
(* beside where the canvas has them.  A clear leaves no label, and no      *)
(* shape where the element is the root.                                    *)
(* Left aside: bars of less than a pixel, which SVG.js draws and the       *)
(* canvas does not, and a pie where one of several slices takes the whole  *)
(* turn: its arc ends where it begins.  The schemes themselves differ when *)
(* a page gives none (SVG.js:66, Canvas.js:84).                            *)
PicturesAgree ==
    LET IsText(n) == n.kind = "text"
        chart == SelectSeq(SvgPicture, LAMBDA n : ~IsText(n))
        texts == SelectSeq(SvgPicture, IsText)
        labelled == svg.divs \o [i \in DOMAIN texts |-> texts[i].label]
    IN  /\ svg.asked = "render" => SameChart(chart, svg.canvas.chart)
        /\ svg.asked = "render" /\ svg.since = 1 =>
              /\ Len(labelled) = Len(svg.canvas.axis)
              /\ \A i \in DOMAIN labelled : Beside(labelled[i], svg.canvas.axis[i])
        /\ svg.asked = "clear"  => svg.divs = <<>> /\ (~svg.page.adobe => svg.root = <<>>)
=============================================================================
