---------------------------- MODULE PlotKitCanvas ----------------------------
(***************************************************************************)
(* plotkit/Canvas.js and SweetCanvas.js: a renderer of a layout.  What is  *)
(* drawn stays on the canvas, the labels are elements beside it; on IE a   *)
(* canvas may not be there yet, and render and clear try again later.      *)
(***************************************************************************)
EXTENDS PlotKitLayout

CONSTANTS SetNames, Datasets,   \* what may be added under which names
          Styles, Options,      \* the layouts a page may make
          CanvasWidth, CanvasHeight, Padding, ColorCount,
          CanvasAt,             \* where the page has the canvas
          MaxTries,             \* how often render tries again; 5 in the code
          MaxPlotCalls          \* bounds the calls of a page

ASSUME TriesAssumption == MaxTries \in Nat

VARIABLES
    layout,
    fresh,      \* evaluated after the last change of the datasets, without failing
    isIE, ready,  \* an IE whose canvas can be drawn on
    maxTries,
    timers,     \* what will try again, in the order of the timers
    shapes,     \* the charts that were drawn, each with its background, the last on top
    labels,     \* the labels in the page
    asked,      \* the last of render and clear that was called
    overtaken,  \* the last call was carried out while an older one of the other kind waited
    gaveUp,     \* render found no try left, and has not drawn since
    hit,        \* what the last click hit
    plotCalls
plotVars == <<layout, fresh, isIE, ready, maxTries, timers, shapes, labels, asked, overtaken,
              gaveUp, hit, plotCalls>>

layoutVars == <<layout, fresh>>
canvasVars == <<isIE, maxTries, timers, shapes, labels, asked, overtaken, gaveUp>>

area == [x |-> Padding.left, y |-> Padding.top,
         w |-> CanvasWidth - Padding.left - Padding.right,
         h |-> CanvasHeight - Padding.top - Padding.bottom]
pieRadius == Times(Frac(2, 5), Whole(Min({area.w, area.h})))

CanvasInit ==
    /\ \E style \in Styles, options \in Options : layout = NewLayout(style, options)
    /\ fresh = FALSE
    /\ isIE \in BOOLEAN
    /\ ready = ~isIE
    /\ maxTries = MaxTries
    /\ timers = <<>>
    /\ shapes = <<>> /\ labels = <<>>
    /\ asked = "nothing"
    /\ overtaken = FALSE /\ gaveUp = FALSE
    /\ hit = <<>>
    /\ plotCalls = 0

Called == plotCalls < MaxPlotCalls /\ plotCalls' = plotCalls + 1

-----------------------------------------------------------------------------
(* The page and its layout                                                 *)

AddDataset(name, set) ==
    /\ Called
    /\ layout' = addDataset(layout, name, set)
    /\ fresh' = FALSE
    /\ UNCHANGED <<ready, hit, canvasVars>>

RemoveDataset(name) ==
    /\ Called
    /\ layout' = removeDataset(layout, name)
    /\ fresh' = FALSE
    /\ UNCHANGED <<ready, hit, canvasVars>>

Evaluate ==
    /\ Called
    /\ layout' = evaluate(layout)
    /\ fresh' = Evaluable(layout)
    /\ UNCHANGED <<ready, hit, canvasVars>>

-----------------------------------------------------------------------------
(* Drawing                                                                 *)

PixelX(x) == Plus(Times(Whole(area.w), x), Whole(area.x))
PixelY(y) == Plus(Times(Whole(area.h), y), Whole(area.y))

(* The datasets take the colours in turn.                                  *)
chooseColor(name) ==
    LET i == CHOOSE i \in DOMAIN layout.names : layout.names[i] = name IN (i - 1) % ColorCount

renderBackground ==
    IF layout.style \in {"bar", "line"}
    THEN <<[kind |-> "area", lines |-> [i \in DOMAIN layout.yticks |-> PixelY(layout.yticks[i][1])]]>>
    ELSE <<[kind |-> "canvas"]>>

(* Set after set; a bar less than a pixel wide or high is left out.        *)
BarShape(b) ==
    [kind |-> "bar", x |-> PixelX(b.x), y |-> PixelY(b.y), w |-> Times(Whole(area.w), b.w),
     h |-> Times(Whole(area.h), b.h), color |-> chooseColor(b.name)]
renderBarChart ==
    LET OfSet(i) == SelectSeq(layout.bars, LAMBDA b : b.name = layout.names[i])
        Drawn(b) == Leq(Whole(1), Times(Whole(area.w), b.w)) /\ Leq(Whole(1), Times(Whole(area.h), b.h))
        drawn    == SelectSeq(FlattenSeq([i \in DOMAIN layout.names |-> OfSet(i)]), Drawn)
    IN  [j \in DOMAIN drawn |-> BarShape(drawn[j])]

(* One area under the points of a set, from the left corner to the right.  *)
renderLineChart ==
    LET Path(n) ==
            LET points == SelectSeq(layout.points, LAMBDA p : p.name = n)
                low    == Whole(area.y + area.h)
            IN  << <<Whole(area.x), low>> >>
                  \o [j \in DOMAIN points |-> <<PixelX(points[j].x), PixelY(points[j].y)>>]
                  \o << <<Whole(area.x + area.w), low>> >>
    IN  [i \in DOMAIN layout.names |->
            [kind |-> "line", path |-> Path(layout.names[i]), color |-> (i - 1) % ColorCount]]

(* The canvas counts its angles from the right, the layout from the top.   *)
renderPieChart ==
    LET Shape(i) == [kind |-> "slice", radius |-> pieRadius, color |-> (i - 1) % ColorCount,
                     from |-> Minus(layout.slices[i].startAngle, Frac(1, 4)),
                     to   |-> Minus(layout.slices[i].endAngle, Frac(1, 4))]
    IN  SelectSeq([i \in DOMAIN layout.slices |-> Shape(i)], LAMBDA s : s.from # s.to)

axisTickSize      == 3
axisLabelFontSize == 9
axisLabelWidth    == 50

(* The labels of the axes, left of the area and below it, as the left and  *)
(* the top of their elements.                                              *)
renderAxis ==
    [i \in DOMAIN layout.yticks |->
        [axis |-> "y", text |-> layout.yticks[i][2],
         left |-> Whole(area.x - Padding.left - axisTickSize),
         top  |-> Minus(PixelY(layout.yticks[i][1]), Whole(axisLabelFontSize))]]
      \o [i \in DOMAIN layout.xticks |->
        [axis |-> "x", text |-> layout.xticks[i][2],
         left |-> Minus(PixelX(layout.xticks[i][1]), Frac(axisLabelWidth, 2)),
         top  |-> Whole(area.y + area.h + axisTickSize)]]

(* The label of a slice stands outside of it, at the angle of its middle;  *)
(* left and top are counted from there, to stay clear of the pie in each   *)
(* quarter.  Of two slices of one value it is the last.                    *)
renderPieAxis ==
    LET Of(v)   == {i \in DOMAIN layout.slices : layout.slices[i].xval = v}
        ticks   == SelectSeq(layout.xticks, LAMBDA t : Of(t[2]) # {})
        Label(t) ==
            LET slice == layout.slices[Max(Of(t[2]))]
                angle == Over(Plus(slice.startAngle, slice.endAngle), Whole(2))
                onLeft == ~Leq(angle, Frac(1, 2))
                below  == Below(Frac(1, 4), angle) /\ Leq(angle, Frac(3, 4))
            IN  [axis |-> "pie", text |-> t[2], angle |-> angle,
                 distance |-> Plus(pieRadius, Whole(10)),
                 left |-> IF onLeft THEN -axisLabelWidth ELSE 0,
                 top  |-> IF below THEN 0 ELSE -axisLabelFontSize]
    IN  [i \in DOMAIN ticks |-> Label(ticks[i])]

(* _renderLineChart and _renderPieChart are those of SweetCanvas.js, which *)
(* puts them in the place of the ones of Canvas.js.                        *)
Chart == CASE layout.style = "bar"  -> renderBarChart
           [] layout.style = "line" -> renderLineChart
           [] layout.style = "pie"  -> renderPieChart
Axis  == IF layout.style = "pie" THEN renderPieAxis ELSE renderAxis

-----------------------------------------------------------------------------
(* render and clear                                                        *)

Asked == {"render", "clear"}

Draw ==
    /\ shapes' = Append(shapes, renderBackground \o Chart)
    /\ labels' = labels \o Axis
    /\ timers' = RemoveFirst(timers, "render")
    /\ gaveUp' = FALSE
    /\ UNCHANGED maxTries

(* The canvas cannot be had: a timer takes the place of the one before,    *)
(* as often as tries are left.                                             *)
TryRenderAgain ==
    /\ maxTries' = maxTries - 1
    /\ timers' = RemoveFirst(timers, "render") \o (IF maxTries > 0 THEN <<"render">> ELSE <<>>)
    /\ gaveUp' = (maxTries <= 0)
    /\ UNCHANGED <<shapes, labels>>

Wipe ==
    /\ shapes' = <<>>
    /\ labels' = <<>>
    /\ timers' = RemoveFirst(timers, "clear")
    /\ UNCHANGED <<maxTries, gaveUp>>

(* (Mutant: a clear that could not be done is not tried again.)            *)
TryClearOnce ==
    /\ timers' = RemoveFirst(timers, "clear")
    /\ UNCHANGED <<maxTries, gaveUp, shapes, labels>>

TryClearAgain ==
    /\ timers' = Append(RemoveFirst(timers, "clear"), "clear")
    /\ UNCHANGED <<maxTries, gaveUp, shapes, labels>>

renderChart ==
    /\ Called
    /\ IF ready THEN Draw ELSE TryRenderAgain
    /\ asked' = "render"
    /\ overtaken' = (ready /\ "clear" \in Range(timers))
    /\ UNCHANGED <<isIE, ready, hit, layoutVars>>

clearChart ==
    /\ Called
    /\ IF ready THEN Wipe ELSE TryClearAgain
    /\ asked' = "clear"
    /\ overtaken' = (ready /\ "render" \in Range(timers))
    /\ UNCHANGED <<isIE, ready, hit, layoutVars>>

(* The timers are all as long, so they run out in the order they were set; *)
(* the one that is set again goes to the end, behind the other kind's.     *)
TimerFires ==
    /\ timers # <<>>
    /\ IF Head(timers) = "render" THEN IF ready THEN Draw ELSE TryRenderAgain
       ELSE IF ready THEN Wipe ELSE TryClearAgain
    /\ overtaken' = (overtaken \/ (ready /\ Head(timers) = asked /\ Asked \subseteq Range(timers)))
    /\ UNCHANGED <<isIE, ready, hit, asked, plotCalls, layoutVars>>

(* VML has come up.                                                        *)
CanvasReady ==
    /\ isIE /\ ~ready
    /\ ready' = TRUE
    /\ UNCHANGED <<layoutVars, canvasVars, hit, plotCalls>>

(* (Mutant: the place of a click is not taken from the corner of the area.) *)
resolveOnCanvas(px, py) ==
    <<Over(Minus(px, Whole(CanvasAt.x)), Whole(area.w)),
      Over(Minus(py, Whole(CanvasAt.y)), Whole(area.h))>>

(* A click in the page, at a place of the unit square that the area is.    *)
resolve(px, py) ==
    <<Over(Minus(px, Whole(CanvasAt.x + area.x)), Whole(area.w)),
      Over(Minus(py, Whole(CanvasAt.y + area.y)), Whole(area.h))>>

onclick(px, py) ==
    LET at     == resolve(px, py)
        cached == regenerateHitTestCache(layout)
    IN  /\ Called
        /\ CASE layout.style = "bar" ->
                  /\ hit' = (LET on == HitBar(layout, at[1], at[2])
                             IN  IF on = <<>> THEN <<>> ELSE <<Head(on)>>)
                  /\ UNCHANGED layout
             [] layout.style = "line" ->
                  /\ layout' = cached
                  /\ hit' = IF ~layout.hitTestCache.made /\ ~NoneRemoved(layout) THEN hit
                            ELSE IF HitLine(cached, at[1], at[2]) THEN <<at>> ELSE <<>>
             [] layout.style = "pie" ->
                  /\ hit' = (LET on == HitPie(layout, at[1], at[2])
                             IN  IF on = <<>> THEN <<>> ELSE <<Head(on)>>)
                  /\ UNCHANGED layout
        /\ UNCHANGED <<fresh, ready, canvasVars>>

InPage(x, y) == <<Plus(x, Whole(CanvasAt.x)), Plus(y, Whole(CanvasAt.y))>>

ClickPoints == {InPage(PixelX(Frac(i, 4)), PixelY(Frac(j, 4))) : i \in {1, 3}, j \in {1, 3}}

LayoutNext ==
    \/ \E n \in SetNames, d \in Datasets : AddDataset(n, d)
    \/ \E n \in Range(layout.names) : RemoveDataset(n)
    \/ Evaluate
CanvasNext ==
    \/ LayoutNext
    \/ renderChart \/ clearChart
    \/ TimerFires \/ CanvasReady
    \/ \E p \in ClickPoints : onclick(p[1], p[2])

CanvasSpec == CanvasInit /\ [][CanvasNext]_plotVars

-----------------------------------------------------------------------------
(* What must hold.                                                         *)

Apart(b, c) == Leq(Plus(b.x, b.w), c.x) \/ Leq(Plus(c.x, c.w), b.x)
OwnXs(set) == \A i, j \in DOMAIN set : set[i][1] = set[j][1] => i = j

(* Layout.js, lines 153 to 552.                                            *)
(* What was evaluated is a faithful picture of the data.  No bar is in the *)
(* way of another one or out of the unit square, and a tick is under the   *)
(* middle of the bars of its value; the points of a line run from left to  *)
(* right; the slices of a pie share the turn out, each what its value is   *)
(* of the total.  A tick of the y axis is where its value is; not the ones *)
(* a page gives when an axis does not begin at zero.  Bars are left aside  *)
(* after a chart of one value, where the page gives the x axis: that chart *)
(* has put its value in the place of the axis's beginning, for good.       *)
LayoutExact ==
    LET o == layout.options
        proper == \A n \in DOMAIN layout.datasets : OwnXs(layout.datasets[n])
        begins == o.xAxis = <<>> \/ layout.minxval = o.xAxis[1] \/ Cardinality(XValues(layout)) = 1
        Group(v) == {i \in DOMAIN layout.bars : layout.bars[i].xval = v}
        Middle(v) == LET left  == CHOOSE i \in Group(v) : \A j \in Group(v) : Leq(layout.bars[i].x, layout.bars[j].x)
                         right == CHOOSE i \in Group(v) : \A j \in Group(v) : Leq(layout.bars[j].x, layout.bars[i].x)
                     IN  Over(Plus(layout.bars[left].x, Plus(layout.bars[right].x, layout.bars[right].w)), Whole(2))
        total == FoldLeft(LAMBDA t, s : t + s.yval, 0, layout.slices)
    IN  fresh /\ XValues(layout) # {} =>
          /\ layout.style = "bar" /\ proper /\ begins =>
               /\ \A i \in DOMAIN layout.bars :
                    LET b == layout.bars[i]
                    IN  /\ o.xAxis = <<>> => InUnit(b.x) /\ InUnit(Plus(b.x, b.w))
                        /\ o.yAxis = <<>> => InUnit(b.y) /\ Plus(b.y, b.h) = Whole(1)
                        /\ \A j \in DOMAIN layout.bars \ {i} : Apart(b, layout.bars[j])
               /\ \A t \in Range(layout.xticks) :
                    Cardinality(Group(t[2])) = Len(layout.names) => t[1] = Middle(t[2])
          /\ layout.style = "line" =>
               \A i \in 1..(Len(layout.points) - 1) :
                    layout.points[i].name = layout.points[i + 1].name =>
                        Leq(layout.points[i].x, layout.points[i + 1].x)
          /\ layout.style = "pie" /\ total # 0 =>
               /\ \A i \in DOMAIN layout.slices :
                    LET s == layout.slices[i]
                    IN  /\ s.startAngle = IF i = 1 THEN Whole(0) ELSE layout.slices[i - 1].endAngle
                        /\ Minus(s.endAngle, s.startAngle) = Frac(s.yval, total)
               /\ layout.slices # <<>> => layout.slices[Len(layout.slices)].endAngle = Whole(1)
          /\ layout.style # "pie" /\ (o.yTicks = <<>> \/ (layout.minxval = 0 /\ layout.minyval = 0)) =>
               \A t \in Range(layout.yticks) :
                    t[1] = Minus(Whole(1), Times(Minus(t[2], Whole(layout.minyval)), layout.yscale))

(* The last picture drawn, on its background.                              *)
Picture == IF shapes = <<>> THEN <<>> ELSE Tail(Last(shapes))

(* Canvas.js, lines 608 to 649.                                            *)
(* A click in the middle of a bar that is on the canvas finds this bar, of *)
(* this colour, as long as the layout is the one that was drawn; and the   *)
(* bars of different datasets are told apart while there are colours.      *)
ClickFindsBar ==
    layout.style = "bar" /\ fresh /\ Picture # <<>> /\ Picture = renderBarChart
      /\ (\A n \in DOMAIN layout.datasets : OwnXs(layout.datasets[n])) =>
        /\ \A i \in DOMAIN Picture :
            LET s  == Picture[i]
                p  == InPage(Plus(s.x, Over(s.w, Whole(2))), Plus(s.y, Over(s.h, Whole(2))))
                at == resolve(p[1], p[2])
                on == HitBar(layout, at[1], at[2])
            IN  Len(on) = 1 /\ BarShape(on[1]) = s
        /\ Len(layout.names) <= ColorCount =>
            \A b, c \in Range(layout.bars) : chooseColor(b.name) = chooseColor(c.name) => b.name = c.name

(* Canvas.js, lines 200 to 235 and 575 to 606.                             *)
(* When nothing is left to wait for, the canvas shows a chart if that was  *)
(* asked for last, and neither chart nor label is left of one that was     *)
(* cleared, whenever the canvas came up; also after a render and a clear   *)
(* that both had to wait for it.  Left aside: a render that found no try   *)
(* left, and a call that was itself carried out while an older one of the  *)
(* other kind still waited, which is then done after it.                   *)
ShowsLastAsked ==
    timers = <<>> /\ ~overtaken =>
        /\ asked = "render" /\ ~gaveUp => shapes # <<>>
        /\ asked = "clear" => shapes = <<>> /\ labels = <<>>
=============================================================================
