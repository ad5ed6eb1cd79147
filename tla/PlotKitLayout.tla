---------------------------- MODULE PlotKitLayout ----------------------------
(***************************************************************************)
(* plotkit/Layout.js: the chart of some datasets as positions in the unit  *)
(* square.  A dataset is a sequence of points of integers, a position is a *)
(* fraction; what JavaScript computes inexactly is exact here.             *)
(***************************************************************************)
EXTENDS Integers, FiniteSets, Sequences, SequencesExt

-----------------------------------------------------------------------------
(* Fractions in lowest terms; <<0, 0>> is what is no finite number.        *)

Gcd[p \in Nat \X Nat] == IF p[2] = 0 THEN p[1] ELSE Gcd[<<p[2], p[1] % p[2]>>]
Abs(n) == IF n < 0 THEN -n ELSE n
Frac(n, d) ==
    IF d = 0 THEN <<0, 0>>
    ELSE LET g == Gcd[<<Abs(n), Abs(d)>>]
         IN  IF d < 0 THEN <<(-n) \div g, (-d) \div g>> ELSE <<n \div g, d \div g>>
Whole(n)    == <<n, 1>>
Plus(a, b)  == Frac(a[1] * b[2] + b[1] * a[2], a[2] * b[2])
Minus(a, b) == Frac(a[1] * b[2] - b[1] * a[2], a[2] * b[2])
Times(a, b) == Frac(a[1] * b[1], a[2] * b[2])
Over(a, b)  == Frac(a[1] * b[2], a[2] * b[1])
Leq(a, b)   == a[2] # 0 /\ b[2] # 0 /\ a[1] * b[2] <= b[1] * a[2]
Below(a, b)  == Leq(a, b) /\ a # b
InUnit(a)   == Leq(Whole(0), a) /\ Leq(a, Whole(1))

-----------------------------------------------------------------------------
(* The state of a layout.  A removed dataset leaves its name behind.       *)

Removed == "null"

NewLayout(style, options) ==
    [style    |-> style,
     options  |-> options,
     names    |-> <<>>,        \* in the order they were first added
     datasets |-> <<>>,        \* name -> points, or Removed
     minxval  |-> IF options.xAxis # <<>> THEN options.xAxis[1] ELSE 0,
     minyval  |-> IF options.yAxis # <<>> THEN options.yAxis[1] ELSE 0,
     xrange   |-> 1, yrange |-> 1, xscale |-> Whole(1), yscale |-> Whole(1), minxdelta |-> 0,
     bars     |-> <<>>, points |-> <<>>, slices |-> <<>>, xticks |-> <<>>, yticks |-> <<>>,
     hitTestCache |-> [made |-> FALSE, xvalues |-> {}, x2maxy |-> <<>>]]

addDataset(l, name, set_xy) ==
    [l EXCEPT !.names    = IF name \in Range(@) THEN @ ELSE Append(@, name),
              !.datasets = [n \in DOMAIN @ \union {name} |-> IF n = name THEN set_xy ELSE @[n]]]

removeDataset(l, name) == addDataset(l, name, Removed)

(* A loop over the datasets fails on a removed one, having done those      *)
(* before it; what collects all the points passes over it.                 *)
BeforeRemoved(l) ==
    LET gone == {i \in DOMAIN l.names : l.datasets[l.names[i]] = Removed}
    IN  IF gone = {} THEN l.names ELSE SubSeq(l.names, 1, Min(gone) - 1)
NoneRemoved(l) == BeforeRemoved(l) = l.names

collapse(l) ==
    FlattenSeq([i \in DOMAIN l.names |->
        IF l.datasets[l.names[i]] = Removed THEN <<>> ELSE l.datasets[l.names[i]]])
XValues(l)  == {p[1] : p \in Range(collapse(l))}
YValues(l)  == {p[2] : p \in Range(collapse(l))}
Extreme(values, Choice(_)) == IF values = {} THEN 0 ELSE Choice(values)

(* The x values in order, each once.                                       *)
uniqueXValues(l) == SetToSortSeq(XValues(l), <)

-----------------------------------------------------------------------------
(* evaluate                                                                *)

(* The limits come from the data; the upper one also where an axis is set. *)
evaluateLimits(l) ==
    LET o == l.options
        minx == CASE o.xAxis # <<>>  -> l.minxval
                  [] o.xOriginIsZero -> 0
                  [] OTHER           -> Extreme(XValues(l), Min)
        miny == CASE o.yAxis # <<>>  -> l.minyval
                  [] o.yOriginIsZero -> 0
                  [] OTHER           -> Extreme(YValues(l), Min)
        xrange == Extreme(XValues(l), Max) - minx
        yrange == Extreme(YValues(l), Max) - miny
    IN  [l EXCEPT !.minxval = minx, !.minyval = miny, !.xrange = xrange, !.yrange = yrange,
                  !.xscale = IF xrange = 0 THEN Whole(1) ELSE Frac(1, xrange),
                  !.yscale = IF yrange = 0 THEN Whole(1) ELSE Frac(1, yrange)]

XPos(l, x) == Times(Whole(x - l.minxval), l.xscale)
YPos(l, y) == Times(Whole(y - l.minyval), l.yscale)

barWidthFillFraction == Frac(3, 4)

FarApart == 1000   \* 10000000 in the code: farther than any two values

(* One x value takes the whole width; several leave room for the last one. *)
evaluateBarCharts(l) ==
    LET xvalues == uniqueXValues(l)
        deltas  == {xvalues[i] - xvalues[i - 1] : i \in 2..Len(xvalues)}
        one     == Len(xvalues) = 1
        xdelta  == CASE one -> 1 [] deltas = {} -> FarApart [] OTHER -> Min(deltas)
        xscale  == IF one THEN Whole(1)
                   ELSE Over(Minus(Whole(1), Frac(xdelta, l.xrange)), Whole(l.xrange))
        slot    == IF one THEN Whole(1) ELSE Times(Whole(xdelta), xscale)
        width   == Over(Times(slot, barWidthFillFraction), Whole(Len(l.names)))
        margin  == Over(Times(slot, Minus(Whole(1), barWidthFillFraction)), Whole(2))
        m       == [l EXCEPT !.minxval = IF one THEN xvalues[1] ELSE @,
                             !.xscale = xscale, !.minxdelta = xdelta]
        Rect(i, p) ==
            [x |-> Plus(Plus(XPos(m, p[1]), Times(Whole(i - 1), width)), margin),
             y |-> Minus(Whole(1), YPos(m, p[2])), w |-> width, h |-> YPos(m, p[2]),
             xval |-> p[1], yval |-> p[2], name |-> l.names[i]]
        Rects(i) == LET set == l.datasets[l.names[i]] IN [j \in DOMAIN set |-> Rect(i, set[j])]
    IN  [m EXCEPT !.bars = FlattenSeq([i \in DOMAIN BeforeRemoved(l) |-> Rects(i)])]

(* The datasets themselves are sorted.                                     *)
evaluateLineCharts(l) ==
    LET sorted == [n \in DOMAIN l.datasets |->
                     IF n \in Range(BeforeRemoved(l)) THEN SortSeq(l.datasets[n], LAMBDA p, q : p[1] < q[1])
                     ELSE l.datasets[n]]
        Point(n, p) == [x |-> XPos(l, p[1]), y |-> Minus(Whole(1), YPos(l, p[2])),
                        xval |-> p[1], yval |-> p[2], name |-> n]
        Points(n) == [j \in DOMAIN sorted[n] |-> Point(n, sorted[n][j])]
    IN  [l EXCEPT !.datasets = sorted,
                  !.points = FlattenSeq([i \in DOMAIN BeforeRemoved(l) |-> Points(l.names[i])])]

(* The first dataset only; an angle is a part of the whole turn.           *)
evaluatePieCharts(l) ==
    LET set   == l.datasets[l.names[1]]
        total == FoldLeft(LAMBDA t, p : t + p[2], 0, set)
        Slice(r, p) ==
            LET end == Plus(r.angle, Frac(p[2], total))
            IN  [angle  |-> end,
                 slices |-> Append(r.slices, [fraction |-> Frac(p[2], total), xval |-> p[1],
                                              yval |-> p[2], startAngle |-> r.angle, endAngle |-> end])]
    IN  [l EXCEPT !.slices = FoldLeft(Slice, [angle |-> Whole(0), slices |-> <<>>], set).slices]

(* A tick is a position and the value it is labelled with.                 *)
xNumberOfTicks == 10
yNumberOfTicks == 5

(* The values in order, no closer to one another than a tenth of the       *)
(* range, until one is out of the chart.                                   *)
AutoXTicks(l) ==
    LET Tick(r, v) ==
            LET n == Len(r.ticks) IN
            CASE r.out \/ n > xNumberOfTicks \/ v * xNumberOfTicks < n * l.xrange -> r
              [] ~InUnit(XPos(l, v)) -> [r EXCEPT !.out = TRUE]
              [] OTHER -> [r EXCEPT !.ticks = Append(@, <<XPos(l, v), v>>)]
    IN  FoldLeft(Tick, [ticks |-> <<>>, out |-> FALSE], uniqueXValues(l)).ticks

evaluateLineTicksForXAxis(l) ==
    LET o == l.options.xTicks
    IN  [l EXCEPT !.xticks = IF o # <<>> THEN [i \in DOMAIN o |-> <<XPos(l, o[i]), o[i]>>]
                             ELSE AutoXTicks(l)]

(* The place of a given tick is found with the least x, not the least y.   *)
evaluateLineTicksForYAxis(l) ==
    LET o == l.options.yTicks
        Given(v) == Minus(Whole(1), Times(l.yscale, Whole(v + l.minxval)))
        Auto(i)  == Plus(Whole(l.minyval), Times(Whole(i), Frac(l.yrange, yNumberOfTicks)))
        AutoPos(v) == Minus(Whole(1), Times(Minus(v, Whole(l.minyval)), l.yscale))
    IN  [l EXCEPT !.yticks =
            IF o # <<>> THEN LET kept == SelectSeq(o, LAMBDA v : InUnit(Given(v)))
                             IN  [i \in DOMAIN kept |-> <<Given(kept[i]), Whole(kept[i])>>]
            ELSE [i \in 1..(yNumberOfTicks + 1) |-> <<AutoPos(Auto(i - 1)), Auto(i - 1)>>]]

evaluateLineTicks(l) == evaluateLineTicksForYAxis(evaluateLineTicksForXAxis(l))

(* (Mutant: a tick is moved by the whole room of its bars.)                *)
evaluateBarTicksBeside(l) ==
    LET m == evaluateLineTicks(l)
    IN  [m EXCEPT !.xticks = [i \in DOMAIN @ |->
            <<Plus(@[i][1], Times(Whole(m.minxdelta), m.xscale)), @[i][2]>>]]

evaluateBarTicks(l) ==
    LET m == evaluateLineTicks(l)
        half == Over(Times(Whole(m.minxdelta), m.xscale), Whole(2))
    IN  [m EXCEPT !.xticks = [i \in DOMAIN @ |-> <<Plus(@[i][1], half), @[i][2]>>]]

(* A tick of a pie is the value itself, for the slices there are.          *)
evaluatePieTicks(l) ==
    LET xvals == [i \in DOMAIN l.slices |-> l.slices[i].xval]
        given == SelectSeq(l.options.xTicks, LAMBDA v : v \in Range(xvals))
        ticks == IF l.options.xTicks # <<>> THEN given ELSE xvals
    IN  [l EXCEPT !.xticks = [i \in DOMAIN ticks |-> <<Whole(ticks[i]), ticks[i]>>]]

(* A bar or line chart needs all its datasets, a pie its first.            *)
Evaluable(l) == IF l.style = "pie" THEN BeforeRemoved(l) # <<>> ELSE NoneRemoved(l)

(* What fails leaves the layout as far as it got.                          *)
evaluate(l) ==
    LET m    == evaluateLimits(l)
        ok   == Evaluable(l)
        bars == evaluateBarCharts(m)
        line == evaluateLineCharts(m)
    IN  CASE l.style = "bar"  -> IF ok THEN evaluateBarTicks(bars) ELSE bars
          [] l.style = "line" -> IF ok THEN evaluateLineTicks(line) ELSE line
          [] l.style = "pie"  -> IF ok THEN evaluatePieTicks(evaluatePieCharts(m)) ELSE m

-----------------------------------------------------------------------------
(* hitTest                                                                 *)

HitBar(l, x, y) ==
    SelectSeq(l.bars, LAMBDA b : /\ Leq(b.x, x) /\ Leq(x, Plus(b.x, b.w))
                                 /\ Leq(b.y, y) /\ Leq(Minus(y, b.y), b.h))

(* The cache a line chart is tested against, made at the first test and    *)
(* kept for good; with a removed dataset it stays empty of y values.       *)
regenerateHitTestCache(l) ==
    LET Top(x) == Max({p[2] : p \in {q \in Range(collapse(l)) : q[1] = x}})
    IN  IF l.hitTestCache.made THEN l
        ELSE [l EXCEPT !.hitTestCache =
                [made   |-> TRUE, xvalues |-> XValues(l),
                 x2maxy |-> IF NoneRemoved(l) THEN [x \in XValues(l) |-> Top(x)] ELSE <<>>]]

(* Below the straight line between the values before and after x.          *)
HitLine(l, x, y) ==
    LET xval  == Over(x, l.xscale)
        yval  == Over(Minus(Whole(1), y), l.yscale)
        xs    == l.hitTestCache.xvalues
        top   == l.hitTestCache.x2maxy
        after == {v \in xs : Below(xval, Whole(v)) /\ v # Min(xs)}
        a     == Min(after)
        b     == Max({v \in xs : v < a})
        gradient == Frac(top[a] - top[b], a - b)
        projmaxy == Plus(Whole(top[b]), Times(gradient, Minus(xval, Whole(b))))
    IN  after # {} /\ top # <<>> /\ Leq(yval, projmaxy)

(* The angle of a point about the middle, in turns from the right, down    *)
(* first, no more than a half: exact for points on the diagonals.          *)
atan2(dy, dx) ==
    LET eighth == IF Leq(Whole(0), dx) THEN Frac(1, 8) ELSE Frac(3, 8)
    IN  IF Leq(Whole(0), dy) THEN eighth ELSE Minus(Whole(0), eighth)

(* The slices that a point is in: their angles begin at the top, that of a *)
(* point is turned back a quarter, so that most points are in none.        *)
HitPie(l, x, y) ==
    LET dx    == Minus(x, Frac(1, 2))
        dy    == Minus(y, Frac(1, 2))
        angle == Minus(atan2(dy, dx), Frac(1, 4))
    IN  IF Below(Frac(4, 25), Plus(Times(dx, dx), Times(dy, dy))) THEN <<>>
        ELSE SelectSeq(l.slices, LAMBDA s : Below(s.startAngle, angle) /\ Leq(angle, s.endAngle))
=============================================================================
