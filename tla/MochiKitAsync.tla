--------------------------- MODULE MochiKitAsync ---------------------------
(***************************************************************************)
(* MochiKit.Async of the web console: Deferreds, the lock and the list     *)
(* made of them, requests and timers.  Scripts of a page run one at a      *)
(* time, to the end: one action is one call from the page, with all the    *)
(* callbacks it runs and the calls those make.                             *)
(***************************************************************************)
EXTENDS Integers, Sequences, FiniteSets

CONSTANTS Deferreds,  \* those a page makes, besides a list's own
          Callbacks,  \* the pairs of callback and errback a page may add
          MaxCalls    \* script -> a bound of the calls a page makes

\* One record: a call may change any of its fields, through callbacks.
\*   script     what the page tries: "chain", "lock", "list" or "net"
\*   heap       the fields of each Deferred;   thrown  the error no one caught
\*   locked, waiting   the DeferredLock;       holder  who was given it
\*   list       the DeferredList, but for its fields as a Deferred
\*   open, timers      whose request has a handler, whose timeout is set
\*   calls      how many the page has made;    broken  given a wrong result
\*   running    whose callbacks run now;  reentered  had them run from within one
\*   stuck, late       they wait for
\*              a Deferred that is another's, they were cancelled unfired
VARIABLE page
asyncVars == <<page>>

List == "list"
Null == "null"
Val(v) == [is |-> "value", of |-> v]
Err(e) == [is |-> "error", of |-> e]
Def(d) == [is |-> "deferred", of |-> d]

\* A callback: the name of what it does, and what it is bound to.
Fn(name, on) == <<name, on>>
NoFn == Fn(Null, Null)

Deferred(canceller) ==
    [fired |-> -1, paused |-> 0, results |-> [i \in {0, 1} |-> Val(Null)], chain |-> <<>>,
     canceller |-> canceller, silentlyCancelled |-> FALSE, chained |-> FALSE,
     gave |-> Val(Null)]

Throw(p, e) == [p EXCEPT !.thrown = e]
FiredBy(res) == IF res.is = "error" THEN 1 ELSE 0

-----------------------------------------------------------------------------
RECURSIVE Loop(_, _, _, _, _), Call(_, _, _, _)

\* Nothing stops a callback, however deep the calls it makes, from having the chain
\* it is of run on with the result of before.
Fire(p, d) ==
    Loop([p EXCEPT !.reentered = IF d \in p.running THEN @ \union {d} ELSE @],
         d, p.heap[d].fired, p.heap[d].results[p.heap[d].fired], FALSE)

AddCallbacks(p, d, cb, eb) ==
    LET q == [p EXCEPT !.heap[d].chain = Append(@, <<cb, eb>>)] IN
    IF p.heap[d].chained THEN Throw(p, "ChainedReused")
    ELSE IF p.heap[d].fired >= 0 THEN Fire(q, d) ELSE q

\* What a Deferred has for fired and results is set when the loop of _fire has
\* ended, and not before; only then is the Deferred it waits for told to continue it.
Settle(p, d, fired, res) ==
    LET q    == [p EXCEPT !.heap[d].fired = fired, !.heap[d].results[fired] = res]
        told == AddCallbacks(q, res.of, Fn("continue", d), Fn("continue", d))
    IN  IF res.is # "deferred" \/ q.heap[d].paused = 0 THEN q
        ELSE IF told.thrown # Null THEN [told EXCEPT !.stuck = @ \union {d}]
        ELSE [told EXCEPT !.heap[res.of].chained = TRUE]

\* The loop goes on with what a callback returned or threw.
LoopAfter(ran, d, running, cb) ==
    LET new == IF ran.page.thrown # Null THEN Err(ran.page.thrown) ELSE ran.res
        has == new.is = "deferred"
    IN  Loop([ran.page EXCEPT !.thrown = Null, !.running = running, !.heap[d].gave = new,
                              !.heap[d].paused = IF has THEN @ + 1 ELSE @],
             d, FiredBy(new), new, cb \/ has)

Loop(p, d, fired, res, cb) ==
    IF p.heap[d].chain = <<>> \/ p.heap[d].paused # 0
    THEN IF cb THEN Settle(p, d, fired, res)
         ELSE [p EXCEPT !.heap[d].fired = fired, !.heap[d].results[fired] = res]
    ELSE LET f   == Head(p.heap[d].chain)[fired + 1]
             q   == [p EXCEPT !.heap[d].chain = Tail(@)]
             off == IF res # p.heap[d].gave THEN {d} ELSE {}
         IN  IF f = NoFn THEN Loop(q, d, fired, res, cb)
             ELSE LoopAfter(Call([q EXCEPT !.broken = @ \union off, !.running = @ \union {d}], d, f, res),
                            d, p.running, cb)

\* (Mutant: fired without the result.)
ResbackEmpty(p, d, res) ==
    Fire([p EXCEPT !.heap[d].fired = FiredBy(res), !.heap[d].gave = res], d)

Resback(p, d, res) ==
    Fire([p EXCEPT !.heap[d].fired = FiredBy(res), !.heap[d].gave = res,
                   !.heap[d].results[FiredBy(res)] = res], d)

Unpause(p, d) ==
    LET q == [p EXCEPT !.heap[d].paused = @ - 1] IN
    IF q.heap[d].paused = 0 /\ q.heap[d].fired >= 0 THEN Fire(q, d) ELSE q

\* (Mutant: the pause is forgotten once the result has come.)
ContinueUnpaused(p, d, res) == Resback(p, d, res)

\* An error of _resback leaves _continue before the pause ends.
Continue(p, d, res) ==
    LET q == Resback(p, d, res) IN IF q.thrown # Null THEN q ELSE Unpause(q, d)

\* callback and errback: _check lets a Deferred that was cancelled without a
\* canceller be called back once more, and it is then fired again.
Back(p, d, res) ==
    LET self == p.heap[d] IN
    IF self.fired # -1 /\ ~self.silentlyCancelled THEN Throw(p, "AlreadyCalled")
    ELSE LET q == [p EXCEPT !.heap[d].silentlyCancelled =
                                IF self.fired # -1 THEN FALSE ELSE @]
         IN  IF res.is = "deferred" THEN Throw(q, "NotAResult") ELSE Resback(q, d, res)

\* Aborting a request that still has its handler runs it.
Canceller(p, d) ==
    CASE p.heap[d].canceller = "request" -> [p EXCEPT !.open = @ \ {d}]
      [] p.heap[d].canceller = "timeout" -> [p EXCEPT !.timers = @ \ {d}]
      [] OTHER -> [p EXCEPT !.heap[d].silentlyCancelled = TRUE, !.late = @ \union {d}]
Abort(p, d) == IF d \in p.open THEN Back([p EXCEPT !.open = @ \ {d}], d, Err("Request"))
               ELSE p

RECURSIVE Cancel(_, _)
Cancel(p, d) ==
    LET self == p.heap[d]
        q    == Abort(Canceller(p, d), d)
    IN  IF self.fired = -1
        THEN IF q.heap[d].fired = -1 THEN Back(q, d, Err("Cancelled")) ELSE q
        ELSE IF self.fired = 0 /\ self.results[0].is = "deferred"
        THEN Cancel(p, self.results[0].of) ELSE p

-----------------------------------------------------------------------------
(* DeferredLock and DeferredList. *)

\* (Mutant: handed on without being locked again.)
ReleaseUnlocked(p) ==
    IF ~p.locked THEN Throw(p, "NotLocked")
    ELSE IF p.waiting = <<>> THEN [p EXCEPT !.locked = FALSE]
    ELSE Back([p EXCEPT !.waiting = Tail(@), !.locked = FALSE], Head(p.waiting), Val("lock"))

\* The first that waits gets the lock, one that was cancelled meanwhile as well.
Release(p) ==
    IF ~p.locked THEN Throw(p, "NotLocked")
    ELSE IF p.waiting = <<>> THEN [p EXCEPT !.locked = FALSE]
    ELSE Back([p EXCEPT !.waiting = Tail(@)], Head(p.waiting), Val("lock"))

\* (Mutant: an element's failure does not count.)
CbDeferredOfSuccess(p, i, ok, res) ==
    LET n == p.list.finishedCount + (IF ok THEN 1 ELSE 0)
        q == [p EXCEPT !.list.resultList[i] = <<ok, res>>, !.list.finishedCount = n]
    IN  IF p.heap[List].fired = 0 THEN q
        ELSE IF ok /\ p.list.fireOnOneCallback THEN Back(q, List, Val("first"))
        ELSE IF ~ok /\ p.list.fireOnOneErrback THEN Back(q, List, res)
        ELSE IF n = Len(p.list.of) THEN Back(q, List, Val("all"))
        ELSE q

CbDeferred(p, i, ok, res) ==
    LET n == p.list.finishedCount + 1
        q == [p EXCEPT !.list.resultList[i] = <<ok, res>>, !.list.finishedCount = n]
    IN  IF p.heap[List].fired = 0 THEN q
        ELSE IF ok /\ p.list.fireOnOneCallback THEN Back(q, List, Val("first"))
        ELSE IF ~ok /\ p.list.fireOnOneErrback THEN Back(q, List, res)
        ELSE IF n = Len(p.list.of) THEN Back(q, List, Val("all"))
        ELSE q

\* What a callback of d does when it is given res: the page after it and its result.
Call(p, d, f, res) ==
    CASE f[1] = "give"  -> [page |-> p, res |-> Val(f[2])]
      [] f[1] = "raise" -> [page |-> p, res |-> Err("Raised")]
      [] f[1] = "wait"  -> [page |-> p, res |-> Def(f[2])]
      [] f[1] = "add"   -> [page |-> AddCallbacks(p, d, Fn("give", "added"), NoFn),
                            res  |-> res]
      [] f[1] = "cancel"   -> [page |-> Cancel(p, f[2]), res |-> res]
      [] f[1] = "continue" -> [page |-> Continue(p, f[2], res), res |-> Val(Null)]
      [] f[1] = "use"      -> [page |-> [p EXCEPT !.holder = @ \union {d}], res |-> res]
      [] f[1] = "item"     -> [page |-> CbDeferred(p, f[2][1], f[2][2], res),
                               res  |-> IF ~f[2][2] /\ p.list.consumeErrors
                                        THEN Val(Null) ELSE res]
      [] OTHER -> [page |-> p, res |-> res]

\* The constructor of DeferredList adds to each element what tells the list.
RECURSIVE AddItems(_, _)
AddItems(p, i) ==
    IF i > Len(p.list.of) THEN p
    ELSE LET d == p.list.of[i]
             q == AddCallbacks(p, d, Fn("item", <<i, TRUE>>), NoFn)
         IN  AddItems(AddCallbacks(q, d, NoFn, Fn("item", <<i, FALSE>>)), i + 1)

DeferredList(p, of, one, oneErr, consume) ==
    LET q == [p EXCEPT !.list = [of |-> of, resultList |-> [i \in DOMAIN of |-> <<>>],
                                 finishedCount |-> 0, fireOnOneCallback |-> one,
                                 fireOnOneErrback |-> oneErr, consumeErrors |-> consume]]
    IN  IF of = <<>> /\ ~one THEN Back(q, List, Val("all")) ELSE AddItems(q, 1)

-----------------------------------------------------------------------------
(* What a page does. *)

NoList == [of |-> <<>>, resultList |-> <<>>, finishedCount |-> 0, fireOnOneCallback |-> FALSE,
           fireOnOneErrback |-> FALSE, consumeErrors |-> FALSE]

Init ==
    \E s \in {"chain", "lock", "list", "net"} :
        page = [script |-> s, heap |-> [d \in Deferreds \union {List} |-> Deferred(Null)],
                locked |-> FALSE, waiting |-> <<>>, holder |-> {}, list |-> NoList,
                made |-> {}, open |-> {}, timers |-> {}, calls |-> 0, thrown |-> Null,
                broken |-> {}, running |-> {}, reentered |-> {}, stuck |-> {}, late |-> {}]

\* The page makes a call; an error of the last one has reached the browser.
Does(script, after(_)) ==
    /\ page.script \in script
    /\ page.calls < MaxCalls[page.script]
    /\ page' = after([page EXCEPT !.calls = @ + 1, !.thrown = Null])

AddToChain(d, pair) ==
    /\ <<"wait", d>> \notin {f : f \in {pair[1], pair[2]}}
    /\ Does({"chain"}, LAMBDA p : AddCallbacks(p, d, pair[1], pair[2]))

CallBack(d, res) == Does({"chain", "list"}, LAMBDA p : Back(p, d, res))

\* A waiter of the lock that is cancelled stays in its queue.
CancelIt(d) ==
    /\ d \in page.made \/ (d # List /\ page.script \in {"chain", "list"})
    /\ Does({"chain", "lock", "list", "net"}, LAMBDA p : Cancel(p, d))

\* acquire, and the callback by which a page gets the lock.
Acquire(d) ==
    /\ d \notin page.made
    /\ Does({"lock"}, LAMBDA p :
         LET q == [p EXCEPT !.made = @ \union {d}]
             r == IF p.locked THEN [q EXCEPT !.waiting = Append(@, d)]
                  ELSE Back([q EXCEPT !.locked = TRUE], d, Val("lock"))
         IN  AddCallbacks(r, d, Fn("use", Null), NoFn))

ReleaseIt(d) ==
    /\ d \in page.holder
    /\ Does({"lock"}, LAMBDA p : Release([p EXCEPT !.holder = @ \ {d}]))

MakeList(of, one, oneErr, consume) ==
    /\ page.made = {}
    /\ Does({"list"}, LAMBDA p : DeferredList([p EXCEPT !.made = {List}], of, one, oneErr, consume))

\* sendXMLHttpRequest; send may raise an error.
SendRequest(d, raises) ==
    /\ d \notin page.made
    /\ Does({"net"}, LAMBDA p :
         LET q == [p EXCEPT !.made = @ \union {d}, !.heap[d] = Deferred("request")] IN
         IF raises THEN Back(q, d, Err("Send")) ELSE [q EXCEPT !.open = @ \union {d}])

\* readyState 4: no status with a text counts as 304.
Answer(d, status, text) ==
    /\ d \in page.open
    /\ Does({"net"}, LAMBDA p :
         LET q    == [p EXCEPT !.open = @ \ {d}]
             read == IF status = 0 /\ text THEN 304 ELSE status
         IN  Back(q, d, IF read \in {200, 304} THEN Val("request") ELSE Err("Request")))

\* wait and callLater: the second is the first with a callback.
Wait(d, func) ==
    /\ d \notin page.made
    /\ Does({"net"}, LAMBDA p :
         LET q == [p EXCEPT !.made = @ \union {d}, !.heap[d] = Deferred("timeout"),
                            !.timers = @ \union {d}]
         IN  AddCallbacks(q, d, func, NoFn))

Timeout(d) ==
    /\ d \in page.timers
    /\ Does({"net"}, LAMBDA p : Back([p EXCEPT !.timers = @ \ {d}], d, Val(Null)))

Next ==
    \/ \E d \in Deferreds, pair \in Callbacks : AddToChain(d, pair)
    \/ \E d \in Deferreds, res \in {Val("called"), Err("called")} : CallBack(d, res)
    \/ \E d \in Deferreds \union {List} : CancelIt(d)
    \/ \E d \in Deferreds : Acquire(d)
    \/ \E d \in Deferreds : ReleaseIt(d)
    \/ \E of \in UNION {[1 .. n -> Deferreds] : n \in 0 .. 2},
          one, oneErr, consume \in BOOLEAN : MakeList(of, one, oneErr, consume)
    \/ \E d \in Deferreds, raises \in BOOLEAN : SendRequest(d, raises)
    \/ \E d \in Deferreds, status \in {0, 200, 500}, text \in BOOLEAN : Answer(d, status, text)
    \/ \E d \in Deferreds, f \in {Fn("give", "later"), Fn("raise", Null)} : Wait(d, f)
    \/ \E d \in Deferreds : Timeout(d)

-----------------------------------------------------------------------------
(* Properties. *)

\* _fire, lines 2164 to 2200: a callback is given what the one before it in the chain
\* returned, or what the Deferred was called back with, unless callbacks were added
\* from within one, which runs them at once with a result of before.
ResultsFlow == page.broken \subseteq page.reentered

\* Lines 2102 to 2112 and 2195: a Deferred is paused as often as others have a
\* callback that will continue it, so it cannot be left paused, unless what it waits
\* for was another's already.
PausedExact ==
    \A d \in DOMAIN page.heap \ page.stuck :
        page.heap[d].paused =
          Cardinality({<<e, i>> \in (DOMAIN page.heap) \X (1 .. MaxCalls[page.script] + 1) :
                         /\ i \in DOMAIN page.heap[e].chain
                         /\ page.heap[e].chain[i][1] = Fn("continue", d)})

\* DeferredLock, lines 2349 to 2366: one at a time has the lock, and while it is locked
\* somebody has it, unless a waiter was cancelled, who is given it all the same.
LockHeld ==
    /\ Cardinality(page.holder) <= 1
    /\ page.locked /\ page.late = {} => page.holder # {}

\* DeferredList, lines 2405 to 2421: as long as its list has not failed early and was
\* not cancelled, an element counts once, with the result it had, and the list fires
\* when all have finished, or at the first success where that was asked for.
ListExact ==
    LET l    == page.list
        self == page.heap[List]
        Done == {i \in DOMAIN l.of : l.resultList[i] # <<>>}
    IN  self.fired # 1 /\ page.made = {List} /\ self.results[1] = Val(Null) =>
          /\ l.finishedCount = Cardinality(Done)
          /\ \A i \in Done : l.of[i] \in page.late \/ LET kept == page.heap[l.of[i]].results IN
                             l.resultList[i][2] \in {kept[0], kept[1]}
          /\ self.fired = 0 <=> \/ Done = DOMAIN l.of /\ (l.of # <<>> \/ ~l.fireOnOneCallback)
                                \/ l.fireOnOneCallback /\ \E i \in Done : l.resultList[i][1]

\* Lines 2240 to 2296 and 2329 to 2336: nothing is left that could call back a Deferred
\* which has fired, and a request or timeout that was cancelled ends as cancelled.
QuietOnceFired ==
    \A d \in page.open \union page.timers : page.heap[d].fired = -1

\* The three of a chain together.
ChainsExact == ResultsFlow /\ PausedExact /\ QuietOnceFired
=============================================================================
