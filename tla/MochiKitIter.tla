---------------------------- MODULE MochiKitIter ----------------------------
(***************************************************************************)
(* MochiKit.Iter: lazy iterators that share their sources.  A page builds  *)
(* some and asks any of those it holds for the next element, in any order; *)
(* what each gives is compared with the sequence it stands for.            *)
(***************************************************************************)
EXTENDS Integers, Sequences, FiniteSets, SequencesExt

CONSTANTS Builds,    \* the pages: a sequence of iterators, that use those before
          MaxPulls   \* bounds the elements a page asks for

VARIABLES
    built,   \* the iterators the page made, as made
    iters,   \* and as they are now
    got,     \* what each gave the page
    ended,   \* those that threw StopIteration
    groups,  \* the groups of a groupby: key, what it gave, where its run begins
    answer,  \* of the last call that takes all of an iterator: call, elements, result
    stale    \* whether a group was asked after the next was begun
iterVars == <<built, iters, got, ended, groups, answer, stale>>

NoAnswer == <<"none", <<>>, <<>>>>

Out(h, v) == [heap |-> h, out |-> <<v>>]
Stop(h) == [heap |-> h, out |-> <<>>]    \* StopIteration

Apply(fun, args) ==
    IF fun = "add" THEN FoldLeft(LAMBDA a, b : a + b, 0, args) ELSE Head(args)

-----------------------------------------------------------------------------
RECURSIVE NextOf(_, _), NextAll(_, _, _), Pull(_, _, _, _)

\* m.map(next, iterators): where one of them ends, those before it have given one.
NextAll(h, ids, given) ==
    IF ids = <<>> THEN Out(h, given)
    ELSE LET r == NextOf(h, Head(ids)) IN
         IF r.out = <<>> THEN r ELSE NextAll(r.heap, Tail(ids), given \o r.out)

\* Next elements of an iterator until one is, or is not, of a set.
Pull(h, id, set, in) ==
    LET r == NextOf(h, id) IN
    IF r.out = <<>> \/ (r.out[1] \in set <=> in) THEN r ELSE Pull(r.heap, id, set, in)

\* islice takes the elements it passes over before it looks at its end.
RECURSIVE Slice(_, _, _)
Slice(h, id, rval) ==
    LET self == h[id] IN
    IF self.i < self.start
    THEN LET r == NextOf(h, self.of) IN
         IF r.out = <<>> THEN r ELSE Slice([r.heap EXCEPT ![id].i = @ + 1], id, r.out)
    ELSE IF self.start >= self.stop THEN Stop(h)
    ELSE [heap |-> [h EXCEPT ![id].start = @ + self.step], out |-> rval]

\* (Mutant: an element goes from the queue when the first of them has read it.)
TeeOfFirst(h, id) ==
    LET n == h[id].n
        s == h[h[id].sync]
        i == s.pos[n]
        moved == [s EXCEPT !.pos[n] = @ + 1]
        r == NextOf(h, s.of)
    IN  IF i = s.max
        THEN IF r.out = <<>> THEN r
             ELSE [r EXCEPT !.heap[h[id].sync] =
                      [moved EXCEPT !.deque = @ \o r.out, !.max = @ + 1]]
        ELSE IF i < s.min THEN Stop(h)
        ELSE Out([h EXCEPT ![h[id].sync] =
                     IF i = s.min THEN [moved EXCEPT !.min = @ + 1, !.deque = Tail(@)] ELSE moved],
                 s.deque[i - s.min + 1])

\* The iterators of tee read what one of them has read from a queue, from which an
\* element goes when the last of them has read it.
Tee(h, id) ==
    LET n == h[id].n
        s == h[h[id].sync]
        i == s.pos[n]
        moved == [s EXCEPT !.pos[n] = @ + 1]
        r == NextOf(h, s.of)
        last == i = s.min /\ \A j \in DOMAIN s.pos : moved.pos[j] # s.min
    IN  IF i = s.max
        THEN IF r.out = <<>> THEN r
             ELSE [r EXCEPT !.heap[h[id].sync] =
                      [moved EXCEPT !.deque = @ \o r.out, !.max = @ + 1]]
        ELSE Out([h EXCEPT ![h[id].sync] =
                     IF last THEN [moved EXCEPT !.min = @ + 1, !.deque = Tail(@)] ELSE moved],
                 s.deque[i - s.min + 1])

\* groupby holds one element fetched ahead, <<>> for undefined.  No element is null:
\* the code takes null for undefined, and would lose elements and whole groups.
Fetch(h, id) ==
    LET r == NextOf(h, h[id].of) IN
    IF r.out = <<>> THEN r
    ELSE [r EXCEPT !.heap[id].v = r.out, !.heap[id].k = <<h[id].key[r.out[1]]>>]

RECURSIVE NextGroup(_, _)
NextGroup(h, id) ==
    LET self == h[id]
        r    == Fetch(h, id)
    IN  IF self.k # self.pk THEN Out([h EXCEPT ![id].pk = self.k], self.k[1])
        ELSE IF r.out = <<>> THEN r
        ELSE IF self.first THEN Out([r.heap EXCEPT ![id].first = FALSE,
                                                   ![id].pk = r.heap[id].k], r.heap[id].k[1])
        ELSE NextGroup(r.heap, id)

\* (Mutant: the element given is kept.)
NextInGroupKept(h, id) ==
    LET r == IF h[id].v = <<>> THEN Fetch(h, id) ELSE Out(h, h[id].v) IN
    IF r.out = <<>> THEN r
    ELSE IF r.heap[id].k # r.heap[id].pk THEN Stop(r.heap)
    ELSE [heap |-> r.heap, out |-> r.heap[id].v]

\* The iterator of a group: all groups of a groupby share its state.
NextInGroup(h, id) ==
    LET r == IF h[id].v = <<>> THEN Fetch(h, id) ELSE Out(h, h[id].v) IN
    IF r.out = <<>> THEN r
    ELSE IF r.heap[id].k # r.heap[id].pk THEN Stop(r.heap)
    ELSE [heap |-> [r.heap EXCEPT ![id].v = <<>>], out |-> r.heap[id].v]

ArrayNext(h, id) ==
    IF h[id].i >= Len(h[id].list) THEN Stop(h)
    ELSE Out([h EXCEPT ![id].i = @ + 1], h[id].list[h[id].i + 1])

RangeNext(h, id) ==
    LET self == h[id] IN
    IF \/ self.step > 0 /\ self.start >= self.stop
       \/ self.step < 0 /\ self.start <= self.stop
    THEN Stop(h) ELSE Out([h EXCEPT ![id].start = @ + self.step], self.start)

RepeatNext(h, id) ==
    IF h[id].n <= 0 THEN Stop(h) ELSE Out([h EXCEPT ![id].n = @ - 1], h[id].elem)

\* cycle keeps what its source gives; at its end it replaces its own next.
CycleNext(h, id) ==
    LET self == h[id]
        r    == NextOf(h, self.of)
        turn == (self.i + 1) % Len(self.lst)
    IN  IF ~self.looping
        THEN IF r.out # <<>> THEN [r EXCEPT !.heap[id].lst = @ \o r.out]
             ELSE NextOf([r.heap EXCEPT ![id].looping = TRUE], id)
        ELSE IF self.lst = <<>> THEN Stop(h)
        ELSE Out([h EXCEPT ![id].i = turn], self.lst[turn + 1])

ChainNext(h, id) ==
    LET of == h[id].of
        r  == NextOf(h, Head(of))
    IN  IF of = <<>> THEN Stop(h)
        ELSE IF r.out = <<>> /\ Len(of) > 1 THEN NextOf([r.heap EXCEPT ![id].of = Tail(@)], id)
        ELSE r

TakeWhileNext(h, id) ==
    LET r == NextOf(h, h[id].of) IN
    IF h[id].stopped THEN Stop(h)
    ELSE IF r.out = <<>> \/ r.out[1] \in h[id].pred THEN r
    ELSE Stop([r.heap EXCEPT ![id].stopped = TRUE])

DropWhileNext(h, id) ==
    LET r == Pull(h, h[id].of, h[id].pred, FALSE) IN
    IF h[id].dropped THEN NextOf(h, h[id].of)
    ELSE IF r.out = <<>> THEN r ELSE [r EXCEPT !.heap[id].dropped = TRUE]

MapNext(h, id) ==
    LET r == NextAll(h, h[id].of, <<>>) IN
    IF r.out = <<>> THEN r ELSE Out(r.heap, Apply(h[id].fun, r.out[1]))

NextOf(h, id) ==
    LET self == h[id] IN
    CASE self.kind = "array"     -> ArrayNext(h, id)
      [] self.kind = "range"     -> RangeNext(h, id)
      [] self.kind = "count"     -> Out([h EXCEPT ![id].n = @ + 1], self.n)
      [] self.kind = "repeat"    -> RepeatNext(h, id)
      [] self.kind = "cycle"     -> CycleNext(h, id)
      [] self.kind = "izip"      -> NextAll(h, self.of, <<>>)
      [] self.kind = "imap"      -> MapNext(h, id)
      [] self.kind = "filter"    -> Pull(h, self.of, self.pred, TRUE)
      [] self.kind = "filterfalse" -> Pull(h, self.of, self.pred, FALSE)
      [] self.kind = "islice"    -> Slice(h, id, <<>>)
      [] self.kind = "chain"     -> ChainNext(h, id)
      [] self.kind = "takewhile" -> TakeWhileNext(h, id)
      [] self.kind = "dropwhile" -> DropWhileNext(h, id)
      [] self.kind = "tee"       -> Tee(h, id)
      [] self.kind = "groupby"   -> NextGroup(h, id)

-----------------------------------------------------------------------------
(* What takes elements until the end, or until it knows. *)

RECURSIVE Drain(_, _, _)
Drain(h, id, taken) ==
    LET r == NextOf(h, id) IN
    IF r.out = <<>> THEN [heap |-> r.heap, taken |-> taken]
    ELSE Drain(r.heap, id, taken \o r.out)

\* some and every: all is taken up to the first that is, or is not, of the set.
Search(h, id, set, in) ==
    LET r == Pull(h, id, set, in) IN [heap |-> r.heap, found |-> r.out # <<>>]

\* groupby_as_array: a new group where the key differs from the one before.
GroupArray(s) ==
    FoldLeft(LAMBDA gs, x : IF gs = <<>> \/ gs[Len(gs)][1] # x THEN Append(gs, <<x, <<x>>>>)
                            ELSE [gs EXCEPT ![Len(gs)][2] = Append(@, x)], <<>>, s)

-----------------------------------------------------------------------------
Sources(it) ==
    IF "of" \in DOMAIN it
    THEN IF it.kind \in {"izip", "imap", "chain"} THEN Range(it.of) ELSE {it.of}
    ELSE IF it.kind = "tee" THEN {it.sync} ELSE {}
\* Those the page holds: it gives up what it builds others from.
Held == {id \in DOMAIN built : /\ built[id].kind # "sync"
                               /\ \A j \in DOMAIN built : id \notin Sources(built[j])}
Finite(id) == built[id].kind \notin {"count", "cycle", "groupby"}
Pulls == FoldLeft(LAMBDA n, g : n + Len(g), 0, got)

Init ==
    /\ built \in Builds
    /\ iters = built
    /\ got = [id \in DOMAIN built |-> <<>>]
    /\ ended = {}
    /\ groups = <<>>
    /\ answer = NoAnswer
    /\ stale = FALSE

\* The page asks one of its iterators.
Asked(id, r) ==
    /\ iters' = r.heap
    /\ got' = [got EXCEPT ![id] = @ \o r.out]
    /\ ended' = IF r.out = <<>> THEN ended \union {id} ELSE ended
    /\ groups' = IF built[id].kind = "groupby" /\ r.out # <<>>
                 THEN Append(groups, <<r.out[1], <<>>>>) ELSE groups
PageNext(id) ==
    /\ Pulls < MaxPulls
    /\ Asked(id, NextOf(iters, id))
    /\ UNCHANGED <<built, answer, stale>>

\* The page asks the j-th group of groupby id.
PageGroup(id, j) ==
    /\ built[id].kind = "groupby"
    /\ j \in DOMAIN groups
    /\ Pulls < MaxPulls
    /\ LET r == NextInGroup(iters, id) IN
       /\ iters' = r.heap
       /\ groups' = [groups EXCEPT ![j][2] = @ \o r.out]
       /\ stale' = (stale \/ j < Len(groups))
    /\ UNCHANGED <<built, got, ended, answer>>

\* list, iextend, sum, exhaust, forEach, reduce, reversed: all that is left is taken.
Listed(id, r) ==
    /\ iters' = r.heap
    /\ got' = [got EXCEPT ![id] = @ \o r.taken]
    /\ answer' = <<"groups", r.taken, GroupArray(r.taken)>>
PageList(id) ==
    /\ Finite(id)
    /\ Listed(id, Drain(iters, id, <<>>))
    /\ ended' = ended \union {id}
    /\ UNCHANGED <<built, groups, stale>>

\* some, or every, of what is left; the answer has what was left.
Searched(id, set, in, left, r) ==
    LET over == Drain(r.heap, id, <<>>).taken IN
    /\ iters' = r.heap
    /\ got' = [got EXCEPT ![id] = @ \o SubSeq(left, 1, Len(left) - Len(over))]
    /\ answer' = <<IF in THEN "some" ELSE "notEvery", left, <<r.found, set>>>>
PageSearch(id, set, in) ==
    /\ Finite(id)
    /\ answer = NoAnswer
    /\ built[id].kind \notin {"izip", "tee"}
    /\ Searched(id, set, in, Drain(iters, id, <<>>).taken, Search(iters, id, set, in))
    /\ UNCHANGED <<built, ended, groups, stale>>

Next ==
    \/ \E id \in Held : PageNext(id)
    \/ \E id \in Held, j \in 1 .. MaxPulls : PageGroup(id, j)
    \/ \E id \in Held : PageList(id)
    \/ \E id \in Held, set \in {{0}, {0, 2}}, in \in BOOLEAN : PageSearch(id, set, in)

-----------------------------------------------------------------------------
(* The sequences the iterators stand for, up to an element that is never asked for. *)

TakeWhile(s, set) == SubSeq(s, 1, CHOOSE n \in 0 .. Len(s) :
                        /\ \A i \in 1 .. n : s[i] \in set
                        /\ n < Len(s) => s[n + 1] \notin set)

RECURSIVE Stands(_)
Stands(id) ==
    LET it   == built[id]
        Each  == [i \in DOMAIN it.of |-> Stands(it.of[i])]
        Zipped  == [n \in 1 .. CHOOSE n \in 0 .. MaxPulls + 1 :
                              /\ \A i \in DOMAIN it.of : n <= Len(Each[i])
                              /\ n = MaxPulls + 1 \/ \E i \in DOMAIN it.of : n = Len(Each[i])
                   |-> [i \in DOMAIN it.of |-> Each[i][n]]]
        s    == Stands(it.of)
        Pick == {i \in DOMAIN s : /\ i > it.start /\ i <= it.stop
                                  /\ (i - it.start - 1) % it.step = 0}
        Steps == {k \in 0 .. MaxPulls : \/ it.step > 0 /\ it.start + k * it.step < it.stop
                                        \/ it.step < 0 /\ it.start + k * it.step > it.stop}
    IN  CASE it.kind = "array"     -> it.list
          [] it.kind = "range"     -> [n \in 1 .. Cardinality(Steps) |-> it.start + (n - 1) * it.step]
          [] it.kind = "count"     -> [n \in 1 .. MaxPulls + 1 |-> it.n + n - 1]
          [] it.kind = "repeat"    -> [n \in 1 .. it.n |-> it.elem]
          [] it.kind = "cycle"     -> IF s = <<>> THEN <<>>
                                      ELSE [n \in 1 .. MaxPulls + 1 |-> s[((n - 1) % Len(s)) + 1]]
          [] it.kind = "izip"      -> Zipped
          [] it.kind = "imap"      -> [n \in DOMAIN Zipped |-> Apply(it.fun, Zipped[n])]
          [] it.kind = "filter"      -> SelectSeq(s, LAMBDA v : v \in it.pred)
          [] it.kind = "filterfalse" -> SelectSeq(s, LAMBDA v : v \notin it.pred)
          [] it.kind = "islice"    -> [n \in 1 .. Cardinality(Pick) |->
                                          s[it.start + 1 + (n - 1) * it.step]]
          [] it.kind = "chain"     -> FlattenSeq(Each)
          [] it.kind = "takewhile" -> TakeWhile(s, it.pred)
          [] it.kind = "dropwhile" -> SubSeq(s, Len(TakeWhile(s, it.pred)) + 1, Len(s))
          [] it.kind = "tee"       -> Stands(built[it.sync].of)
          [] it.kind = "groupby"   -> [i \in DOMAIN GroupArray([j \in DOMAIN s |-> it.key[s[j]]])
                                        |-> GroupArray([j \in DOMAIN s |-> it.key[s[j]]])[i][1]]

-----------------------------------------------------------------------------
(* Properties. *)

\* Lines 907 to 1463: whatever the order in which the page asks its iterators, each
\* gives the elements of the sequence it stands for, in order, and ends when, and
\* only when, all are given.
YieldsPromised ==
    \A id \in Held :
        /\ IsPrefix(got[id], Stands(id))
        /\ id \in ended => Len(got[id]) >= Len(Stands(id))

\* tee, lines 1145 to 1182: what is kept are the elements that one of the iterators has
\* read and another has not.
TeeKeepsUnread ==
    \A id \in DOMAIN iters :
        iters[id].kind = "sync" =>
            LET s == iters[id] IN
            /\ \A j \in DOMAIN s.pos : s.pos[j] \in s.min .. s.max
            /\ \E j \in DOMAIN s.pos : s.pos[j] = s.min
            /\ \E j \in DOMAIN s.pos : s.pos[j] = s.max
            /\ s.deque = SubSeq(Stands(built[id].of), s.min + 2, s.max + 1)

\* groupby, lines 1370 to 1411: as long as the page asks no group but the newest, each
\* group gives elements of its own run, in order and none twice.
GroupsExact ==
    \A id \in Held :
        built[id].kind = "groupby" /\ ~stale =>
            LET s    == Stands(built[id].of)
                keys == [j \in DOMAIN s |-> built[id].key[s[j]]]
                From(n) == CHOOSE i \in DOMAIN s :
                             Len(GroupArray(SubSeq(keys, 1, i))) = n
                             /\ (i = 1 \/ keys[i] # keys[i - 1])
                Run(n) == SubSeq(s, From(n), From(n) - 1 + Len(GroupArray(keys)[n][2]))
            IN  \A j \in DOMAIN groups : IsPrefix(groups[j][2], Run(j))

\* some and every, lines 1315 to 1350, and groupby_as_array, line 1411: the answer is
\* that of the elements that were left, in groups that leave none out.
AnswerRight ==
    LET taken == answer[2]
        given == answer[3]
    IN  /\ answer[1] = "some" => given[1] = (Range(taken) \intersect given[2] # {})
        /\ answer[1] = "notEvery" => given[1] = (Range(taken) \ given[2] # {})
        /\ answer[1] = "groups" =>
             /\ FlattenSeq([g \in DOMAIN given |-> given[g][2]]) = taken
             /\ \A g \in DOMAIN given : /\ Range(given[g][2]) = {given[g][1]}
                                        /\ g > 1 => given[g][1] # given[g - 1][1]

\* What is given one at a time, and what is given of all that is left.
IteratorsExact == YieldsPromised /\ TeeKeepsUnread
AnswersExact == GroupsExact /\ AnswerRight
=============================================================================
