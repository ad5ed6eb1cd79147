---------------------------- MODULE PrettyCharset ----------------------------
(***************************************************************************)
(* caseFoldCharset of prettify.js: the union of patterns, some of which    *)
(* mind the case of letters, is matched by one pattern that minds it, so   *)
(* a character set of one that does not is rewritten to hold both cases.   *)
(* Characters are their codes, a character set is a sequence of ranges.    *)
(***************************************************************************)
EXTENDS Integers, Sequences

CONSTANTS Charsets,  \* those to rewrite
          Codes      \* the characters to look at

CharRange == {r \in Int \X Int : r[1] <= r[2]}
ASSUME CharsetsAssumption == Charsets \subseteq Seq(CharRange)
ASSUME CodesAssumption == Codes \subseteq Int

Within(c, r) == r[1] <= c /\ c <= r[2]
In(c, list) == \E n \in DOMAIN list : Within(c, list[n])

VARIABLES
    charset,  \* what was given
    part,     \* the next range of it
    found,    \* the range last taken and its other cases, not yet among the ranges
    ranges,   \* the ranges, in the order that sort gives them
    next,     \* the next of them to consolidate
    consolidatedRanges
charsetVars == <<charset, part, found, ranges, next, consolidatedRanges>>

Upper == 65 .. 90
Lower == 97 .. 122
\* & ~32 and | 32 of a letter.
ToUpper(c) == IF c \in Lower THEN c - 32 ELSE c
ToLower(c) == IF c \in Upper THEN c + 32 ELSE c

Larger(a, b) == IF a >= b THEN a ELSE b
Smaller(a, b) == IF a <= b THEN a ELSE b

\* The range and, where it meets letters, those of the other case.
Upwards(start, end) ==
    IF end < 65 \/ start > 90 THEN <<>>
    ELSE << <<ToLower(Larger(65, start)), ToLower(Smaller(end, 90))>> >>
Downwards(start, end) ==
    IF end < 97 \/ start > 122 THEN <<>>
    ELSE << <<ToUpper(Larger(97, start)), ToUpper(Smaller(end, 122))>> >>
\* (Mutant: capitals are left as they are.)
FoldedLower(start, end) == << <<start, end>> >> \o Downwards(start, end)
Folded(start, end) == << <<start, end>> >> \o Upwards(start, end) \o Downwards(start, end)

CharsetInit ==
    /\ charset \in Charsets
    /\ part = 1
    /\ found = <<>>
    /\ ranges = <<>>
    /\ next = 1
    /\ consolidatedRanges = <<>>

\* The loop over the parts of the set.
FoldPart ==
    /\ found = <<>>
    /\ part <= Len(charset)
    /\ part' = part + 1
    /\ found' = Folded(charset[part][1], charset[part][2])
    /\ UNCHANGED <<charset, ranges, next, consolidatedRanges>>

\* The first number decides, and then the larger second.
Before(a, b) == a[1] < b[1] \/ (a[1] = b[1] /\ a[2] > b[2])

\* What is found goes where sort will have it: after the n that it is not before.
Sort ==
    /\ found # <<>>
    /\ \E n \in 0 .. Len(ranges) :
         /\ n > 0 => ~Before(Head(found), ranges[n])
         /\ n < Len(ranges) => Before(Head(found), ranges[n + 1])
         /\ ranges' = [j \in 1 .. Len(ranges) + 1 |->
                         IF j <= n THEN ranges[j]
                         ELSE IF j = n + 1 THEN Head(found) ELSE ranges[j - 1]]
    /\ found' = Tail(found)
    /\ UNCHANGED <<charset, part, next, consolidatedRanges>>

\* One that begins in the last one, or right after it, makes that longer.
\* (Mutant: the last one is cut to the end of the next.)
JoinedShort(done, range) ==
    LET n == Len(done) IN
    IF n > 0 /\ range[1] <= done[n][2] + 1 THEN [done EXCEPT ![n][2] = range[2]]
    ELSE Append(done, range)
Joined(done, range) ==
    LET n == Len(done) IN
    IF n > 0 /\ range[1] <= done[n][2] + 1
    THEN [done EXCEPT ![n][2] = Larger(@, range[2])]
    ELSE Append(done, range)

Consolidate ==
    /\ found = <<>>
    /\ part > Len(charset)
    /\ next <= Len(ranges)
    /\ consolidatedRanges' = Joined(consolidatedRanges, ranges[next])
    /\ next' = next + 1
    /\ UNCHANGED <<charset, part, found, ranges>>

CharsetNext == FoldPart \/ Sort \/ Consolidate

CharsetSpec == CharsetInit /\ [][CharsetNext]_charsetVars

-----------------------------------------------------------------------------
FoldWithin(c, r) == Within(c, r) \/ Within(ToUpper(c), r) \/ Within(ToLower(c), r)

\* Lines 373 to 416: the rewritten set has a character if the given one has it in either
\* case, and no other; its ranges are in order, with a gap between any two.
CharsetExact ==
    found = <<>> /\ part > Len(charset) /\ next > Len(ranges) =>
        /\ \A c \in Codes : In(c, consolidatedRanges)
                            <=> \E n \in DOMAIN charset : FoldWithin(c, charset[n])
        /\ \A m, n \in DOMAIN consolidatedRanges :
               m < n => consolidatedRanges[m][2] + 1 < consolidatedRanges[n][1]
=============================================================================
