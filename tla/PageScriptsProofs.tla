-------------------------- MODULE PageScriptsProofs -------------------------
(***************************************************************************)
(* Proofs about the scripts of the console's own pages: the handlers and   *)
(* classes of common.js and css.js, for every number of them; the sorting  *)
(* of tables, for every number of tables, rows and columns; and the case   *)
(* folding of prettify's character sets, whatever the codes.               *)
(***************************************************************************)
EXTENDS ConsoleScripts, TableSorting, PrettyCharset, FiniteSetTheorems, SequenceTheorems,
        WellFoundedInduction, TLAPS

LEMMA EmptyDomain == DOMAIN <<>> = {}
OBVIOUS

LEMMA RangeOfAppend ==
    ASSUME NEW S, NEW s \in Seq(S), NEW e \in S
    PROVE  Range(Append(s, e)) = Range(s) \union {e}
<1>1. /\ Len(Append(s, e)) = Len(s) + 1 /\ DOMAIN Append(s, e) = 1 .. Len(s) + 1
      /\ Append(s, e)[Len(s) + 1] = e /\ \A i \in 1 .. Len(s) : Append(s, e)[i] = s[i]
      /\ DOMAIN s = 1 .. Len(s) /\ Len(s) \in Nat
  BY LenProperties, AppendProperties
<1>2. 1 .. Len(s) + 1 = 1 .. Len(s) \union {Len(s) + 1}
  BY <1>1
<1> QED BY <1>1, <1>2 DEF Range

LEMMA InjectiveAppend ==
    ASSUME NEW S, NEW s \in Seq(S), NEW e \in S, IsInjective(s), e \notin Range(s)
    PROVE  IsInjective(Append(s, e))
<1>1. /\ Len(Append(s, e)) = Len(s) + 1 /\ DOMAIN Append(s, e) = 1 .. Len(s) + 1
      /\ Append(s, e)[Len(s) + 1] = e /\ \A i \in 1 .. Len(s) : Append(s, e)[i] = s[i]
      /\ DOMAIN s = 1 .. Len(s) /\ Len(s) \in Nat
  BY LenProperties, AppendProperties
<1>2. \A i \in 1 .. Len(s) : s[i] # e
  BY <1>1 DEF Range
<1>3. \A i, j \in 1 .. Len(s) : s[i] = s[j] => i = j
  BY <1>1 DEF IsInjective
<1> QED BY <1>1, <1>2, <1>3 DEF IsInjective

-----------------------------------------------------------------------------
(* common.js: the handlers of an element.                                  *)

Handlers == ScriptHandler \union {"page"}

NumberOf(x) == IF x = "page" THEN 0 ELSE guid[x]

EventLoop ==
    [type : EventType \union {"none"}, over : BOOLEAN, left : SUBSET Nat, who : Seq(Handlers),
     before : SUBSET Handlers, came : SUBSET Handlers, gone : SUBSET Handlers]

Tables == UNION {[numbers -> Handlers] : numbers \in SUBSET Nat}

HandlersType ==
    /\ on \in [EventType -> {"", "page", "handleEvent"}]
    /\ guid \in [ScriptHandler -> Nat]
    /\ nextGuid \in Nat \ {0}
    /\ added \in [EventType -> SUBSET Handlers]
    /\ events \in [EventType -> Tables]
    /\ handling \in EventLoop

\* A handler has its number alone, from when it is first added.
GuidsExact ==
    /\ \A h \in ScriptHandler : guid[h] < nextGuid
    /\ \A h, g \in ScriptHandler : guid[h] = guid[g] /\ guid[h] # 0 => h = g

\* A table has each handler at its number, and those that were added and not removed.
TablesExact ==
    /\ \A t \in EventType : \A i \in DOMAIN events[t] :
          NumberOf(events[t][i]) = i /\ (events[t][i] # "page" => i # 0)
    /\ \A t \in EventType :
          IF on[t] = "handleEvent" THEN Range(events[t]) = added[t]
          ELSE DOMAIN events[t] = {} /\ added[t] = IF on[t] = "page" THEN {"page"} ELSE {}

\* The loop: what is left is in the table, was there or came, and did not run; and it has all
\* that were there, but for those that ran or were removed.
LoopExact ==
    LET table == events[handling.type] IN
    ~handling.over =>
        /\ handling.type \in EventType
        /\ on[handling.type] = "handleEvent"
        /\ handling.left \subseteq DOMAIN table
        /\ \A i \in handling.left : table[i] \in handling.before \union handling.came
        /\ \A x \in Range(handling.who) :
              NumberOf(x) \notin handling.left /\ (x # "page" => guid[x] # 0)
        /\ \A x \in handling.before \ (handling.gone \union Range(handling.who)) :
              NumberOf(x) \in handling.left /\ table[NumberOf(x)] = x

RanExact ==
    /\ IsInjective(handling.who)
    /\ Range(handling.who) \subseteq handling.before \union handling.came
    /\ handling.over =>
          handling.left = {} /\ handling.before \subseteq Range(handling.who) \union handling.gone

HandlersInv == HandlersType /\ GuidsExact /\ TablesExact /\ LoopExact /\ RanExact

\* No event is like one that is over.
LEMMA NoEventExact ==
    /\ NoEvent \in EventLoop
    /\ NoEvent.over /\ NoEvent.left = {}
    /\ IsInjective(NoEvent.who) /\ Range(NoEvent.who) = {} /\ NoEvent.before = {}
<1>1. /\ NoEvent.over /\ NoEvent.who = <<>> /\ NoEvent.before = {} /\ NoEvent.type = "none"
      /\ NoEvent.left = {} /\ NoEvent.came = {} /\ NoEvent.gone = {}
  BY DEF NoEvent
<1>2. NoEvent \in EventLoop
  <2>1. <<>> \in Seq(Handlers)
    OBVIOUS
  <2>2. /\ "none" \in EventType \union {"none"} /\ TRUE \in BOOLEAN /\ {} \in SUBSET Nat
        /\ {} \in SUBSET Handlers
    OBVIOUS
  <2> QED BY <2>1, <2>2 DEF NoEvent, EventLoop
<1> QED BY <1>1, <1>2, EmptyDomain DEF IsInjective, Range

LEMMA HandlersInitially == ScriptsInit => HandlersInv
<1> SUFFICES ASSUME ScriptsInit PROVE HandlersInv
  OBVIOUS
<1>a. on \in [EventType -> {"", "page"}]
  BY DEF ScriptsInit
<1>b. events = [t \in EventType |-> <<>>] /\ DOMAIN <<>> = {}
  BY EmptyDomain DEF ScriptsInit
<1>c. guid = [h \in ScriptHandler |-> 0] /\ nextGuid = 1
  BY DEF ScriptsInit
<1>d. added = [t \in EventType |-> IF on[t] = "page" THEN {"page"} ELSE {}]
  BY DEF ScriptsInit
<1>e. handling = NoEvent
  BY DEF ScriptsInit
<1>1. HandlersType
  <2>1. <<>> \in [{} -> Handlers] /\ <<>> \in Seq(Handlers)
    OBVIOUS
  <2>2. events \in [EventType -> Tables]
    <3>1. {} \in SUBSET Nat
      OBVIOUS
    <3>2. <<>> \in Tables
      BY <2>1, <3>1 DEF Tables
    <3> QED BY <3>2, <1>b
  <2>3. added \in [EventType -> SUBSET Handlers]
    BY <1>d DEF Handlers
  <2>4. handling \in EventLoop
    BY <1>e, NoEventExact
  <2>5. on \in [EventType -> {"", "page", "handleEvent"}]
    BY <1>a
  <2>6. guid \in [ScriptHandler -> Nat] /\ nextGuid \in Nat \ {0}
    BY <1>c
  <2> QED BY <2>2, <2>3, <2>4, <2>5, <2>6 DEF HandlersType
<1>2. GuidsExact
  BY <1>c DEF GuidsExact
<1>3. TablesExact
  BY <1>a, <1>b, <1>d DEF TablesExact
<1>4. LoopExact /\ RanExact
  BY <1>e, NoEventExact DEF LoopExact, RanExact
<1> QED BY <1>1, <1>2, <1>3, <1>4 DEF HandlersInv

LEMMA TableType ==
    ASSUME HandlersType, NEW t \in EventType
    PROVE  /\ DOMAIN events[t] \in SUBSET Nat
           /\ \A i \in DOMAIN events[t] : events[t][i] \in Handlers
<1>1. events[t] \in Tables
  BY DEF HandlersType
<1>2. PICK numbers \in SUBSET Nat : events[t] \in [numbers -> Handlers]
  BY <1>1 DEF Tables
<1> QED BY <1>2

LEMMA LoopType ==
    ASSUME HandlersType
    PROVE  /\ handling.type \in EventType \union {"none"} /\ handling.over \in BOOLEAN
           /\ handling.left \in SUBSET Nat /\ handling.who \in Seq(Handlers)
           /\ handling.before \in SUBSET Handlers /\ handling.came \in SUBSET Handlers
           /\ handling.gone \in SUBSET Handlers
BY DEF HandlersType, EventLoop

\* What addEvent does to the table of its type, and to the numbers.
LEMMA AddedToTable ==
    ASSUME HandlersInv, NEW t \in EventType, NEW h \in ScriptHandler, addEvent(t, h)
    PROVE  /\ \A g \in ScriptHandler : g # h => guid'[g] = guid[g]
           /\ guid'[h] = Number(h) /\ Number(h) \in Nat \ {0}
           /\ guid[h] # 0 => guid'[h] = guid[h]
           /\ guid[h] = 0 => guid'[h] = nextGuid
           /\ guid' \in [ScriptHandler -> Nat]
           /\ nextGuid' \in Nat \ {0}
           /\ \A g \in ScriptHandler : guid'[g] < nextGuid'
           /\ nextGuid <= nextGuid'
<1>1. /\ guid \in [ScriptHandler -> Nat] /\ nextGuid \in Nat \ {0}
      /\ \A g \in ScriptHandler : guid[g] < nextGuid
  BY DEF HandlersInv, HandlersType, GuidsExact
<1>2. /\ guid' = [guid EXCEPT ![h] = Number(h)]
      /\ nextGuid' = IF Number(h) = nextGuid THEN nextGuid + 1 ELSE nextGuid
  BY DEF addEvent
<1>3. Number(h) \in Nat \ {0} /\ (Number(h) = nextGuid \/ Number(h) < nextGuid)
      /\ (guid[h] # 0 => Number(h) = guid[h]) /\ (guid[h] = 0 => Number(h) = nextGuid)
  BY <1>1 DEF Number
<1>4. /\ \A g \in ScriptHandler : guid'[g] = IF g = h THEN Number(h) ELSE guid[g]
      /\ guid' \in [ScriptHandler -> Nat]
  BY <1>1, <1>2, <1>3
<1>5. nextGuid' \in Nat \ {0} /\ Number(h) < nextGuid' /\ nextGuid <= nextGuid'
  BY <1>1, <1>2, <1>3
<1>6. \A g \in ScriptHandler : guid'[g] < nextGuid'
  BY <1>1, <1>4, <1>5
<1> QED BY <1>3, <1>4, <1>5, <1>6

\* The tables after an addEvent.
LEMMA TablesAfterAdd ==
    ASSUME HandlersInv, NEW t \in EventType, NEW h \in ScriptHandler, addEvent(t, h)
    PROVE  /\ events' \in [EventType -> Tables]
           /\ \A s \in EventType : s # t => events'[s] = events[s]
           /\ DOMAIN events'[t] =
                DOMAIN events[t] \union (IF on[t] = "page" THEN {0} ELSE {}) \union {Number(h)}
           /\ events'[t][Number(h)] = h
           /\ \A i \in DOMAIN events[t] \ {Number(h)} : events'[t][i] = events[t][i]
           /\ on[t] = "page" => events'[t][0] = "page"
<1> DEFINE n     == Number(h)
           first == IF on[t] = "page" THEN {0} ELSE {}
           has   == DOMAIN events[t] \union first \union {n}
           new   == [i \in has |-> IF i = n THEN h ELSE IF i \in first THEN "page" ELSE events[t][i]]
<1>1. events' = [events EXCEPT ![t] = new]
  BY DEF addEvent
<1>2. n \in Nat \ {0}
  BY AddedToTable
<1>3. /\ DOMAIN events[t] \in SUBSET Nat
      /\ \A i \in DOMAIN events[t] : events[t][i] \in Handlers
  BY TableType DEF HandlersInv
<1>4. on[t] = "page" => DOMAIN events[t] = {}
  BY DEF HandlersInv, TablesExact
<1>5. has \in SUBSET Nat
  BY <1>2, <1>3
<1>6. \A i \in has : new[i] \in Handlers
  BY <1>3 DEF Handlers
<1>7. new \in Tables
  <2>1. new \in [has -> Handlers]
    <3> HIDE DEF has, first, n
    <3> QED BY <1>6
  <2> HIDE DEF new, has
  <2> QED BY <1>5, <2>1 DEF Tables
<1>8. events \in [EventType -> Tables]
  BY DEF HandlersInv, HandlersType
<1>9. events' \in [EventType -> Tables] /\ events'[t] = new
      /\ \A s \in EventType : s # t => events'[s] = events[s]
  <2> HIDE DEF new
  <2> QED BY <1>1, <1>7, <1>8
<1>10. DOMAIN new = has /\ new[n] = h
       /\ \A i \in DOMAIN events[t] \ {n} : new[i] = events[t][i]
  BY <1>4
<1>11. on[t] = "page" => new[0] = "page"
  BY <1>2
<1> QED BY <1>9, <1>10, <1>11

LEMMA AddKeepsNumbers ==
    ASSUME HandlersInv, NEW t \in EventType, NEW h \in ScriptHandler, addEvent(t, h)
    PROVE  GuidsExact' /\ TablesExact'
<1>1. GuidsExact'
  <2> SUFFICES ASSUME NEW f \in ScriptHandler, NEW g \in ScriptHandler, f # g,
                      guid'[f] = guid'[g], guid'[f] # 0
               PROVE FALSE
    BY AddedToTable DEF GuidsExact
  <2>1. /\ \A x, y \in ScriptHandler : guid[x] = guid[y] /\ guid[x] # 0 => x = y
        /\ \A x \in ScriptHandler : guid[x] < nextGuid
        /\ guid \in [ScriptHandler -> Nat] /\ nextGuid \in Nat
    BY DEF HandlersInv, GuidsExact, HandlersType
  <2> QED BY <2>1, AddedToTable
<1>2. ASSUME NEW s \in EventType, NEW i \in DOMAIN events'[s]
      PROVE  /\ i = IF events'[s][i] = "page" THEN 0 ELSE guid'[events'[s][i]]
             /\ events'[s][i] # "page" => i # 0
  <2> DEFINE IsAt(x, j, numbers) == j = (IF x = "page" THEN 0 ELSE numbers[x]) /\ (x # "page" => j # 0)
  <2>1. \A u \in EventType : \A j \in DOMAIN events[u] : IsAt(events[u][j], j, guid)
    BY DEF HandlersInv, TablesExact, NumberOf
  <2>2. \A u \in EventType : \A j \in DOMAIN events[u] : IsAt(events[u][j], j, guid')
    <3> SUFFICES ASSUME NEW u \in EventType, NEW j \in DOMAIN events[u]
                 PROVE IsAt(events[u][j], j, guid')
      OBVIOUS
    <3>1. events[u][j] \in Handlers
      BY TableType DEF HandlersInv
    <3>2. CASE events[u][j] = "page"
      BY <2>1, <3>2
    <3>3. CASE events[u][j] # "page"
      <4>1. events[u][j] \in ScriptHandler /\ guid[events[u][j]] # 0 /\ guid[events[u][j]] = j
        BY <2>1, <3>1, <3>3 DEF Handlers
      <4>2. guid'[events[u][j]] = guid[events[u][j]]
        BY <4>1, AddedToTable
      <4> QED BY <3>3, <4>1, <4>2
    <3> QED BY <3>2, <3>3
  <2>3. CASE s # t
    BY <2>2, <2>3, TablesAfterAdd
  <2>4. CASE s = t /\ i = Number(h)
    BY <2>4, TablesAfterAdd, AddedToTable, ScriptHandlerAssumption
  <2>5. CASE s = t /\ i # Number(h) /\ i \in DOMAIN events[t]
    BY <2>2, <2>5, TablesAfterAdd
  <2>6. CASE s = t /\ i # Number(h) /\ i \notin DOMAIN events[t]
    BY <2>6, TablesAfterAdd
  <2> QED BY <2>3, <2>4, <2>5, <2>6
<1>3. ASSUME NEW s \in EventType
      PROVE IF on'[s] = "handleEvent" THEN Range(events'[s]) = added'[s]
            ELSE DOMAIN events'[s] = {} /\ added'[s] = IF on'[s] = "page" THEN {"page"} ELSE {}
  <2>1. /\ on' = [on EXCEPT ![t] = "handleEvent"] /\ added' = [added EXCEPT ![t] = @ \union {h}]
        /\ on \in [EventType -> {"", "page", "handleEvent"}]
        /\ added \in [EventType -> SUBSET Handlers]
    BY DEF addEvent, HandlersInv, HandlersType
  <2>2. IF on[s] = "handleEvent" THEN Range(events[s]) = added[s]
        ELSE DOMAIN events[s] = {} /\ added[s] = IF on[s] = "page" THEN {"page"} ELSE {}
    BY DEF HandlersInv, TablesExact
  <2>3. CASE s # t
    BY <2>1, <2>2, <2>3, TablesAfterAdd
  <2>4. CASE s = t
    <3>1. on'[s] = "handleEvent" /\ added'[s] = added[s] \union {h}
      BY <2>1, <2>4
    <3>2. Range(events'[t]) = added[t] \union {h}
      <4>1. CASE on[t] = "handleEvent"
        <5>1. DOMAIN events'[t] = DOMAIN events[t] \union {Number(h)}
          BY <4>1, TablesAfterAdd
        <5>2. Number(h) \in DOMAIN events[t] => events[t][Number(h)] = h
          <6>1. ASSUME Number(h) \in DOMAIN events[t] PROVE events[t][Number(h)] = h
            <7> DEFINE x == events[t][Number(h)]
            <7>1. x \in Handlers /\ NumberOf(x) = Number(h) /\ Number(h) # 0
              BY <6>1, TableType, AddedToTable DEF HandlersInv, TablesExact
            <7>2. x \in ScriptHandler /\ guid[x] = Number(h)
              BY <7>1 DEF NumberOf, Handlers
            <7>3. guid[x] < nextGuid /\ guid[x] \in Nat /\ nextGuid \in Nat
              BY <7>2 DEF HandlersInv, GuidsExact, HandlersType
            <7>4. guid[h] = guid[x] /\ guid[x] # 0
              BY <7>1, <7>2, <7>3 DEF Number
            <7> QED BY <7>2, <7>4 DEF HandlersInv, GuidsExact
          <6> QED BY <6>1
        <5>3. \A y : y \in Range(events'[t]) <=> y \in Range(events[t]) \union {h}
          BY <5>1, <5>2, TablesAfterAdd DEF Range
        <5> QED BY <2>2, <2>4, <4>1, <5>3
      <4>2. CASE on[t] = "page"
        <5>1. DOMAIN events'[t] = {0, Number(h)} /\ events'[t][0] = "page" /\ events'[t][Number(h)] = h
          BY <2>2, <2>4, <4>2, TablesAfterAdd
        <5>2. added[t] = {"page"}
          BY <2>2, <2>4, <4>2
        <5> QED BY <5>1, <5>2 DEF Range
      <4>3. CASE on[t] # "handleEvent" /\ on[t] # "page"
        <5>1. DOMAIN events'[t] = {Number(h)} /\ events'[t][Number(h)] = h
          BY <2>2, <2>4, <4>3, TablesAfterAdd
        <5>2. added[t] = {}
          BY <2>2, <2>4, <4>3
        <5> QED BY <5>1, <5>2 DEF Range
      <4> QED BY <4>1, <4>2, <4>3
    <3> QED BY <2>4, <3>1, <3>2
  <2> QED BY <2>3, <2>4
<1> QED BY <1>1, <1>2, <1>3 DEF TablesExact, NumberOf

\* What addEvent does to the loop: the numbers of those that ran stay theirs.
LEMMA AddKeepsLoop ==
    ASSUME HandlersInv, NEW t \in EventType, NEW h \in ScriptHandler, addEvent(t, h),
           ~handling.over
    PROVE  handling' \in EventLoop /\ LoopExact' /\ RanExact'
<1> DEFINE T == handling.type
           n == Number(h)
<1>0. /\ T \in EventType /\ on[T] = "handleEvent"
      /\ handling.left \subseteq DOMAIN events[T]
      /\ \A i \in handling.left : events[T][i] \in handling.before \union handling.came
      /\ \A x \in Range(handling.who) :
            NumberOf(x) \notin handling.left /\ (x # "page" => guid[x] # 0)
      /\ \A x \in handling.before \ (handling.gone \union Range(handling.who)) :
            NumberOf(x) \in handling.left /\ events[T][NumberOf(x)] = x
  BY DEF HandlersInv, LoopExact
<1>1. handling \in EventLoop
  BY DEF HandlersInv, HandlersType
<1>2. n \in Nat \ {0} /\ guid'[h] = n
  BY AddedToTable
<1>3. Range(handling.who) \subseteq Handlers
  BY LoopType, LenProperties DEF HandlersInv, Range
<1>4. PICK new \in SUBSET {n} :
        /\ h \in Range(handling.who) => new = {}
        /\ T # t => new = {} /\ handling' = handling
        /\ T = t => handling' = [handling EXCEPT !.left = @ \union new, !.came = @ \union {h}]
  <2>1. CASE T # t
    <3>1. handling' = handling
      BY <2>1 DEF addEvent
    <3>2. {} \in SUBSET {n}
      OBVIOUS
    <3> QED BY <2>1, <3>1, <3>2
  <2>2. CASE T = t
    <3>1. \E new \in IF h \in Range(handling.who) THEN {{}} ELSE {{}, {n}} :
             handling' = [handling EXCEPT !.left = @ \union new, !.came = @ \union {h}]
      BY <2>2 DEF addEvent
    <3>2. PICK new \in IF h \in Range(handling.who) THEN {{}} ELSE {{}, {n}} :
             handling' = [handling EXCEPT !.left = @ \union new, !.came = @ \union {h}]
      BY <3>1
    <3>3. new \in SUBSET {n} /\ (h \in Range(handling.who) => new = {})
      OBVIOUS
    <3> QED BY <2>2, <3>2, <3>3
  <2> QED BY <2>1, <2>2
<1>5. /\ handling'.type = T /\ handling'.over = FALSE /\ handling'.who = handling.who
      /\ handling'.before = handling.before /\ handling'.gone = handling.gone
      /\ handling'.left = handling.left \union new
      /\ handling'.came = IF T = t THEN handling.came \union {h} ELSE handling.came
      /\ handling' \in EventLoop
  <2>1. new \in SUBSET Nat
    BY <1>2
  <2>2. h \in Handlers
    BY DEF Handlers
  <2>3. CASE T # t
    BY <1>1, <1>4, <2>3 DEF EventLoop
  <2>4. CASE T = t
    <3>1. /\ handling.left \union new \in SUBSET Nat
          /\ handling.came \union {h} \in SUBSET Handlers
      BY <1>1, <2>1, <2>2 DEF EventLoop
    <3> QED BY <1>1, <1>4, <2>4, <3>1 DEF EventLoop
  <2> QED BY <2>3, <2>4
<1>6. \A x \in Handlers : (x # "page" => guid[x] # 0)
         => (IF x = "page" THEN 0 ELSE guid'[x]) = NumberOf(x) /\ (x # "page" => guid'[x] # 0)
  <2> SUFFICES ASSUME NEW x \in ScriptHandler, guid[x] # 0 PROVE guid'[x] = guid[x]
    BY DEF NumberOf, Handlers
  <2> QED BY AddedToTable
<1>7. on'[T] = "handleEvent"
  BY <1>0 DEF addEvent, HandlersInv, HandlersType
<1>8. handling'.left \subseteq DOMAIN events'[T]
  BY <1>0, <1>4, <1>5, TablesAfterAdd
<1>9. ASSUME NEW i \in handling'.left
      PROVE events'[T][i] \in handling'.before \union handling'.came
  <2>1. CASE T # t
    BY <1>0, <1>4, <1>5, <2>1, <1>9, TablesAfterAdd
  <2>2. CASE T = t /\ i = n
    BY <1>5, <2>2, TablesAfterAdd
  <2>3. CASE T = t /\ i # n
    <3>1. i \in handling.left
      BY <1>4, <1>5, <2>3, <1>9
    <3>2. i \in DOMAIN events[t] \ {n} /\ events[T][i] \in handling.before \union handling.came
      BY <1>0, <2>3, <3>1
    <3>3. events'[T][i] = events[T][i]
      BY <2>3, <3>2, TablesAfterAdd
    <3> QED BY <1>5, <2>3, <3>2, <3>3
  <2> QED BY <2>1, <2>2, <2>3
<1>10. ASSUME NEW x \in Range(handling.who)
       PROVE  /\ (IF x = "page" THEN 0 ELSE guid'[x]) \notin handling'.left
              /\ x # "page" => guid'[x] # 0
  <2>1. x \in Handlers /\ (x # "page" => guid[x] # 0) /\ NumberOf(x) \notin handling.left
    BY <1>0, <1>3
  <2>2. /\ (IF x = "page" THEN 0 ELSE guid'[x]) = NumberOf(x)
        /\ x # "page" => guid'[x] # 0
    BY <1>6, <2>1
  <2>3. NumberOf(x) \notin new
    <3>1. CASE x = h
      BY <1>4, <3>1
    <3>2. CASE x # h
      <4>1. n # NumberOf(x)
        <5>1. CASE x = "page"
          BY <1>2, <5>1 DEF NumberOf
        <5>2. CASE x # "page"
          <6>1. x \in ScriptHandler /\ guid[x] # 0 /\ guid'[x] = guid[x]
            BY <2>1, <3>2, <5>2, AddedToTable DEF Handlers
          <6>2. guid'[x] # guid'[h]
            BY <3>2, <6>1, AddKeepsNumbers DEF GuidsExact
          <6> QED BY <1>2, <5>2, <6>1, <6>2 DEF NumberOf
        <5> QED BY <5>1, <5>2
      <4> QED BY <4>1
    <3> QED BY <3>1, <3>2
  <2> QED BY <1>5, <2>1, <2>2, <2>3
<1>11. ASSUME NEW x \in handling.before \ (handling.gone \union Range(handling.who))
       PROVE  /\ (IF x = "page" THEN 0 ELSE guid'[x]) \in handling'.left
              /\ events'[T][IF x = "page" THEN 0 ELSE guid'[x]] = x
  <2>1. NumberOf(x) \in handling.left /\ events[T][NumberOf(x)] = x /\ x \in Handlers
    BY <1>0, <1>1 DEF EventLoop
  <2>2. x # "page" => guid[x] # 0
    BY <1>0, <2>1 DEF HandlersInv, TablesExact, NumberOf
  <2>3. (IF x = "page" THEN 0 ELSE guid'[x]) = NumberOf(x)
    BY <1>6, <2>1, <2>2
  <2>4. NumberOf(x) \in DOMAIN events[T]
    BY <1>0, <2>1
  <2>5. events'[T][NumberOf(x)] = x
    <3>1. CASE T # t \/ NumberOf(x) # n
      BY <1>0, <2>1, <2>4, <3>1, TablesAfterAdd
    <3>2. CASE T = t /\ NumberOf(x) = n
      <4>1. x # "page" /\ x \in ScriptHandler /\ guid'[x] = n
        BY <1>2, <2>1, <2>3, <3>2 DEF NumberOf, Handlers
      <4>2. x = h
        BY <1>2, <4>1, AddKeepsNumbers DEF GuidsExact
      <4> QED BY <3>2, <4>2, TablesAfterAdd
    <3> QED BY <3>1, <3>2
  <2> QED BY <1>5, <2>1, <2>3, <2>5
<1>12. LoopExact'
  BY <1>0, <1>5, <1>7, <1>8, <1>9, <1>10, <1>11 DEF LoopExact, NumberOf
<1>13. RanExact'
  BY <1>5 DEF HandlersInv, RanExact
<1> QED BY <1>5, <1>12, <1>13

LEMMA AddExact ==
    ASSUME HandlersInv, NEW t \in EventType, NEW h \in ScriptHandler, addEvent(t, h)
    PROVE  HandlersInv'
<1>1. /\ on' \in [EventType -> {"", "page", "handleEvent"}]
      /\ added' \in [EventType -> SUBSET Handlers]
  BY DEF HandlersInv, HandlersType, addEvent, Handlers
<1>2. CASE handling.over
  <2>1. handling' = NoEvent
    BY <1>2 DEF addEvent
  <2>2. handling' \in EventLoop /\ LoopExact' /\ RanExact'
    BY <2>1, NoEventExact DEF LoopExact, RanExact
  <2> QED BY <1>1, <2>2, AddedToTable, TablesAfterAdd, AddKeepsNumbers DEF HandlersInv, HandlersType
<1>3. CASE ~handling.over
  BY <1>1, <1>3, AddKeepsLoop, AddedToTable, TablesAfterAdd, AddKeepsNumbers DEF HandlersInv, HandlersType
<1> QED BY <1>2, <1>3

LEMMA RemoveExact ==
    ASSUME HandlersInv, NEW t \in EventType, NEW h \in ScriptHandler, removeEvent(t, h)
    PROVE  HandlersInv'
<1> DEFINE gone == {guid[h]} \ {0}
           kept == [i \in DOMAIN events[t] \ gone |-> events[t][i]]
<1>1. /\ events' = [events EXCEPT ![t] = kept]
      /\ added' = [added EXCEPT ![t] = @ \ {h}]
      /\ on' = on /\ guid' = guid /\ nextGuid' = nextGuid
  BY DEF removeEvent
<1>2. /\ events \in [EventType -> Tables] /\ added \in [EventType -> SUBSET Handlers]
      /\ guid \in [ScriptHandler -> Nat] /\ on \in [EventType -> {"", "page", "handleEvent"}]
  BY DEF HandlersInv, HandlersType
<1>3. /\ DOMAIN events[t] \in SUBSET Nat
      /\ \A i \in DOMAIN events[t] : events[t][i] \in Handlers
  BY TableType DEF HandlersInv
<1>4. kept \in Tables
  <2> DEFINE has == DOMAIN events[t] \ gone
  <2>1. has \in SUBSET Nat
    BY <1>3
  <2>2. [i \in has |-> events[t][i]] \in [has -> Handlers]
    BY <1>3
  <2> QED BY <2>1, <2>2 DEF Tables
<1>5. /\ events' \in [EventType -> Tables]
      /\ \A s \in EventType : s # t => events'[s] = events[s]
      /\ events'[t] = kept
  <2> HIDE DEF kept
  <2> QED BY <1>1, <1>2, <1>4
<1>6. /\ DOMAIN events'[t] = DOMAIN events[t] \ gone
      /\ \A i \in DOMAIN events[t] \ gone : events'[t][i] = events[t][i]
  BY <1>5
<1>7. added' \in [EventType -> SUBSET Handlers] /\ added'[t] = added[t] \ {h}
      /\ \A s \in EventType : s # t => added'[s] = added[s]
  BY <1>1, <1>2
<1>8. \A s \in EventType : \A i \in DOMAIN events[s] :
         NumberOf(events[s][i]) = i /\ (events[s][i] # "page" => i # 0)
  BY DEF HandlersInv, TablesExact
<1>9. \A i \in DOMAIN events[t] : events[t][i] = h <=> i \in gone
  <2> SUFFICES ASSUME NEW i \in DOMAIN events[t] PROVE events[t][i] = h <=> i \in gone
    OBVIOUS
  <2>1. ASSUME events[t][i] = h PROVE i \in gone
    BY <1>8, <2>1, ScriptHandlerAssumption DEF NumberOf
  <2>2. ASSUME i \in gone PROVE events[t][i] = h
    <3>1. events[t][i] \in ScriptHandler /\ guid[events[t][i]] = guid[h] /\ guid[h] # 0
      BY <1>3, <1>8, <2>2 DEF NumberOf, Handlers
    <3> QED BY <3>1 DEF HandlersInv, GuidsExact
  <2> QED BY <2>1, <2>2
<1>10. TablesExact'
  <2>1. ASSUME NEW s \in EventType, NEW i \in DOMAIN events'[s]
        PROVE (IF events'[s][i] = "page" THEN 0 ELSE guid'[events'[s][i]]) = i
              /\ (events'[s][i] # "page" => i # 0)
    <3>1. i \in DOMAIN events[s] /\ events'[s][i] = events[s][i]
      BY <1>5, <1>6, <2>1
    <3> QED BY <1>1, <1>8, <3>1 DEF NumberOf
  <2>2. ASSUME NEW s \in EventType
        PROVE IF on'[s] = "handleEvent" THEN Range(events'[s]) = added'[s]
              ELSE DOMAIN events'[s] = {} /\ added'[s] = IF on'[s] = "page" THEN {"page"} ELSE {}
    <3>1. IF on[s] = "handleEvent" THEN Range(events[s]) = added[s]
          ELSE DOMAIN events[s] = {} /\ added[s] = IF on[s] = "page" THEN {"page"} ELSE {}
      BY DEF HandlersInv, TablesExact
    <3>2. CASE s # t
      BY <1>1, <1>5, <1>7, <3>1, <3>2
    <3>3. CASE s = t /\ on[s] = "handleEvent"
      <4>1. Range(events'[t]) = Range(events[t]) \ {h}
        BY <1>6, <1>9 DEF Range
      <4> QED BY <1>1, <1>7, <3>1, <3>3, <4>1
    <3>4. CASE s = t /\ on[s] # "handleEvent"
      <4>1. h \notin added[t]
        BY <3>1, <3>4, ScriptHandlerAssumption
      <4> QED BY <1>1, <1>6, <1>7, <3>1, <3>4, <4>1
    <3> QED BY <3>2, <3>3, <3>4
  <2> QED BY <2>1, <2>2 DEF TablesExact, NumberOf
<1>11. handling' \in EventLoop /\ LoopExact' /\ RanExact'
  <2>0. handling \in EventLoop
    BY DEF HandlersInv, HandlersType
  <2>1. CASE handling.over
    <3>1. handling' = NoEvent
      BY <2>1 DEF removeEvent
    <3> QED BY <3>1, NoEventExact DEF LoopExact, RanExact
  <2>2. CASE ~handling.over /\ handling.type # t
    <3>1. handling' = handling
      BY <2>2 DEF removeEvent
    <3>2. events'[handling.type] = events[handling.type]
      BY <1>5, <2>2 DEF HandlersInv, LoopExact
    <3>3. LoopExact'
      BY <1>1, <3>1, <3>2 DEF HandlersInv, LoopExact, NumberOf
    <3>4. RanExact'
      BY <3>1 DEF HandlersInv, RanExact
    <3> QED BY <2>0, <3>1, <3>3, <3>4
  <2>3. CASE ~handling.over /\ handling.type = t
    <3>1. handling' = [handling EXCEPT !.left = @ \ gone, !.gone = @ \union {h}]
      BY <2>3 DEF removeEvent
    <3>2. h \in Handlers
      BY DEF Handlers
    <3>3. /\ handling'.type = t /\ handling'.over = FALSE /\ handling'.who = handling.who
          /\ handling'.before = handling.before /\ handling'.came = handling.came
          /\ handling'.left = handling.left \ gone /\ handling'.gone = handling.gone \union {h}
      BY <2>0, <2>3, <3>1 DEF EventLoop
    <3>4. handling' \in EventLoop
      <4>1. handling.left \ gone \in SUBSET Nat /\ handling.gone \union {h} \in SUBSET Handlers
        BY <2>0, <3>2 DEF EventLoop
      <4> QED BY <2>0, <3>1, <4>1 DEF EventLoop
    <3>5. /\ on[t] = "handleEvent"
          /\ handling.left \subseteq DOMAIN events[t]
          /\ \A i \in handling.left : events[t][i] \in handling.before \union handling.came
          /\ \A x \in Range(handling.who) :
                NumberOf(x) \notin handling.left /\ (x # "page" => guid[x] # 0)
          /\ \A x \in handling.before \ (handling.gone \union Range(handling.who)) :
                NumberOf(x) \in handling.left /\ events[t][NumberOf(x)] = x
      BY <2>3 DEF HandlersInv, LoopExact
    <3>6. handling'.left \subseteq DOMAIN events'[t]
      BY <1>6, <3>3, <3>5
    <3>7. \A i \in handling'.left : events'[t][i] \in handling'.before \union handling'.came
      BY <1>6, <3>3, <3>5
    <3>8. ASSUME NEW x \in handling.before \ (handling'.gone \union Range(handling.who))
          PROVE NumberOf(x) \in handling'.left /\ events'[t][NumberOf(x)] = x
      <4>1. NumberOf(x) \in handling.left /\ events[t][NumberOf(x)] = x /\ x # h
        BY <3>3, <3>5
      <4>2. NumberOf(x) \notin gone
        BY <1>9, <3>5, <4>1
      <4> QED BY <1>6, <3>3, <3>5, <4>1, <4>2
    <3>9. LoopExact'
      <4>1. on' = on /\ guid' = guid
        BY <1>1
      <4>2. \A x \in Range(handling'.who) :
              NumberOf(x)' \notin handling'.left /\ (x # "page" => guid'[x] # 0)
        BY <3>3, <3>5, <4>1 DEF NumberOf
      <4>3. \A x \in handling'.before \ (handling'.gone \union Range(handling'.who)) :
              NumberOf(x)' \in handling'.left /\ events'[t][NumberOf(x)'] = x
        BY <3>3, <3>8, <4>1 DEF NumberOf
      <4> QED BY <2>3, <3>3, <3>5, <3>6, <3>7, <4>1, <4>2, <4>3 DEF LoopExact
    <3>10. RanExact'
      BY <3>3 DEF HandlersInv, RanExact
    <3> QED BY <3>4, <3>9, <3>10
  <2> QED BY <2>1, <2>2, <2>3
<1>12. GuidsExact'
  BY <1>1 DEF HandlersInv, GuidsExact
<1>13. HandlersType'
  BY <1>1, <1>5, <1>7, <1>11 DEF HandlersInv, HandlersType
<1> QED BY <1>10, <1>11, <1>12, <1>13 DEF HandlersInv

\* The steps of the loop change no table.
LEMMA LoopKeepsTables ==
    ASSUME HandlersInv, UNCHANGED <<on, events, guid, nextGuid, added>>, handling' \in EventLoop
    PROVE  HandlersType' /\ GuidsExact' /\ TablesExact'
<1>1. on' = on /\ events' = events /\ guid' = guid /\ nextGuid' = nextGuid /\ added' = added
  OBVIOUS
<1>2. HandlersType'
  BY <1>1 DEF HandlersInv, HandlersType
<1>3. GuidsExact'
  BY <1>1 DEF HandlersInv, GuidsExact
<1>4. TablesExact'
  BY <1>1 DEF HandlersInv, TablesExact, NumberOf
<1> QED BY <1>2, <1>3, <1>4

LEMMA HandleExact ==
    ASSUME HandlersInv, NEW t \in EventType, handleEvent(t)
    PROVE  HandlersInv'
<1>1. /\ handling' = [NoEvent EXCEPT !.type = t, !.over = FALSE, !.left = DOMAIN events[t],
                                     !.before = added[t]]
      /\ on[t] = "handleEvent"
      /\ on' = on /\ events' = events /\ guid' = guid /\ nextGuid' = nextGuid /\ added' = added
  BY DEF handleEvent
<1>2. /\ handling'.type = t /\ handling'.over = FALSE /\ handling'.left = DOMAIN events[t]
      /\ handling'.who = <<>> /\ handling'.before = added[t] /\ handling'.came = {}
      /\ handling'.gone = {}
  BY <1>1 DEF NoEvent
<1>3. /\ DOMAIN events[t] \in SUBSET Nat /\ added[t] \in SUBSET Handlers
  BY TableType DEF HandlersInv, HandlersType
<1>4. handling' \in EventLoop
  BY <1>1, <1>3, NoEventExact DEF EventLoop
<1>5. Range(events[t]) = added[t]
  BY <1>1 DEF HandlersInv, TablesExact
<1>6. Range(<<>>) = {} /\ IsInjective(<<>>)
  BY EmptyDomain DEF Range, IsInjective
<1>7. \A i \in DOMAIN events[t] : events[t][i] \in added[t]
  BY <1>5 DEF Range
<1>8. ASSUME NEW x \in added[t]
      PROVE  NumberOf(x) \in DOMAIN events[t] /\ events[t][NumberOf(x)] = x
  <2>1. PICK i \in DOMAIN events[t] : x = events[t][i]
    BY <1>5 DEF Range
  <2>2. NumberOf(x) = i
    BY <2>1 DEF HandlersInv, TablesExact
  <2> QED BY <2>1, <2>2
<1>9. LoopExact'
  BY <1>1, <1>2, <1>6, <1>7, <1>8 DEF LoopExact, NumberOf
<1>10. RanExact'
  BY <1>2, <1>6 DEF RanExact
<1> QED BY <1>1, <1>4, <1>9, <1>10, LoopKeepsTables DEF HandlersInv

LEMMA NextHandlerExact ==
    ASSUME HandlersInv, NEW i \in handling.left, NextHandler(i)
    PROVE  HandlersInv'
<1> DEFINE T == handling.type
           x == events[T][i]
<1>1. /\ handling' = [handling EXCEPT !.left = @ \ {i}, !.who = Append(@, x)]
      /\ on' = on /\ events' = events /\ guid' = guid /\ nextGuid' = nextGuid /\ added' = added
  BY DEF NextHandler
<1>2. handling \in EventLoop /\ handling.who \in Seq(Handlers)
  BY DEF HandlersInv, HandlersType, EventLoop
<1>3. /\ ~handling.over /\ T \in EventType /\ on[T] = "handleEvent"
      /\ handling.left \subseteq DOMAIN events[T]
      /\ \A j \in handling.left : events[T][j] \in handling.before \union handling.came
      /\ \A y \in Range(handling.who) :
            NumberOf(y) \notin handling.left /\ (y # "page" => guid[y] # 0)
      /\ \A y \in handling.before \ (handling.gone \union Range(handling.who)) :
            NumberOf(y) \in handling.left /\ events[T][NumberOf(y)] = y
  BY DEF HandlersInv, LoopExact, RanExact
<1>4. x \in Handlers /\ NumberOf(x) = i /\ (x # "page" => guid[x] # 0)
  <2>1. i \in DOMAIN events[T]
    BY <1>3
  <2>2. x \in Handlers /\ NumberOf(x) = i /\ (x # "page" => i # 0)
    BY <1>3, <2>1, TableType DEF HandlersInv, TablesExact
  <2> QED BY <2>2 DEF NumberOf
<1>5. /\ handling'.type = T /\ handling'.over = FALSE /\ handling'.left = handling.left \ {i}
      /\ handling'.who = Append(handling.who, x) /\ handling'.before = handling.before
      /\ handling'.came = handling.came /\ handling'.gone = handling.gone
      /\ handling' \in EventLoop
  <2> HIDE DEF x
  <2>1. Append(handling.who, x) \in Seq(Handlers) /\ handling.left \ {i} \in SUBSET Nat
    BY <1>2, <1>4 DEF EventLoop
  <2> QED BY <1>1, <1>2, <1>3, <2>1 DEF EventLoop
<1>6. Range(handling'.who) = Range(handling.who) \union {x} /\ x \notin Range(handling.who)
  <2> HIDE DEF x
  <2>1. Range(Append(handling.who, x)) = Range(handling.who) \union {x}
    BY <1>2, <1>4, RangeOfAppend
  <2>2. x \notin Range(handling.who)
    BY <1>3, <1>4
  <2> QED BY <1>5, <2>1, <2>2
<1>7. \A j \in handling'.left : events[T][j] \in handling'.before \union handling'.came
  BY <1>3, <1>5
<1>8. ASSUME NEW y \in Range(handling'.who)
      PROVE  NumberOf(y) \notin handling'.left /\ (y # "page" => guid[y] # 0)
  <2> HIDE DEF x
  <2>1. CASE y = x
    BY <1>4, <1>5, <2>1
  <2>2. CASE y \in Range(handling.who)
    BY <1>3, <1>5, <2>2
  <2> QED BY <1>6, <1>8, <2>1, <2>2
<1>9. ASSUME NEW y \in handling.before \ (handling.gone \union Range(handling'.who))
      PROVE  NumberOf(y) \in handling'.left /\ events[T][NumberOf(y)] = y
  <2>1. y \notin Range(handling.who) /\ y # x
    <3> HIDE DEF x
    <3> QED BY <1>6
  <2>2. NumberOf(y) \in handling.left /\ events[T][NumberOf(y)] = y
    BY <1>3, <2>1
  <2>3. NumberOf(y) # i
    BY <2>1, <2>2
  <2> QED BY <1>5, <2>2, <2>3
<1>10. LoopExact'
  <2>1. handling'.left \subseteq DOMAIN events[T]
    BY <1>3, <1>5
  <2> HIDE DEF x
  <2> QED BY <1>1, <1>3, <1>5, <1>7, <1>8, <1>9, <2>1 DEF LoopExact, NumberOf
<1>11. RanExact'
  <2>1. IsInjective(handling.who) /\ Range(handling.who) \subseteq handling.before \union handling.came
    BY DEF HandlersInv, RanExact
  <2>2. x \in handling.before \union handling.came
    BY <1>3
  <2> HIDE DEF x
  <2>3. IsInjective(handling'.who)
    BY <1>2, <1>4, <1>5, <1>6, <2>1, InjectiveAppend
  <2> QED BY <1>5, <1>6, <2>1, <2>2, <2>3 DEF RanExact
<1> QED BY <1>1, <1>5, <1>10, <1>11, LoopKeepsTables DEF HandlersInv

LEMMA EndExact ==
    ASSUME HandlersInv, NoHandlerLeft
    PROVE  HandlersInv'
<1>1. /\ handling' = [handling EXCEPT !.over = TRUE]
      /\ ~handling.over /\ handling.left = {}
      /\ on' = on /\ events' = events /\ guid' = guid /\ nextGuid' = nextGuid /\ added' = added
  BY DEF NoHandlerLeft
<1>2. handling \in EventLoop
  BY DEF HandlersInv, HandlersType
<1>3. /\ handling' \in EventLoop /\ handling'.over = TRUE /\ handling'.left = {}
      /\ handling'.who = handling.who /\ handling'.before = handling.before
      /\ handling'.came = handling.came /\ handling'.gone = handling.gone
  BY <1>1, <1>2 DEF EventLoop
<1>4. handling.before \subseteq Range(handling.who) \union handling.gone
  BY <1>1 DEF HandlersInv, LoopExact
<1>5. RanExact'
  BY <1>3, <1>4 DEF HandlersInv, RanExact
<1>6. LoopExact'
  BY <1>3 DEF LoopExact
<1> QED BY <1>1, <1>3, <1>5, <1>6, LoopKeepsTables DEF HandlersInv

LEMMA HandlersNext == HandlersInv /\ [ScriptsNext]_scriptVars => HandlersInv'
<1> SUFFICES ASSUME HandlersInv, [ScriptsNext]_scriptVars PROVE HandlersInv'
  OBVIOUS
<1>1. ASSUME NEW t \in EventType, NEW h \in ScriptHandler, addEvent(t, h) PROVE HandlersInv'
  BY <1>1, AddExact
<1>2. ASSUME NEW t \in EventType, NEW h \in ScriptHandler, removeEvent(t, h) PROVE HandlersInv'
  BY <1>2, RemoveExact
<1>3. ASSUME NEW t \in EventType, handleEvent(t) PROVE HandlersInv'
  BY <1>3, HandleExact
<1>4. ASSUME NEW i \in handling.left, NextHandler(i) PROVE HandlersInv'
  BY <1>4, NextHandlerExact
<1>5. CASE NoHandlerLeft
  BY <1>5, EndExact
<1>6. ASSUME UNCHANGED eventVars PROVE HandlersInv'
  <2>1. on' = on /\ events' = events /\ guid' = guid /\ nextGuid' = nextGuid /\ added' = added
        /\ handling' = handling
    BY <1>6 DEF eventVars
  <2>2. handling' \in EventLoop
    BY <2>1 DEF HandlersInv, HandlersType
  <2>3. LoopExact'
    BY <2>1 DEF HandlersInv, LoopExact, NumberOf
  <2>4. RanExact'
    BY <2>1 DEF HandlersInv, RanExact
  <2> QED BY <2>1, <2>2, <2>3, <2>4, LoopKeepsTables DEF HandlersInv
<1>7. ASSUME NEW c \in ClassName, addClassToElement(c) \/ removeClassFromElement(c)
      PROVE  HandlersInv'
  BY <1>6, <1>7 DEF addClassToElement, removeClassFromElement
<1>8. CASE UNCHANGED scriptVars
  BY <1>6, <1>8 DEF scriptVars, eventVars
<1> QED BY <1>1, <1>2, <1>3, <1>4, <1>5, <1>7, <1>8 DEF ScriptsNext

\* However handlers add and remove one another while an event is handled: nobody runs twice or
\* without having been added, and whoever was there when it began has run, unless removed.
THEOREM HandlersRunOnce == ScriptsSpec => []HandlersOnce
<1>1. HandlersInv => HandlersOnce
  BY DEF HandlersInv, RanExact, TablesExact, HandlersOnce
<1> QED BY <1>1, HandlersInitially, HandlersNext, PTL DEF ScriptsSpec

-----------------------------------------------------------------------------
(* css.js: the classes of an element.                                      *)

ClassesType == classes \in Seq(Seq(STRING))

\* No class is there twice, so that one removal removes it.
ClassesOnce ==
    misled \/ /\ \A i, j \in DOMAIN classes : classes[i] = classes[j] /\ classes[i] # <<>> => i = j
              /\ Range(classes) \ {<<>>} = want

ClassesInv == ClassesType /\ ClassesOnce

LEMMA ClassesInitially == ScriptsInit => ClassesInv
<1> SUFFICES ASSUME ScriptsInit PROVE ClassesInv
  OBVIOUS
<1>1. classes \in FirstClasses /\ want = Range(classes) \ {<<>>}
  BY DEF ScriptsInit
<1> QED BY <1>1, FirstClassesAssumption DEF ClassesInv, ClassesType, ClassesOnce

\* A name that is in the list has itself as a word.
LEMMA HasItself ==
    ASSUME NEW list \in Seq(Seq(STRING)), NEW c \in Range(list)
    PROVE  elementHasClass(list, c)
<1>1. PICK i \in DOMAIN list : list[i] = c
  BY DEF Range
<1>2. c \in Seq(STRING)
  BY <1>1, LenProperties
<1>3. SubSeq(list[i], 0 + 1, 0 + Len(c)) = c
  BY <1>1, <1>2, SubSeqFull, LenProperties
<1>4. 0 \in 0 .. Len(list[i]) - Len(c)
  BY <1>1, <1>2, LenProperties
<1> QED BY <1>1, <1>3, <1>4 DEF elementHasClass

LEMMA AddClassExact ==
    ASSUME ClassesInv, NEW c \in ClassName, addClassToElement(c)
    PROVE  ClassesInv'
<1>1. /\ classes' = IF elementHasClass(classes, c) THEN classes ELSE Append(classes, c)
      /\ want' = want \union {c}
      /\ misled' = (misled \/ (elementHasClass(classes, c) /\ c \notin Range(classes)))
  BY DEF addClassToElement
<1>2. c \in Seq(STRING) /\ c # <<>> /\ classes \in Seq(Seq(STRING))
  BY ClassNameAssumption DEF ClassesInv, ClassesType
<1>3. CASE elementHasClass(classes, c)
  <2>1. classes' = classes
    BY <1>1, <1>3
  <2>2. ~misled' => ~misled /\ want' = want
    <3>1. ~misled' => ~misled /\ c \in Range(classes)
      BY <1>1, <1>3
    <3>2. ~misled => Range(classes) \ {<<>>} = want
      BY DEF ClassesInv, ClassesOnce
    <3> QED BY <1>1, <1>2, <3>1, <3>2
  <2> QED BY <2>1, <2>2 DEF ClassesInv, ClassesType, ClassesOnce
<1>4. CASE ~elementHasClass(classes, c)
  <2>1. c \notin Range(classes)
    BY <1>2, <1>4, HasItself
  <2>2. classes' = Append(classes, c) /\ (~misled' => ~misled)
    BY <1>1, <1>4
  <2>3. classes' \in Seq(Seq(STRING)) /\ Range(classes') = Range(classes) \union {c}
    BY <1>2, <2>2, RangeOfAppend
  <2>4. ASSUME ~misled
        PROVE  /\ \A i, j \in DOMAIN classes' : classes'[i] = classes'[j] /\ classes'[i] # <<>> => i = j
               /\ Range(classes') \ {<<>>} = want'
    <3>1. /\ \A i, j \in DOMAIN classes : classes[i] = classes[j] /\ classes[i] # <<>> => i = j
          /\ Range(classes) \ {<<>>} = want
      BY <2>4 DEF ClassesInv, ClassesOnce
    <3>2. /\ DOMAIN classes' = 1 .. Len(classes) + 1 /\ classes'[Len(classes) + 1] = c
          /\ \A i \in 1 .. Len(classes) : classes'[i] = classes[i]
          /\ DOMAIN classes = 1 .. Len(classes) /\ Len(classes) \in Nat
      BY <1>2, <2>2, LenProperties, AppendProperties
    <3>3. \A i \in 1 .. Len(classes) : classes[i] # c
      BY <2>1, <3>2 DEF Range
    <3>4. \A i, j \in DOMAIN classes' : classes'[i] = classes'[j] /\ classes'[i] # <<>> => i = j
      BY <3>1, <3>2, <3>3
    <3>5. Range(classes') \ {<<>>} = want'
      BY <1>1, <1>2, <2>3, <3>1
    <3> QED BY <3>4, <3>5
  <2> QED BY <2>2, <2>3, <2>4 DEF ClassesInv, ClassesType, ClassesOnce
<1> QED BY <1>3, <1>4

LEMMA RemoveClassExact ==
    ASSUME ClassesInv, NEW c \in ClassName, removeClassFromElement(c)
    PROVE  ClassesInv'
<1>1. want' = want \ {c} /\ misled' = misled
  BY DEF removeClassFromElement
<1>2. c # <<>> /\ classes \in Seq(Seq(STRING)) /\ <<>> \in Seq(STRING)
  BY ClassNameAssumption DEF ClassesInv, ClassesType
<1>3. CASE c \notin Range(classes)
  <2>1. classes' = classes
    BY <1>3 DEF removeClassFromElement
  <2> QED BY <1>1, <1>3, <2>1 DEF ClassesInv, ClassesType, ClassesOnce
<1>4. CASE c \in Range(classes)
  <2>1. PICK i \in DOMAIN classes : classes[i] = c /\ classes' = [classes EXCEPT ![i] = <<>>]
    BY <1>4 DEF removeClassFromElement
  <2>2. /\ classes' \in Seq(Seq(STRING)) /\ DOMAIN classes' = DOMAIN classes
        /\ \A j \in DOMAIN classes : classes'[j] = IF j = i THEN <<>> ELSE classes[j]
    BY <1>2, <2>1, ExceptSeq, LenProperties
  <2>3. ASSUME ~misled
        PROVE  /\ \A j, k \in DOMAIN classes' : classes'[j] = classes'[k] /\ classes'[j] # <<>> => j = k
               /\ Range(classes') \ {<<>>} = want'
    <3>1. /\ \A j, k \in DOMAIN classes : classes[j] = classes[k] /\ classes[j] # <<>> => j = k
          /\ Range(classes) \ {<<>>} = want
      BY <2>3 DEF ClassesInv, ClassesOnce
    <3>2. \A y : y \in Range(classes') \ {<<>>} <=> y \in Range(classes) \ {<<>>, c}
      BY <1>2, <2>1, <2>2, <3>1 DEF Range
    <3>3. Range(classes') \ {<<>>} = want'
      BY <1>1, <3>1, <3>2
    <3>4. \A j, k \in DOMAIN classes' : classes'[j] = classes'[k] /\ classes'[j] # <<>> => j = k
      BY <2>2, <3>1
    <3> QED BY <3>3, <3>4
  <2> QED BY <1>1, <2>2, <2>3 DEF ClassesInv, ClassesType, ClassesOnce
<1> QED BY <1>3, <1>4

LEMMA ClassesNext == ClassesInv /\ [ScriptsNext]_scriptVars => ClassesInv'
<1> SUFFICES ASSUME ClassesInv, [ScriptsNext]_scriptVars PROVE ClassesInv'
  OBVIOUS
<1>1. ASSUME NEW c \in ClassName, addClassToElement(c) PROVE ClassesInv'
  BY <1>1, AddClassExact
<1>2. ASSUME NEW c \in ClassName, removeClassFromElement(c) PROVE ClassesInv'
  BY <1>2, RemoveClassExact
<1>3. ASSUME UNCHANGED <<classes, want, misled>> PROVE ClassesInv'
  BY <1>3 DEF ClassesInv, ClassesType, ClassesOnce
<1>4. ASSUME NEW t \in EventType, NEW h \in ScriptHandler, addEvent(t, h) \/ removeEvent(t, h)
      PROVE ClassesInv'
  BY <1>3, <1>4 DEF addEvent, removeEvent, classVars
<1>5. ASSUME NEW t \in EventType, handleEvent(t) PROVE ClassesInv'
  BY <1>3, <1>5 DEF handleEvent, classVars
<1>6. ASSUME NEW i \in handling.left, NextHandler(i) PROVE ClassesInv'
  BY <1>3, <1>6 DEF NextHandler, classVars
<1>7. CASE NoHandlerLeft
  BY <1>3, <1>7 DEF NoHandlerLeft, classVars
<1>8. CASE UNCHANGED scriptVars
  BY <1>3, <1>8 DEF scriptVars
<1> QED BY <1>1, <1>2, <1>4, <1>5, <1>6, <1>7, <1>8 DEF ScriptsNext

\* However classes come and go, an element has those that were added and not removed, unless a
\* word of one passed for another.
THEOREM ClassesStayExact == ScriptsSpec => []ClassesExact
<1>1. ClassesInv => ClassesExact
  BY DEF ClassesInv, ClassesOnce, ClassesExact
<1> QED BY <1>1, ClassesInitially, ClassesNext, PTL DEF ScriptsSpec

-----------------------------------------------------------------------------
(* standardista-table-sorting.js: while each table has an id of its own, every table has its *)
(* own rows, each once (Rows, RowsStay), and what was sorted last still stands in the table  *)
(* it was sorted in, under an arrow (LastExact): so turning it round again turns round what  *)
(* the arrow tells of.                                                                       *)

LEMMA UpTo ==
    ASSUME NEW n \in Nat
    PROVE  IsFiniteSet(1 .. n) /\ Cardinality(1 .. n) = n
<1>1. 1 \in Int /\ n \in Int /\ (1 > n => n = 0) /\ n - 1 + 1 = n
  OBVIOUS
<1> QED BY <1>1, FS_Interval

\* A set of indices that is not empty has a least one.
LEMMA LeastIn ==
    ASSUME NEW n \in Nat, NEW A \in SUBSET (1 .. n), A # {}
    PROVE  \E i \in A : \A j \in A : i <= j
<1> DEFINE T == {1 .. i : i \in A}
           D == 1 .. n
<1>1. IsFiniteSet(D)
  BY UpTo
<1>2. IsWellFoundedOn(StrictSubsetOrdering(D), FiniteSubsetsOf(D)) /\ FiniteSubsetsOf(D) = SUBSET D
  <2> HIDE DEF D
  <2> QED BY <1>1, FS_StrictSubsetOrderingWellFounded, FS_FiniteSubsetsOfFinite
<1>3. IsWellFoundedOn(StrictSubsetOrdering(D), SUBSET D)
  BY <1>2
<1>4. T # {} /\ T \subseteq SUBSET D
  <2>1. \A i \in A : 1 .. i \subseteq 1 .. n
    OBVIOUS
  <2>2. \A i \in A : 1 .. i \in SUBSET D
    BY <2>1
  <2> QED BY <2>2
<1>5. PICK x \in T : \A y \in T : <<y, x>> \notin StrictSubsetOrdering(D)
  <2> HIDE DEF T, D
  <2> QED BY <1>3, <1>4, WFMin
<1>6. PICK i \in A : x = 1 .. i
  BY <1>5
<1>7. ASSUME NEW j \in A, j < i PROVE FALSE
  <2>1. i \in Nat /\ j \in Nat /\ 1 .. j \subseteq 1 .. i /\ i \in 1 .. i /\ i \notin 1 .. j
    BY <1>7
  <2>2. 1 .. j \in T /\ 1 .. j \in SUBSET D /\ 1 .. i \in SUBSET D
    OBVIOUS
  <2>3. <<1 .. j, x>> \in StrictSubsetOrdering(D)
    BY <1>6, <2>1, <2>2 DEF StrictSubsetOrdering
  <2> QED BY <1>5, <2>2, <2>3
<1> QED BY <1>7

\* A list of rows, each once.
Rows == {list \in Seq(Table \X Nat) : IsInjective(list)}

LEMMA RowsAre ==
    ASSUME NEW list \in Rows
    PROVE  /\ list \in Seq(Table \X Nat) /\ Len(list) \in Nat /\ DOMAIN list = 1 .. Len(list)
           /\ \A i \in 1 .. Len(list) : list[i] \in Table \X Nat
           /\ \A i, j \in 1 .. Len(list) : list[i] = list[j] => i = j
           /\ Range(list) = {list[i] : i \in 1 .. Len(list)}
           /\ IsFiniteSet(Range(list)) /\ Cardinality(Range(list)) = Len(list)
<1>1. /\ list \in Seq(Table \X Nat) /\ Len(list) \in Nat /\ DOMAIN list = 1 .. Len(list)
      /\ \A i \in 1 .. Len(list) : list[i] \in Table \X Nat
      /\ \A i, j \in 1 .. Len(list) : list[i] = list[j] => i = j
      /\ Range(list) = {list[i] : i \in 1 .. Len(list)}
  BY DEF Rows, IsInjective, Range
<1>2. IsFiniteSet(1 .. Len(list)) /\ Cardinality(1 .. Len(list)) = Len(list)
  BY <1>1, UpTo
<1>3. list \in Bijection(1 .. Len(list), Range(list))
  BY <1>1 DEF Bijection, Injection, Surjection, IsInjective
<1>4. ExistsBijection(1 .. Len(list), Range(list))
  BY <1>3 DEF ExistsBijection
<1>5. IsFiniteSet(Range(list)) /\ Cardinality(Range(list)) = Len(list)
  <2> QED BY <1>2, <1>4, FS_Bijection
<1> QED BY <1>1, <1>5

\* Whatever order sort leaves the rows in, they are the same rows.
LEMMA OrderExact ==
    ASSUME NEW list \in Rows, NEW order \in Orders(list)
    PROVE  order \in Rows /\ Len(order) = Len(list) /\ Range(order) = Range(list)
<1>1. order \in [1 .. Len(list) -> Range(list)] /\ IsInjective(order)
  BY RowsAre DEF Orders
<1>2. order \in Injection(1 .. Len(list), Range(list))
  BY <1>1 DEF Injection
<1>3. IsFiniteSet(1 .. Len(list)) /\ Cardinality(1 .. Len(list)) = Len(list)
  BY RowsAre, UpTo
<1>4. order \in Surjection(1 .. Len(list), Range(list))
  BY <1>2, <1>3, RowsAre, FS_Injection
<1>5. Range(order) = Range(list)
  BY <1>1, <1>4 DEF Surjection, Range
<1>6. order \in Seq(Table \X Nat) /\ Len(order) = Len(list)
  <2>1. \A r \in Range(list) : r \in Table \X Nat
    BY RowsAre
  <2>2. order \in [1 .. Len(list) -> Table \X Nat]
    BY <1>1, <2>1
  <2> QED BY <2>2, RowsAre
<1> QED BY <1>1, <1>5, <1>6 DEF Rows

LEMMA ReverseExact ==
    ASSUME NEW list \in Rows
    PROVE  /\ Reverse(list) \in Rows /\ Len(Reverse(list)) = Len(list)
           /\ Range(Reverse(list)) = Range(list) /\ Reverse(Reverse(list)) = list
<1> DEFINE n == Len(list)
           back == Reverse(list)
<1>1. /\ n \in Nat /\ list \in [1 .. n -> Table \X Nat] /\ DOMAIN list = 1 .. n
      /\ \A i, j \in 1 .. n : list[i] = list[j] => i = j
  BY RowsAre
<1>2. back = [i \in 1 .. n |-> list[(n - i) + 1]]
  BY DEF Reverse
<1>3. \A i \in 1 .. n : (n - i) + 1 \in 1 .. n /\ (n - ((n - i) + 1)) + 1 = i
  BY <1>1
<1> HIDE DEF n, back
<1>4. back \in [1 .. n -> Table \X Nat] /\ \A i \in 1 .. n : back[i] = list[(n - i) + 1]
  BY <1>1, <1>2, <1>3
<1>5. back \in Seq(Table \X Nat) /\ Len(back) = n /\ DOMAIN back = 1 .. n
  BY <1>1, <1>4
<1>6. IsInjective(back)
  <2> SUFFICES ASSUME NEW i \in 1 .. n, NEW j \in 1 .. n, back[i] = back[j] PROVE i = j
    BY <1>5 DEF IsInjective
  <2>1. (n - i) + 1 = (n - j) + 1
    BY <1>1, <1>3, <1>4
  <2> QED BY <2>1, <1>1
<1>7. Range(back) = Range(list)
  <2>1. ASSUME NEW r, r \in Range(back) PROVE r \in Range(list)
    <3>1. PICK i \in 1 .. n : r = back[i]
      BY <2>1, <1>5 DEF Range
    <3>2. r = list[(n - i) + 1]
      BY <3>1, <1>4
    <3> QED BY <3>2, <1>1, <1>3 DEF Range
  <2>2. ASSUME NEW r, r \in Range(list) PROVE r \in Range(back)
    <3>1. PICK i \in 1 .. n : r = list[i]
      BY <2>2, <1>1 DEF Range
    <3>2. r = back[(n - i) + 1]
      BY <3>1, <1>3, <1>4
    <3> QED BY <3>2, <1>3, <1>5 DEF Range
  <2> QED BY <2>1, <2>2
<1>8. Reverse(back) = list
  <2>1. Reverse(back) = [i \in 1 .. n |-> back[(n - i) + 1]]
    BY <1>5 DEF Reverse
  <2>2. \A i \in 1 .. n : back[(n - i) + 1] = list[i]
    BY <1>3, <1>4
  <2> QED BY <2>1, <2>2, <1>1
<1> QED BY <1>5, <1>6, <1>7, <1>8 DEF Rows, n, back

\* appendChild takes out the rows that are moved and no other.
LEMMA WithoutNone ==
    ASSUME NEW list \in Rows, NEW taken, Range(list) \cap Range(taken) = {}
    PROVE  Without(list, taken) = list
<1> DEFINE n == Len(list)
           stay == {i \in DOMAIN list : list[i] \notin Range(taken)}
           Nth(m) == CHOOSE i \in stay : Cardinality({h \in stay : h < i}) = m - 1
<1>1. n \in Nat /\ DOMAIN list = 1 .. n /\ list = [i \in 1 .. n |-> list[i]]
  BY RowsAre
<1>2. stay = 1 .. n
  BY RowsAre, <1>1
<1>3. Cardinality(stay) = n
  <2>1. Cardinality(1 .. n) = n
    <3> HIDE DEF n
    <3> QED BY <1>1, UpTo
  <2> HIDE DEF stay, n
  <2> QED BY <1>2, <2>1
<1>4. \A i \in 1 .. n : Cardinality({h \in 1 .. n : h < i}) = i - 1
  <2> SUFFICES ASSUME NEW i \in 1 .. n PROVE Cardinality({h \in 1 .. n : h < i}) = i - 1
    OBVIOUS
  <2>1. {h \in 1 .. n : h < i} = 1 .. i - 1 /\ i - 1 \in Nat
    BY <1>1
  <2>2. Cardinality(1 .. i - 1) = i - 1
    BY <2>1, UpTo
  <2> QED BY <2>1, <2>2
<1>5. \A m \in 1 .. n : Nth(m) = m
  <2> SUFFICES ASSUME NEW m \in 1 .. n PROVE Nth(m) = m
    OBVIOUS
  <2>1. \A i \in 1 .. n : Cardinality({h \in 1 .. n : h < i}) = m - 1 <=> i = m
    BY <1>1, <1>4
  <2>2. Nth(m) = CHOOSE i \in 1 .. n : Cardinality({h \in 1 .. n : h < i}) = m - 1
    BY <1>2
  <2> QED BY <2>1, <2>2
<1>6. Without(list, taken) = [m \in 1 .. Cardinality(stay) |-> list[Nth(m)]]
  BY DEF Without
<1> HIDE DEF n, stay, Nth
<1> QED BY <1>1, <1>3, <1>5, <1>6

LEMMA WithoutAll ==
    ASSUME NEW list \in Rows, NEW taken, Range(list) \subseteq Range(taken)
    PROVE  Without(list, taken) = <<>>
<1> DEFINE stay == {i \in DOMAIN list : list[i] \notin Range(taken)}
           Nth(m) == CHOOSE i \in stay : Cardinality({h \in stay : h < i}) = m - 1
<1>1. stay = {}
  BY RowsAre
<1>2. Cardinality(stay) = 0
  BY <1>1, FS_EmptySet
<1>3. Without(list, taken) = [m \in 1 .. Cardinality(stay) |-> list[Nth(m)]]
  BY DEF Without
<1> HIDE DEF stay, Nth
<1>4. 1 .. 0 = {}
  OBVIOUS
<1>5. [m \in {} |-> list[Nth(m)]] = <<>>
  OBVIOUS
<1> QED BY <1>2, <1>3, <1>4, <1>5

\* doStripe along a list gives every other row of it the class, and leaves the other rows.
LEMMA StripedExact ==
    ASSUME NEW list \in Rows, NEW had
    PROVE  /\ \A i \in 1 .. Len(list) : list[i] \in Striped(list, had) <=> i % 2 = 0
           /\ \A r : r \notin Range(list) => (r \in Striped(list, had) <=> r \in had)
<1> DEFINE new == {list[i] : i \in {j \in DOMAIN list : j % 2 = 0}}
<1>1. Striped(list, had) = (had \ Range(list)) \union new
  BY DEF Striped
<1>2. new \subseteq Range(list)
  BY DEF Range
<1>3. \A i \in 1 .. Len(list) : list[i] \in Range(list) /\ (list[i] \in new <=> i % 2 = 0)
  <2>1. /\ DOMAIN list = 1 .. Len(list) /\ Range(list) = {list[i] : i \in 1 .. Len(list)}
        /\ \A i, j \in 1 .. Len(list) : list[i] = list[j] => i = j
    BY RowsAre
  <2>2. new = {list[i] : i \in {j \in 1 .. Len(list) : j % 2 = 0}}
    BY <2>1
  <2> HIDE DEF new
  <2> SUFFICES ASSUME NEW i \in 1 .. Len(list) PROVE list[i] \in Range(list) /\ (list[i] \in new <=> i % 2 = 0)
    OBVIOUS
  <2>3. list[i] \in new <=> \E j \in {j \in 1 .. Len(list) : j % 2 = 0} : list[i] = list[j]
    BY <2>2
  <2> QED BY <2>1, <2>3
<1> HIDE DEF new
<1> QED BY <1>1, <1>2, <1>3

-----------------------------------------------------------------------------
\* The column of a list looks everywhere as one kind of cell.
Alike(list, fn, c) ==
    \A r \in Range(list) : Cell(r, c).looks = "empty" \/ determineSortFunction(Cell(r, c)) = fn

\* Any order of rows that look alike is compared in one way.
LEMMA FunctionOfAlike ==
    ASSUME NEW list \in Rows, NEW other \in Rows, Range(list) = Range(other), Len(list) > 0,
           NEW c, Alike(list, SortFunction(other, c), c)
    PROVE  SortFunction(list, c) = SortFunction(other, c)
<1> DEFINE Full(l) == {i \in DOMAIN l : Cell(l[i], c).looks # "empty"}
           First(l) == IF Full(l) = {} THEN Len(l)
                       ELSE CHOOSE i \in Full(l) : \A j \in Full(l) : i <= j
           fn == SortFunction(other, c)
<1>1. \A l : SortFunction(l, c) = determineSortFunction(Cell(l[First(l)], c))
  BY DEF SortFunction
<1>2. ASSUME NEW l \in Rows, Full(l) # {} PROVE First(l) \in Full(l)
  <2>1. Full(l) \in SUBSET (1 .. Len(l)) /\ Len(l) \in Nat
    BY RowsAre
  <2>2. \E i \in Full(l) : \A j \in Full(l) : i <= j
    <3> HIDE DEF Full
    <3> QED BY <1>2, <2>1, LeastIn
  <2> HIDE DEF Full
  <2> QED BY <1>2, <2>2
<1>3. Full(list) = {} <=> Full(other) = {}
  <2>1. \A l \in Rows : Full(l) = {} <=> \A r \in Range(l) : Cell(r, c).looks = "empty"
    <3> SUFFICES ASSUME NEW l \in Rows
                 PROVE  Full(l) = {} <=> \A r \in Range(l) : Cell(r, c).looks = "empty"
      OBVIOUS
    <3>1. Range(l) = {l[i] : i \in DOMAIN l}
      BY DEF Range
    <3> QED BY <3>1
  <2> HIDE DEF Full
  <2> QED BY <2>1
<1>4. CASE Full(list) # {}
  <2>1. First(list) \in Full(list)
    BY <1>2, <1>4
  <2>2. list[First(list)] \in Range(list) /\ Cell(list[First(list)], c).looks # "empty"
    <3> HIDE DEF First
    <3> QED BY <2>1, RowsAre
  <2>3. determineSortFunction(Cell(list[First(list)], c)) = fn
    <3> HIDE DEF First, fn
    <3>1. Alike(list, fn, c)
      BY DEF fn
    <3> QED BY <2>2, <3>1 DEF Alike
  <2> HIDE DEF First, Full, fn
  <2>4. SortFunction(list, c) = fn
    BY <1>1, <2>3
  <2> QED BY <2>4 DEF fn
<1>5. CASE Full(list) = {}
  <2>1. ASSUME NEW l \in Rows, Len(l) > 0, Full(l) = {} PROVE SortFunction(l, c) = "sortCaseInsensitive"
    <3>1. Len(l) \in DOMAIN l /\ First(l) = Len(l)
      BY <2>1, RowsAre
    <3>2. Cell(l[Len(l)], c).looks = "empty"
      BY <2>1, <3>1
    <3>3. SortFunction(l, c) = determineSortFunction(Cell(l[Len(l)], c))
      <4> HIDE DEF First
      <4> QED BY <1>1, <3>1
    <3> QED BY <3>2, <3>3 DEF determineSortFunction
  <2>2. Len(other) = Len(list)
    BY RowsAre
  <2> HIDE DEF Full
  <2> QED BY <1>3, <1>5, <2>1, <2>2
<1> QED BY <1>4, <1>5

-----------------------------------------------------------------------------
LastExact ==
    IF last.of = NoTable THEN last.table = NoTable
    ELSE /\ last.of \in Table /\ last.column \in Column
         /\ last.table = ids[last.of] /\ last.newRows = rows[last.of]
         /\ arrow[last.of][last.column] # ""

PageExact ==
    /\ rows \in [Table -> Rows]
    /\ RowsStay
    /\ arrow \in [Table -> [Column -> {"", "ASC", "DESC"}]]
    /\ LastExact
    /\ StripesAlternate
    /\ LastGoesOneWay
    /\ ArrowTells

TablesInv ==
    /\ ids \in [Table -> Nat \ {0}]
    /\ holds \in Contents
    /\ OneIdEach => PageExact

LEMMA TablesInitially == TablesInit => TablesInv
<1> SUFFICES ASSUME TablesInit PROVE TablesInv
  OBVIOUS
<1>1. PICK idOf \in {[t \in Table |-> t], [t \in Table |-> 1]}, nodesOf \in Nodes,
           contentOf \in Contents : Page(idOf, contentOf, nodesOf)
  BY DEF TablesInit
<1>2. ids \in [Table -> Nat \ {0}] /\ holds \in Contents
  BY <1>1, TableAssumption DEF Page
<1> DEFINE n(t) == Len(Content[holds[t]])
<1>3. \A t \in Table : n(t) \in Nat
  BY <1>2, ContentAssumption
<1>4. /\ rows = [t \in Table |-> [i \in 1 .. n(t) |-> <<t, i>>]]
      /\ odd = UNION {{t} \X {i \in 1 .. n(t) : i % 2 = 0} : t \in Table}
      /\ arrow = [t \in Table |-> [c \in Column |-> ""]]
      /\ last.of = NoTable /\ last.table = NoTable
  BY <1>1 DEF Page
<1> HIDE DEF n
<1>5. \A t \in Table : /\ rows[t] = [i \in 1 .. n(t) |-> <<t, i>>] /\ rows[t] \in Rows
                       /\ DOMAIN rows[t] = 1 .. n(t) /\ Range(rows[t]) = {t} \X (1 .. n(t))
  <2> SUFFICES ASSUME NEW t \in Table
               PROVE  /\ rows[t] = [i \in 1 .. n(t) |-> <<t, i>>] /\ rows[t] \in Rows
                      /\ DOMAIN rows[t] = 1 .. n(t) /\ Range(rows[t]) = {t} \X (1 .. n(t))
    OBVIOUS
  <2>1. rows[t] = [i \in 1 .. n(t) |-> <<t, i>>] /\ n(t) \in Nat
    BY <1>3, <1>4
  <2>2. rows[t] \in [1 .. n(t) -> Table \X Nat] /\ \A i \in 1 .. n(t) : rows[t][i] = <<t, i>>
    BY <2>1
  <2>3. rows[t] \in Seq(Table \X Nat) /\ DOMAIN rows[t] = 1 .. n(t)
    BY <2>1, <2>2
  <2>4. IsInjective(rows[t])
    BY <2>2, <2>3 DEF IsInjective
  <2>5. Range(rows[t]) = {t} \X (1 .. n(t))
    <3>1. Range(rows[t]) = {rows[t][i] : i \in 1 .. n(t)}
      BY <2>3 DEF Range
    <3>2. Range(rows[t]) = {<<t, i>> : i \in 1 .. n(t)}
      BY <3>1, <2>2
    <3> QED BY <3>2
  <2> QED BY <2>1, <2>3, <2>4, <2>5 DEF Rows
<1>6. rows \in [Table -> Rows] /\ RowsStay
  BY <1>4, <1>5 DEF RowsStay, n
<1>7. StripesAlternate
  <2> SUFFICES ASSUME NEW t \in Table, NEW i \in DOMAIN rows[t] PROVE rows[t][i] \in odd <=> i % 2 = 0
    BY DEF StripesAlternate
  <2>1. i \in 1 .. n(t) /\ rows[t][i] = <<t, i>>
    BY <1>5
  <2>2. <<t, i>> \in odd <=> \E u \in Table : <<t, i>> \in {u} \X {j \in 1 .. n(u) : j % 2 = 0}
    BY <1>4
  <2> QED BY <2>1, <2>2
<1>8. arrow \in [Table -> [Column -> {"", "ASC", "DESC"}]] /\ LastExact /\ LastGoesOneWay /\ ArrowTells
  BY <1>4 DEF LastExact, LastGoesOneWay, ArrowTells
<1> QED BY <1>2, <1>6, <1>7, <1>8 DEF TablesInv, PageExact

\* Where no row is out of its table, moving the rows of one leaves the others.
LEMMA Moved ==
    ASSUME TablesInv, OneIdEach, NEW t \in Table, NEW newRows \in Rows,
           Range(newRows) = Range(rows[t]), moveRows(t, newRows)
    PROVE  /\ rows' = [rows EXCEPT ![t] = newRows]
           /\ \A u \in Table : \A i \in DOMAIN rows'[u] : rows'[u][i] \in odd' <=> i % 2 = 0
<1>1. rows \in [Table -> Rows] /\ RowsStay /\ StripesAlternate
  BY DEF TablesInv, PageExact
<1>2. /\ rows' = [u \in Table |-> Without(rows[u], newRows) \o (IF u = t THEN newRows ELSE <<>>)]
      /\ odd' = Striped(newRows, odd)
  BY DEF moveRows
<1>3. \A u \in Table : u # t => Range(rows[u]) \cap Range(newRows) = {}
  <2>1. \A u \in Table : Range(rows[u]) = {u} \X (1 .. Len(Content[holds[u]]))
    BY <1>1 DEF RowsStay
  <2> QED BY <2>1
<1>4. \A u \in Table : u # t => Without(rows[u], newRows) = rows[u]
  BY <1>1, <1>3, WithoutNone
<1>5. Without(rows[t], newRows) = <<>>
  BY <1>1, WithoutAll
<1>6. rows' = [rows EXCEPT ![t] = newRows]
  <2>1. \A u \in Table : rows[u] \in Seq(Table \X Nat) /\ rows[u] \o <<>> = rows[u]
    <3> SUFFICES ASSUME NEW u \in Table PROVE rows[u] \in Seq(Table \X Nat) /\ rows[u] \o <<>> = rows[u]
      OBVIOUS
    <3>1. rows[u] \in Seq(Table \X Nat)
      BY <1>1 DEF Rows
    <3> QED BY <3>1, ConcatEmptySeq
  <2>2. <<>> \o newRows = newRows
    BY ConcatEmptySeq DEF Rows
  <2>3. \A u \in Table : rows'[u] = IF u = t THEN newRows ELSE rows[u]
    BY <1>2, <1>4, <1>5, <2>1, <2>2
  <2> QED BY <1>1, <1>2, <2>3
<1>7. ASSUME NEW u \in Table, NEW i \in DOMAIN rows'[u] PROVE rows'[u][i] \in odd' <=> i % 2 = 0
  <2>1. CASE u = t
    <3>1. rows'[u] = newRows /\ i \in 1 .. Len(newRows)
      BY <1>1, <1>6, <1>7, <2>1, RowsAre
    <3> QED BY <1>2, <3>1, StripedExact
  <2>2. CASE u # t
    <3>1. rows'[u] = rows[u] /\ rows[u][i] \in Range(rows[u])
      BY <1>1, <1>6, <1>7, <2>2 DEF Range
    <3>2. rows[u][i] \in odd' <=> rows[u][i] \in odd
      BY <1>2, <1>3, <2>2, <3>1, StripedExact
    <3>3. rows[u][i] \in odd <=> i % 2 = 0
      BY <1>1, <1>7, <3>1 DEF StripesAlternate
    <3> QED BY <3>1, <3>2, <3>3
  <2> QED BY <2>1, <2>2
<1> QED BY <1>6, <1>7

LEMMA ClickExact ==
    ASSUME TablesInv, OneIdEach, NEW t \in Table, NEW c \in Column, headingClicked(t, c)
    PROVE  PageExact'
<1> DEFINE fn == SortFunction(rows[t], c)
           again == Again(t, c)
<1>1. /\ rows \in [Table -> Rows] /\ RowsStay /\ LastExact /\ LastGoesOneWay /\ ArrowTells
      /\ arrow \in [Table -> [Column -> {"", "ASC", "DESC"}]]
      /\ ids \in [Table -> Nat \ {0}]
  BY DEF TablesInv, PageExact
<1>2. PICK newRows \in IF again THEN {Reverse(last.newRows)} ELSE Sorted(rows[t], fn, c) :
         /\ moveRows(t, newRows)
         /\ last' = [table |-> ids[t], column |-> c, newRows |-> newRows, of |-> t,
                     fn |-> IF again THEN last.fn ELSE fn]
         /\ turned' = IF ~again /\ arrow[t][c] = "ASC" THEN turned \union {<<t, c>>}
                      ELSE IF again THEN turned ELSE turned \ {<<t, c>>}
  BY DEF headingClicked
<1>3. /\ arrow' = [arrow EXCEPT ![t] = Arrows(t, c)]
      /\ ids' = ids /\ holds' = holds /\ Len(rows[t]) > 1
  BY DEF headingClicked
<1> HIDE DEF fn, again
<1>4. again => last.of = t /\ last.column = c /\ last.newRows = rows[t] /\ arrow[t][c] # ""
  <2> SUFFICES ASSUME again PROVE last.of = t /\ last.column = c /\ last.newRows = rows[t] /\ arrow[t][c] # ""
    OBVIOUS
  <2>1. last.table = ids[t] /\ last.column = c
    BY DEF again, Again
  <2>2. last.of \in Table /\ ids[last.of] = ids[t] /\ last.newRows = rows[last.of]
        /\ arrow[last.of][last.column] # ""
    BY <1>1, <2>1 DEF LastExact, NoTable
  <2>3. last.of = t
    BY <1>1, <2>2 DEF OneIdEach, IsInjective
  <2> QED BY <2>1, <2>2, <2>3
<1>5. again => newRows = Reverse(rows[t])
  BY <1>2, <1>4
<1>6. ~again => newRows \in Orders(rows[t]) /\ (Comparable(fn, rows[t], c) => Ascending(newRows, fn, c))
  BY <1>2 DEF Sorted
<1>7. newRows \in Rows /\ Range(newRows) = Range(rows[t]) /\ Len(newRows) = Len(rows[t])
  BY <1>1, <1>5, <1>6, ReverseExact, OrderExact
<1>8. /\ rows' = [rows EXCEPT ![t] = newRows]
      /\ \A u \in Table : \A i \in DOMAIN rows'[u] : rows'[u][i] \in odd' <=> i % 2 = 0
  BY <1>2, <1>7, Moved
<1>9. rows' \in [Table -> Rows] /\ RowsStay'
  BY <1>1, <1>3, <1>7, <1>8 DEF RowsStay
<1>10. StripesAlternate'
  BY <1>8 DEF StripesAlternate
<1>11. /\ arrow' \in [Table -> [Column -> {"", "ASC", "DESC"}]]
       /\ \A u \in Table, d \in Column :
            arrow'[u][d] = IF u # t THEN arrow[u][d] ELSE IF d # c THEN ""
                           ELSE IF arrow[t][c] = "ASC" THEN "DESC" ELSE "ASC"
  <2>1. Arrows(t, c) \in [Column -> {"", "ASC", "DESC"}]
    BY DEF Arrows
  <2> QED BY <1>1, <1>3, <2>1 DEF Arrows
<1>12. LastExact'
  <2>1. last'.of = t /\ last'.table = ids[t] /\ last'.newRows = newRows /\ last'.column = c
    BY <1>2
  <2>2. rows'[t] = newRows /\ arrow'[t][c] # "" /\ t # NoTable
    BY <1>1, <1>8, <1>11, TableAssumption DEF NoTable
  <2> QED BY <2>1, <2>2, <1>3 DEF LastExact
\* One comparison for every order of the rows of a table.
<1>13. \A f, d : Comparable(f, newRows, d)' <=> Comparable(f, rows[t], d)
  BY <1>3, <1>7 DEF Comparable, Cell
<1>14. \A f, l, d : Ascending(l, f, d)' <=> Ascending(l, f, d)
  BY <1>3 DEF Ascending, Cell
<1>15. LastGoesOneWay'
  <2> SUFFICES ASSUME NEW f, f = last'.fn, Comparable(f, newRows, c)'
               PROVE  Ascending(newRows, f, c) \/ Ascending(Reverse(newRows), f, c)
    <3>1. last'.of = t /\ last'.newRows = newRows /\ last'.column = c /\ rows'[t] = newRows
      BY <1>1, <1>2, <1>8
    <3> SUFFICES ASSUME NEW f, f = last'.fn, Comparable(f, newRows, c)'
                 PROVE  Ascending(newRows, f, c)' \/ Ascending(Reverse(newRows), f, c)'
      BY <3>1 DEF LastGoesOneWay
    <3>2. Ascending(newRows, f, c) \/ Ascending(Reverse(newRows), f, c)
      OBVIOUS
    <3> QED BY <3>2, <1>14
  <2>1. Comparable(f, rows[t], c)
    BY <1>13
  <2>2. CASE again
    <3>1. f = last.fn /\ Reverse(newRows) = rows[t]
      BY <1>1, <1>2, <1>5, <2>2, ReverseExact
    <3>2. last.of = t /\ last.column = c /\ last.newRows = rows[t] /\ t # NoTable
      BY <1>4, <2>2, TableAssumption DEF NoTable
    <3>3. Ascending(rows[t], f, c) \/ Ascending(Reverse(rows[t]), f, c)
      BY <1>1, <2>1, <3>1, <3>2 DEF LastGoesOneWay
    <3> QED BY <1>5, <2>2, <3>1, <3>3
  <2>3. CASE ~again
    BY <1>2, <1>6, <2>1, <2>3
  <2> QED BY <2>2, <2>3
<1>16. /\ \A l, d : SortFunction(l, d)' = SortFunction(l, d)
       /\ \A l, f, d : Alike(l, f, d)' <=> Alike(l, f, d)
  BY <1>3 DEF SortFunction, Alike, Cell
<1>17. rows[t] \in Rows /\ Len(rows[t]) > 0
  <2>1. rows[t] \in Rows /\ Len(rows[t]) > 1
    BY <1>1, <1>3
  <2>2. Len(rows[t]) \in Nat
    BY <2>1, RowsAre
  <2> QED BY <2>1, <2>2
<1>18. ArrowTells'
  <2> DEFINE Told(u, d, l, mark) ==
               LET f == SortFunction(l, d) IN
               Comparable(f, l, d) /\ Alike(l, f, d) =>
                 Ascending(IF mark = "ASC" THEN l ELSE Reverse(l), f, d)
  <2>1. ArrowTells <=> \A u \in Table, d \in Column :
                         arrow[u][d] # "" /\ <<u, d>> \notin turned /\ OneIdEach =>
                           Told(u, d, rows[u], arrow[u][d])
    BY DEF ArrowTells, Alike
  <2>2. ArrowTells' <=> \A u \in Table, d \in Column : \A l, mark :
                         /\ arrow'[u][d] # "" /\ <<u, d>> \notin turned' /\ OneIdEach'
                         /\ l = rows'[u] /\ mark = arrow'[u][d]
                         => Told(u, d, l, mark)'
    BY DEF ArrowTells, Alike
  <2>3. \A u, d, l, mark : Told(u, d, l, mark)' <=> Told(u, d, l, mark)
    <3>1. \A f, l, d : Comparable(f, l, d)' <=> Comparable(f, l, d)
      BY <1>3 DEF Comparable, Cell
    <3> QED BY <3>1, <1>14, <1>16
  <2> SUFFICES ASSUME NEW u \in Table, NEW d \in Column, arrow'[u][d] # "", <<u, d>> \notin turned'
               PROVE  Told(u, d, rows'[u], arrow'[u][d])
    <3> HIDE DEF Told
    <3> QED BY <2>2, <2>3
  <2>4. CASE u # t
    <3>1. rows'[u] = rows[u] /\ arrow'[u][d] = arrow[u][d] /\ <<u, d>> \notin turned
      BY <1>1, <1>2, <1>8, <1>11, <2>4
    <3> HIDE DEF Told
    <3> QED BY <1>1, <2>1, <3>1
  <2>5. CASE u = t
    <3>1. d = c /\ rows'[u] = newRows
      BY <1>1, <1>8, <1>11, <2>5
    <3> DEFINE g == SortFunction(newRows, c)
    <3> SUFFICES ASSUME Comparable(g, newRows, c), Alike(newRows, g, c)
                 PROVE  Ascending(IF arrow'[t][c] = "ASC" THEN newRows ELSE Reverse(newRows), g, c)
      BY <2>5, <3>1
    <3>2. fn = g
      <4>1. Alike(rows[t], g, c)
        BY <1>7 DEF Alike
      <4> QED BY <1>7, <1>17, <4>1, FunctionOfAlike DEF fn
    <3> HIDE DEF g
    <3>3. Comparable(fn, rows[t], c) /\ Alike(rows[t], fn, c)
      BY <1>7, <3>2 DEF Alike, Comparable
    <3>4. arrow'[t][c] = IF arrow[t][c] = "ASC" THEN "DESC" ELSE "ASC"
      BY <1>11
    <3>5. CASE ~again
      <4>1. arrow'[t][c] = "ASC"
        BY <1>2, <2>5, <3>1, <3>4, <3>5
      <4> QED BY <1>6, <3>2, <3>3, <3>5, <4>1
    <3>6. CASE again
      <4>1. Reverse(newRows) = rows[t] /\ newRows = Reverse(rows[t])
        BY <1>1, <1>5, <3>6, ReverseExact
      <4>2. <<t, c>> \notin turned /\ arrow[t][c] # ""
        BY <1>2, <1>4, <2>5, <3>1, <3>6
      <4>3. Told(t, c, rows[t], arrow[t][c])
        <5> HIDE DEF Told
        <5> QED BY <1>1, <2>1, <4>2
      <4>4. Ascending(IF arrow[t][c] = "ASC" THEN rows[t] ELSE Reverse(rows[t]), fn, c)
        BY <3>3, <4>3 DEF fn
      <4> QED BY <3>2, <3>4, <4>1, <4>4
    <3> QED BY <3>5, <3>6
  <2> QED BY <2>4, <2>5
<1> QED BY <1>9, <1>10, <1>11, <1>12, <1>15, <1>18 DEF PageExact

LEMMA TablesStep == TablesInv /\ [TablesNext]_tableVars => TablesInv'
<1> SUFFICES ASSUME TablesInv, [TablesNext]_tableVars PROVE TablesInv'
  OBVIOUS
<1>1. ASSUME UNCHANGED <<ids, holds, rows, odd, arrow, last, turned>> PROVE TablesInv'
  <2>1. /\ (OneIdEach' <=> OneIdEach) /\ (RowsStay' <=> RowsStay) /\ (LastExact' <=> LastExact)
        /\ (StripesAlternate' <=> StripesAlternate)
    BY <1>1 DEF OneIdEach, RowsStay, LastExact, StripesAlternate
  <2>2. /\ \A f, l, c : Comparable(f, l, c)' <=> Comparable(f, l, c)
        /\ \A f, l, c : Ascending(l, f, c)' <=> Ascending(l, f, c)
        /\ \A l, c : SortFunction(l, c)' = SortFunction(l, c)
        /\ \A r, c : Cell(r, c)' = Cell(r, c)
    BY <1>1 DEF Comparable, Ascending, SortFunction, Cell
  <2>3. (LastGoesOneWay' <=> LastGoesOneWay) /\ (ArrowTells' <=> ArrowTells)
    BY <1>1, <2>1, <2>2 DEF LastGoesOneWay, ArrowTells
  <2> QED BY <1>1, <2>1, <2>3 DEF TablesInv, PageExact
<1>2. ASSUME NEW t \in Table, NEW c \in Column, headingClicked(t, c) PROVE TablesInv'
  <2>1. ids' = ids /\ holds' = holds
    BY <1>2 DEF headingClicked
  <2>2. OneIdEach => PageExact'
    BY <1>2, ClickExact
  <2> QED BY <2>1, <2>2 DEF TablesInv, OneIdEach
<1>3. CASE standardistaTableSortingInit
  BY <1>1, <1>2, <1>3, TableAssumption, ColumnAssumption DEF standardistaTableSortingInit
<1>4. ASSUME NEW t \in Table, NEW c \in Column, UserClicks(t, c) PROVE TablesInv'
  BY <1>2, <1>4 DEF UserClicks
<1>5. CASE UNCHANGED tableVars
  BY <1>1, <1>5 DEF tableVars
<1> QED BY <1>3, <1>4, <1>5 DEF TablesNext

\* However many tables, rows and clicks, the page never leaves TablesInv.
THEOREM TablesInvariant == TablesSpec => []TablesInv
BY TablesInitially, TablesStep, PTL DEF TablesSpec

\* headingClicked: the rows sorted last stand in their table, up or down by the column that was
\* clicked, whatever order sort leaves equals in; moveRows and doStripe: every second row of every
\* table has a stripe after any sort.
THEOREM RowsSortedOneWay == TablesSpec => []SortedOneWay
<1>1. TablesInv => SortedOneWay
  BY DEF TablesInv, PageExact, SortedOneWay, LastGoesOneWay, StripesAlternate
<1> QED BY <1>1, TablesInvariant, PTL

\* headingClicked, the feedback: an arrow says which way its column is sorted, also after sorts
\* of other tables, while no heading with an upward arrow is sorted upwards again.
THEOREM ArrowsTell == TablesSpec => []ArrowTells
<1>1. TablesInv => ArrowTells
  BY DEF TablesInv, PageExact, ArrowTells
<1> QED BY <1>1, TablesInvariant, PTL

-----------------------------------------------------------------------------
(* prettify.js, case folding.  What the loop over the parts has found are the characters of  *)
(* the parts gone through, in either case (Taken); the ranges are in order (InOrder); what   *)
(* is consolidated are the first of them (Kept), with gaps (Gaps), and begins where they do  *)
(* (Behind), which is why only the last of it can meet the next range.                       *)

CharsetTypeOK ==
    /\ charset \in Seq(CharRange)
    /\ part \in 1 .. Len(charset) + 1
    /\ found \in Seq(CharRange)
    /\ ranges \in Seq(CharRange)
    /\ next \in 1 .. Len(ranges) + 1
    /\ consolidatedRanges \in Seq(CharRange)

Taken ==
    \A c \in Int : In(c, ranges) \/ In(c, found)
                   <=> \E n \in 1 .. part - 1 : FoldWithin(c, charset[n])
InOrder ==
    \A i, j \in DOMAIN ranges : i < j => ranges[i][1] <= ranges[j][1]
Staged ==
    next > 1 => found = <<>> /\ part > Len(charset)
Kept ==
    \A c \in Int : In(c, consolidatedRanges)
                   <=> \E j \in 1 .. next - 1 : Within(c, ranges[j])
Gaps ==
    \A m, n \in DOMAIN consolidatedRanges :
        m < n => consolidatedRanges[m][2] + 1 < consolidatedRanges[n][1]
Behind ==
    \A m \in DOMAIN consolidatedRanges :
        next > 1 /\ consolidatedRanges[m][1] <= ranges[next - 1][1]

CharsetInv == CharsetTypeOK /\ Taken /\ InOrder /\ Staged /\ Kept /\ Gaps /\ Behind

-----------------------------------------------------------------------------
(* The operators. *)

LEMMA Pairs ==
    ASSUME NEW r \in CharRange
    PROVE  r[1] \in Int /\ r[2] \in Int /\ r[1] <= r[2]
BY DEF CharRange

LEMMA PairRange ==
    ASSUME NEW s \in Int, NEW e \in Int, s <= e
    PROVE  <<s, e>> \in CharRange /\ \A c \in Int : Within(c, <<s, e>>) <=> s <= c /\ c <= e
BY DEF CharRange, Within

\* The other case of the capitals of a range, and of its small letters.
LEMMA OtherCase ==
    ASSUME NEW s \in Int, NEW e \in Int, s <= e
    PROVE  /\ Upwards(s, e) \in Seq(CharRange) /\ Downwards(s, e) \in Seq(CharRange)
           /\ \A c \in Int : In(c, Upwards(s, e)) <=> c \in Lower /\ s <= c - 32 /\ c - 32 <= e
           /\ \A c \in Int : In(c, Downwards(s, e)) <=> c \in Upper /\ s <= c + 32 /\ c + 32 <= e
<1> DEFINE up   == <<ToLower(Larger(65, s)), ToLower(Smaller(e, 90))>>
           down == <<ToUpper(Larger(97, s)), ToUpper(Smaller(e, 122))>>
<1>1. /\ Upwards(s, e) \in Seq(CharRange)
      /\ \A c \in Int : In(c, Upwards(s, e)) <=> c \in Lower /\ s <= c - 32 /\ c - 32 <= e
  <2>1. CASE e < 65 \/ s > 90
    <3>1. Upwards(s, e) = <<>>
      BY <2>1 DEF Upwards
    <3> QED BY <2>1, <3>1 DEF In, Lower
  <2>2. CASE ~(e < 65 \/ s > 90)
    <3>1. Upwards(s, e) = <<up>>
      BY <2>2 DEF Upwards
    <3>2. /\ ToLower(Larger(65, s)) = Larger(65, s) + 32
          /\ ToLower(Smaller(e, 90)) = Smaller(e, 90) + 32
          /\ Larger(65, s) \in Int /\ Smaller(e, 90) \in Int
          /\ Larger(65, s) <= Smaller(e, 90)
      BY <2>2 DEF ToLower, Larger, Smaller, Upper
    <3>3. up \in CharRange /\ \A c \in Int : Within(c, up) <=> Larger(65, s) + 32 <= c /\ c <= Smaller(e, 90) + 32
      BY <3>2, PairRange
    <3>4. \A c \in Int : Within(c, up) <=> c \in Lower /\ s <= c - 32 /\ c - 32 <= e
      BY <3>3 DEF Larger, Smaller, Lower
    <3> HIDE DEF up
    <3>5. \A c : In(c, <<up>>) <=> Within(c, up)
      BY DEF In
    <3> QED BY <3>1, <3>3, <3>4, <3>5
  <2> QED BY <2>1, <2>2
<1>2. /\ Downwards(s, e) \in Seq(CharRange)
      /\ \A c \in Int : In(c, Downwards(s, e)) <=> c \in Upper /\ s <= c + 32 /\ c + 32 <= e
  <2>1. CASE e < 97 \/ s > 122
    <3>1. Downwards(s, e) = <<>>
      BY <2>1 DEF Downwards
    <3> QED BY <2>1, <3>1 DEF In, Upper
  <2>2. CASE ~(e < 97 \/ s > 122)
    <3>1. Downwards(s, e) = <<down>>
      BY <2>2 DEF Downwards
    <3>2. /\ ToUpper(Larger(97, s)) = Larger(97, s) - 32
          /\ ToUpper(Smaller(e, 122)) = Smaller(e, 122) - 32
          /\ Larger(97, s) \in Int /\ Smaller(e, 122) \in Int
          /\ Larger(97, s) <= Smaller(e, 122)
      BY <2>2 DEF ToUpper, Larger, Smaller, Lower
    <3>3. down \in CharRange
          /\ \A c \in Int : Within(c, down) <=> Larger(97, s) - 32 <= c /\ c <= Smaller(e, 122) - 32
      BY <3>2, PairRange
    <3>4. \A c \in Int : Within(c, down) <=> c \in Upper /\ s <= c + 32 /\ c + 32 <= e
      BY <3>3 DEF Larger, Smaller, Upper
    <3> HIDE DEF down
    <3>5. \A c : In(c, <<down>>) <=> Within(c, down)
      BY DEF In
    <3> QED BY <3>1, <3>3, <3>4, <3>5
  <2> QED BY <2>1, <2>2
<1> QED BY <1>1, <1>2

\* What a sequence has, split at its head, and joined with another.
LEMMA InHead ==
    ASSUME NEW list \in Seq(CharRange), list # <<>>
    PROVE  /\ Head(list) \in CharRange /\ Tail(list) \in Seq(CharRange)
           /\ \A c \in Int : In(c, list) <=> Within(c, Head(list)) \/ In(c, Tail(list))
<1>1. Len(list) \in Nat \ {0} /\ DOMAIN list = 1 .. Len(list)
  BY EmptySeq, LenProperties
<1>2. /\ Head(list) = list[1] /\ Head(list) \in CharRange
      /\ Tail(list) \in Seq(CharRange) /\ Len(Tail(list)) = Len(list) - 1
      /\ \A i \in 1 .. Len(Tail(list)) : Tail(list)[i] = list[i + 1]
  BY <1>1, HeadTailProperties
<1>3. ASSUME NEW c \in Int PROVE In(c, list) <=> Within(c, Head(list)) \/ In(c, Tail(list))
  <2>1. ASSUME In(c, list) PROVE Within(c, Head(list)) \/ In(c, Tail(list))
    <3>1. PICK n \in 1 .. Len(list) : Within(c, list[n])
      BY <2>1, <1>1 DEF In
    <3>2. CASE n = 1
      BY <3>1, <3>2, <1>2
    <3>3. CASE n # 1
      <4>1. n - 1 \in 1 .. Len(Tail(list)) /\ Tail(list)[n - 1] = list[n]
        BY <3>3, <1>1, <1>2
      <4>2. n - 1 \in DOMAIN Tail(list)
        BY <4>1, <1>2, LenProperties
      <4> QED BY <3>1, <4>1, <4>2 DEF In
    <3> QED BY <3>2, <3>3
  <2>2. ASSUME Within(c, Head(list)) PROVE In(c, list)
    BY <2>2, <1>1, <1>2 DEF In
  <2>3. ASSUME In(c, Tail(list)) PROVE In(c, list)
    <3>1. PICK n \in 1 .. Len(Tail(list)) : Within(c, Tail(list)[n])
      BY <2>3, <1>2, LenProperties DEF In
    <3>2. n + 1 \in DOMAIN list /\ Within(c, list[n + 1])
      BY <3>1, <1>1, <1>2
    <3> QED BY <3>2 DEF In
  <2> QED BY <2>1, <2>2, <2>3
<1> QED BY <1>2, <1>3

LEMMA InConcat ==
    ASSUME NEW a \in Seq(CharRange), NEW b \in Seq(CharRange)
    PROVE  /\ a \o b \in Seq(CharRange)
           /\ \A c \in Int : In(c, a \o b) <=> In(c, a) \/ In(c, b)
<1>1. /\ a \o b \in Seq(CharRange) /\ Len(a \o b) = Len(a) + Len(b)
      /\ \A i \in 1 .. Len(a) + Len(b) : (a \o b)[i] = IF i <= Len(a) THEN a[i] ELSE b[i - Len(a)]
  BY ConcatProperties
<1>2. /\ DOMAIN a = 1 .. Len(a) /\ DOMAIN b = 1 .. Len(b) /\ DOMAIN (a \o b) = 1 .. Len(a) + Len(b)
      /\ Len(a) \in Nat /\ Len(b) \in Nat
  BY <1>1, LenProperties
<1>3. ASSUME NEW c \in Int PROVE In(c, a \o b) <=> In(c, a) \/ In(c, b)
  <2>1. ASSUME In(c, a \o b) PROVE In(c, a) \/ In(c, b)
    <3>1. PICK n \in 1 .. Len(a) + Len(b) : Within(c, (a \o b)[n])
      BY <2>1, <1>2 DEF In
    <3>2. CASE n <= Len(a)
      BY <3>1, <3>2, <1>1, <1>2 DEF In
    <3>3. CASE n > Len(a)
      <4>1. n - Len(a) \in DOMAIN b /\ Within(c, b[n - Len(a)])
        BY <3>1, <3>3, <1>1, <1>2
      <4> QED BY <4>1 DEF In
    <3> QED BY <3>2, <3>3, <1>2
  <2>2. ASSUME In(c, a) PROVE In(c, a \o b)
    <3>1. PICK n \in 1 .. Len(a) : Within(c, a[n])
      BY <2>2, <1>2 DEF In
    <3>2. n \in DOMAIN (a \o b) /\ Within(c, (a \o b)[n])
      BY <3>1, <1>1, <1>2
    <3> QED BY <3>2 DEF In
  <2>3. ASSUME In(c, b) PROVE In(c, a \o b)
    <3>1. PICK n \in 1 .. Len(b) : Within(c, b[n])
      BY <2>3, <1>2 DEF In
    <3>2. Len(a) + n \in DOMAIN (a \o b) /\ Within(c, (a \o b)[Len(a) + n])
      BY <3>1, <1>1, <1>2
    <3> QED BY <3>2 DEF In
  <2> QED BY <2>1, <2>2, <2>3
<1> QED BY <1>1, <1>3

\* Folded of a range: ranges, of the characters that are in it in either case.
LEMMA FoldedRanges ==
    ASSUME NEW r \in CharRange
    PROVE  /\ Folded(r[1], r[2]) \in Seq(CharRange)
           /\ \A c \in Int : In(c, Folded(r[1], r[2])) <=> FoldWithin(c, r)
<1> DEFINE own == <<r[1], r[2]>>
<1>1. r[1] \in Int /\ r[2] \in Int /\ r[1] <= r[2]
  BY Pairs
<1>2. own \in CharRange /\ \A c \in Int : Within(c, own) <=> r[1] <= c /\ c <= r[2]
  BY <1>1, PairRange
<1> HIDE DEF own
<1>3. <<own>> \in Seq(CharRange) /\ \A c : In(c, <<own>>) <=> Within(c, own)
  BY <1>2 DEF In
<1>4. /\ Folded(r[1], r[2]) \in Seq(CharRange)
      /\ \A c \in Int : In(c, Folded(r[1], r[2]))
                        <=> Within(c, own) \/ In(c, Upwards(r[1], r[2])) \/ In(c, Downwards(r[1], r[2]))
  <2>1. /\ <<own>> \o Upwards(r[1], r[2]) \in Seq(CharRange)
        /\ \A c \in Int : In(c, <<own>> \o Upwards(r[1], r[2])) <=> Within(c, own) \/ In(c, Upwards(r[1], r[2]))
    BY <1>1, <1>3, OtherCase, InConcat, ZenonT(60)
  <2>2. Folded(r[1], r[2]) = (<<own>> \o Upwards(r[1], r[2])) \o Downwards(r[1], r[2])
    BY DEF Folded, own
  <2>3. Downwards(r[1], r[2]) \in Seq(CharRange)
    BY <1>1, OtherCase
  <2> HIDE DEF own
  <2>4. /\ (<<own>> \o Upwards(r[1], r[2])) \o Downwards(r[1], r[2]) \in Seq(CharRange)
        /\ \A c \in Int : In(c, (<<own>> \o Upwards(r[1], r[2])) \o Downwards(r[1], r[2]))
                          <=> In(c, <<own>> \o Upwards(r[1], r[2])) \/ In(c, Downwards(r[1], r[2]))
    BY <2>1, <2>3, InConcat, Zenon
  <2> QED BY <2>1, <2>2, <2>4, Zenon
<1>5. ASSUME NEW c \in Int
      PROVE  Within(c, own) \/ In(c, Upwards(r[1], r[2])) \/ In(c, Downwards(r[1], r[2])) <=> FoldWithin(c, r)
  <2>1. /\ In(c, Upwards(r[1], r[2])) <=> c \in Lower /\ r[1] <= c - 32 /\ c - 32 <= r[2]
        /\ In(c, Downwards(r[1], r[2])) <=> c \in Upper /\ r[1] <= c + 32 /\ c + 32 <= r[2]
    BY <1>1, OtherCase
  <2>2. (Within(c, own) <=> r[1] <= c /\ c <= r[2]) /\ (Within(c, r) <=> r[1] <= c /\ c <= r[2])
    BY <1>2 DEF Within
  <2>3. CASE c \in Lower
    <3>1. ToUpper(c) = c - 32 /\ ToLower(c) = c /\ c \notin Upper
      BY <2>3 DEF ToUpper, ToLower, Lower, Upper
    <3>2. FoldWithin(c, r) <=> Within(c, r) \/ Within(c - 32, r)
      BY <3>1, Zenon DEF FoldWithin
    <3>3. Within(c - 32, r) <=> r[1] <= c - 32 /\ c - 32 <= r[2]
      BY DEF Within
    <3> QED BY <2>1, <2>2, <2>3, <3>1, <3>2, <3>3, Zenon
  <2>4. CASE c \in Upper
    <3>1. ToUpper(c) = c /\ ToLower(c) = c + 32 /\ c \notin Lower
      BY <2>4 DEF ToUpper, ToLower, Lower, Upper
    <3>2. FoldWithin(c, r) <=> Within(c, r) \/ Within(c + 32, r)
      BY <3>1, Zenon DEF FoldWithin
    <3>3. Within(c + 32, r) <=> r[1] <= c + 32 /\ c + 32 <= r[2]
      BY DEF Within
    <3> QED BY <2>1, <2>2, <2>4, <3>1, <3>2, <3>3, Zenon
  <2>5. CASE c \notin Lower /\ c \notin Upper
    <3>1. ToUpper(c) = c /\ ToLower(c) = c
      BY <2>5 DEF ToUpper, ToLower
    <3>2. FoldWithin(c, r) <=> Within(c, r)
      BY <3>1, Zenon DEF FoldWithin
    <3> QED BY <2>1, <2>2, <2>5, <3>2, Zenon
  <2> QED BY <2>3, <2>4, <2>5
<1> QED BY <1>4, <1>5
\* What sort does with one more range: the ranges stay in order, and have its characters too.
Inserted(list, n, range) ==
    [j \in 1 .. Len(list) + 1 |-> IF j <= n THEN list[j] ELSE IF j = n + 1 THEN range ELSE list[j - 1]]

LEMMA InsertedRanges ==
    ASSUME NEW list \in Seq(CharRange), NEW range \in CharRange, NEW n \in 0 .. Len(list)
    PROVE  /\ Inserted(list, n, range) \in Seq(CharRange)
           /\ Len(Inserted(list, n, range)) = Len(list) + 1
           /\ \A c \in Int : In(c, Inserted(list, n, range)) <=> In(c, list) \/ Within(c, range)
<1> DEFINE new == Inserted(list, n, range)
<1>1. Len(list) \in Nat /\ DOMAIN list = 1 .. Len(list) /\ \A j \in 1 .. Len(list) : list[j] \in CharRange
  BY LenProperties, ElementOfSeq
<1>2. \A j \in 1 .. Len(list) + 1 : new[j] = IF j <= n THEN list[j] ELSE IF j = n + 1 THEN range ELSE list[j - 1]
  BY DEF Inserted
<1>3. \A j \in 1 .. Len(list) + 1 : new[j] \in CharRange
  <2> SUFFICES ASSUME NEW j \in 1 .. Len(list) + 1 PROVE new[j] \in CharRange
    OBVIOUS
  <2>1. CASE j <= n
    BY <2>1, <1>1, <1>2
  <2>2. CASE j = n + 1
    BY <2>2, <1>1, <1>2
  <2>3. CASE j > n + 1
    BY <2>3, <1>1, <1>2
  <2> QED BY <2>1, <2>2, <2>3, <1>1
<1>4. DOMAIN new = 1 .. Len(list) + 1
  BY DEF Inserted
<1>5. new \in [1 .. Len(list) + 1 -> CharRange]
  <2>1. new = [j \in 1 .. Len(list) + 1 |-> new[j]]
    BY DEF Inserted
  <2> HIDE DEF new
  <2> QED BY <2>1, <1>3
<1> HIDE DEF new
<1>6. new \in Seq(CharRange) /\ Len(new) = Len(list) + 1
  BY <1>1, <1>4, <1>5, SeqDef, LenProperties
<1>7. ASSUME NEW c \in Int PROVE In(c, new) <=> In(c, list) \/ Within(c, range)
  <2>1. ASSUME In(c, new) PROVE In(c, list) \/ Within(c, range)
    <3>1. PICK j \in 1 .. Len(list) + 1 : Within(c, new[j])
      BY <2>1, <1>4 DEF In
    <3>2. CASE j <= n
      <4>1. j \in DOMAIN list /\ new[j] = list[j]
        BY <3>2, <1>1, <1>2
      <4> QED BY <3>1, <4>1 DEF In
    <3>3. CASE j = n + 1
      BY <3>1, <3>3, <1>1, <1>2
    <3>4. CASE j > n + 1
      <4>1. j - 1 \in DOMAIN list /\ new[j] = list[j - 1]
        BY <3>4, <1>1, <1>2
      <4> QED BY <3>1, <4>1 DEF In
    <3> QED BY <3>2, <3>3, <3>4, <1>1
  <2>2. ASSUME In(c, list) PROVE In(c, new)
    <3>1. PICK j \in 1 .. Len(list) : Within(c, list[j])
      BY <2>2, <1>1 DEF In
    <3>2. CASE j <= n
      <4>1. j \in DOMAIN new /\ new[j] = list[j]
        BY <3>2, <1>1, <1>2, <1>4
      <4> QED BY <3>1, <4>1 DEF In
    <3>3. CASE j > n
      <4>1. j + 1 \in DOMAIN new /\ new[j + 1] = list[j]
        BY <3>3, <1>1, <1>2, <1>4
      <4> QED BY <3>1, <4>1 DEF In
    <3> QED BY <3>2, <3>3, <1>1
  <2>3. ASSUME Within(c, range) PROVE In(c, new)
    <3>1. n + 1 \in DOMAIN new /\ new[n + 1] = range
      BY <1>1, <1>2, <1>4
    <3> QED BY <2>3, <3>1 DEF In
  <2> QED BY <2>1, <2>2, <2>3
<1> QED BY <1>6, <1>7 DEF new

LEMMA InsertedInOrder ==
    ASSUME NEW list \in Seq(CharRange), NEW range \in CharRange, NEW n \in 0 .. Len(list),
           \A i, j \in DOMAIN list : i < j => list[i][1] <= list[j][1],
           n > 0 => ~Before(range, list[n]),
           n < Len(list) => Before(range, list[n + 1]),
           NEW i \in 1 .. Len(list) + 1, NEW j \in 1 .. Len(list) + 1, i < j
    PROVE  Inserted(list, n, range)[i][1] <= Inserted(list, n, range)[j][1]
<1> DEFINE new == Inserted(list, n, range)
           start == range[1]
           begin(k) == list[k][1]
<1>1. Len(list) \in Nat /\ DOMAIN list = 1 .. Len(list) /\ start \in Int
      /\ \A k \in 1 .. Len(list) : begin(k) \in Int /\ list[k] \in CharRange
  BY LenProperties, ElementOfSeq, Pairs
<1>2. \A k \in 1 .. Len(list) + 1 : new[k][1] = IF k <= n THEN begin(k) ELSE IF k = n + 1 THEN start ELSE begin(k - 1)
  BY DEF Inserted
<1>3. n > 0 => begin(n) <= start
  <2> SUFFICES ASSUME n > 0 PROVE begin(n) <= start
    OBVIOUS
  <2>1. ~(start < begin(n))
    BY DEF Before
  <2>2. begin(n) \in Int
    BY <1>1
  <2> QED BY <1>1, <2>1, <2>2
<1>4. n < Len(list) => start <= begin(n + 1)
  <2> SUFFICES ASSUME n < Len(list) PROVE start <= begin(n + 1)
    OBVIOUS
  <2>1. start < begin(n + 1) \/ start = begin(n + 1)
    BY DEF Before
  <2>2. begin(n + 1) \in Int
    BY <1>1
  <2> QED BY <1>1, <2>1, <2>2
<1>5. \A k, l \in 1 .. Len(list) : k < l => begin(k) <= begin(l)
  BY <1>1
<1> HIDE DEF new, start, begin
<1>6. \A k \in 1 .. Len(list) : k <= n => begin(k) <= start
  <2> SUFFICES ASSUME NEW k \in 1 .. Len(list), k <= n PROVE begin(k) <= start
    OBVIOUS
  <2>1. n > 0 /\ n \in 1 .. Len(list) /\ (k = n \/ k < n)
    BY <1>1
  <2>2. begin(k) <= begin(n)
    BY <1>1, <1>5, <2>1
  <2> QED BY <1>1, <1>3, <2>1, <2>2
<1>7. \A k \in 1 .. Len(list) : k > n => start <= begin(k)
  <2> SUFFICES ASSUME NEW k \in 1 .. Len(list), k > n PROVE start <= begin(k)
    OBVIOUS
  <2>1. n < Len(list) /\ n + 1 \in 1 .. Len(list) /\ (k = n + 1 \/ n + 1 < k)
    BY <1>1
  <2>2. begin(n + 1) <= begin(k)
    BY <1>1, <1>5, <2>1
  <2> QED BY <1>1, <1>4, <2>1, <2>2
<1>8. CASE i <= n /\ j <= n
  BY <1>1, <1>2, <1>5, <1>8 DEF new
<1>9. CASE i <= n /\ j = n + 1
  BY <1>1, <1>2, <1>6, <1>9, SMTT(40) DEF new
<1>10. CASE i <= n /\ j > n + 1
  <2>1. i \in 1 .. Len(list) /\ j - 1 \in 1 .. Len(list) /\ i < j - 1
    BY <1>1, <1>10
  <2>2. new[i][1] = begin(i) /\ new[j][1] = begin(j - 1)
    BY <1>2, <1>10
  <2> QED BY <1>5, <2>1, <2>2 DEF new
<1>11. CASE i = n + 1
  <2>1. j - 1 \in 1 .. Len(list) /\ j - 1 > n /\ ~(j <= n) /\ j # n + 1 /\ ~(i <= n)
    BY <1>1, <1>11
  <2>2. new[i][1] = start /\ new[j][1] = begin(j - 1)
    BY <1>2, <1>11, <2>1
  <2> QED BY <1>7, <2>1, <2>2 DEF new
<1>12. CASE i > n + 1
  <2>1. i - 1 \in 1 .. Len(list) /\ j - 1 \in 1 .. Len(list) /\ i - 1 < j - 1
    BY <1>1, <1>12
  <2>2. new[i][1] = begin(i - 1) /\ new[j][1] = begin(j - 1)
    BY <1>1, <1>2, <1>12
  <2> QED BY <1>5, <2>1, <2>2 DEF new
<1> QED BY <1>1, <1>8, <1>9, <1>10, <1>11, <1>12
\* A range made longer: itself, and what the other adds that begins in it or right after it.
LEMMA Longer ==
    ASSUME NEW a \in CharRange, NEW b \in CharRange, a[1] <= b[1], b[1] <= a[2] + 1
    PROVE  /\ [a EXCEPT ![2] = Larger(@, b[2])] \in CharRange
           /\ [a EXCEPT ![2] = Larger(@, b[2])][1] = a[1]
           /\ \A c \in Int : Within(c, [a EXCEPT ![2] = Larger(@, b[2])]) <=> Within(c, a) \/ Within(c, b)
<1> DEFINE new == [a EXCEPT ![2] = Larger(@, b[2])]
<1>1. /\ a[1] \in Int /\ a[2] \in Int /\ a[1] <= a[2]
      /\ b[1] \in Int /\ b[2] \in Int /\ b[1] <= b[2]
      /\ a \in Int \X Int
  BY DEF CharRange
<1>2. Larger(a[2], b[2]) \in Int /\ a[2] <= Larger(a[2], b[2]) /\ b[2] <= Larger(a[2], b[2])
      /\ (Larger(a[2], b[2]) = a[2] \/ Larger(a[2], b[2]) = b[2])
  BY <1>1 DEF Larger
<1>3. new \in Int \X Int /\ new[1] = a[1] /\ new[2] = Larger(a[2], b[2])
  BY <1>1, <1>2
<1>4. ASSUME NEW c \in Int PROVE Within(c, new) <=> Within(c, a) \/ Within(c, b)
  BY <1>1, <1>2, <1>3 DEF Within
<1>5. new \in CharRange
  BY <1>1, <1>2, <1>3 DEF CharRange
<1> QED BY <1>3, <1>4, <1>5

\* One range more consolidated, that begins no sooner than all of them.
LEMMA JoinedRanges ==
    ASSUME NEW done \in Seq(CharRange), NEW range \in CharRange,
           \A m, n \in DOMAIN done : m < n => done[m][2] + 1 < done[n][1],
           \A m \in DOMAIN done : done[m][1] <= range[1]
    PROVE  /\ Joined(done, range) \in Seq(CharRange)
           /\ \A c \in Int : In(c, Joined(done, range)) <=> In(c, done) \/ Within(c, range)
           /\ \A m, n \in DOMAIN Joined(done, range) :
                m < n => Joined(done, range)[m][2] + 1 < Joined(done, range)[n][1]
           /\ \A m \in DOMAIN Joined(done, range) : Joined(done, range)[m][1] <= range[1]
<1> DEFINE k == Len(done)
           new == Joined(done, range)
<1>1. /\ k \in Nat /\ DOMAIN done = 1 .. k
      /\ \A m \in 1 .. k : done[m] \in CharRange
  BY LenProperties, ElementOfSeq
<1>2. \A m \in 1 .. k : done[m][1] \in Int /\ done[m][2] \in Int /\ done[m][1] <= done[m][2]
  BY <1>1, Pairs
<1>3. range[1] \in Int /\ range[2] \in Int /\ range[1] <= range[2]
  BY Pairs
<1> HIDE DEF k
<1>4. CASE k > 0 /\ range[1] <= done[k][2] + 1
  <2> DEFINE longer == [done[k] EXCEPT ![2] = Larger(@, range[2])]
  <2>1. k \in 1 .. k /\ done[k] \in CharRange /\ done[k][1] <= range[1]
    BY <1>1, <1>4
  <2>2. /\ longer \in CharRange /\ longer[1] = done[k][1]
        /\ \A c \in Int : Within(c, longer) <=> Within(c, done[k]) \/ Within(c, range)
    BY <1>4, <2>1, Longer
  <2>3. new = [done EXCEPT ![k] = longer]
    BY <1>4 DEF Joined, k
  <2> HIDE DEF longer, new
  <2>4. new \in Seq(CharRange) /\ DOMAIN new = 1 .. k
    BY <1>1, <2>1, <2>2, <2>3, ExceptSeq
  <2>5. \A m \in 1 .. k : new[m] = IF m = k THEN longer ELSE done[m]
    BY <1>1, <2>3
  <2>6. ASSUME NEW c \in Int PROVE In(c, new) <=> In(c, done) \/ Within(c, range)
    <3>1. ASSUME In(c, new) PROVE In(c, done) \/ Within(c, range)
      <4>1. PICK m \in 1 .. k : Within(c, new[m])
        BY <3>1, <2>4 DEF In
      <4> QED BY <4>1, <1>1, <2>1, <2>2, <2>5 DEF In
    <3>2. ASSUME In(c, done) PROVE In(c, new)
      <4>1. PICK m \in 1 .. k : Within(c, done[m])
        BY <3>2, <1>1 DEF In
      <4> QED BY <4>1, <2>2, <2>4, <2>5 DEF In
    <3>3. ASSUME Within(c, range) PROVE In(c, new)
      BY <3>3, <2>1, <2>2, <2>4, <2>5 DEF In
    <3> QED BY <3>1, <3>2, <3>3
  <2>7. ASSUME NEW m \in 1 .. k, NEW n \in 1 .. k, m < n PROVE new[m][2] + 1 < new[n][1]
    <3>1. m # k
      BY <1>1, <2>7
    <3>2. new[m] = done[m]
      BY <2>5, <3>1
    <3>3. new[n][1] = done[n][1]
      BY <2>2, <2>5
    <3> QED BY <1>1, <2>7, <3>2, <3>3
  <2>8. \A m \in 1 .. k : new[m][1] <= range[1]
    BY <1>1, <2>2, <2>5
  <2> QED BY <2>4, <2>6, <2>7, <2>8 DEF new
<1>5. CASE ~(k > 0 /\ range[1] <= done[k][2] + 1)
  <2>1. new = Append(done, range)
    BY <1>5 DEF Joined, k
  <2> HIDE DEF new
  <2>2. /\ new \in Seq(CharRange) /\ DOMAIN new = 1 .. k + 1
        /\ \A m \in 1 .. k : new[m] = done[m]
        /\ new[k + 1] = range
    BY <1>1, <2>1, AppendProperties, LenProperties DEF k
  <2>3. ASSUME NEW c \in Int PROVE In(c, new) <=> In(c, done) \/ Within(c, range)
    <3>1. ASSUME In(c, new) PROVE In(c, done) \/ Within(c, range)
      <4>1. PICK m \in 1 .. k + 1 : Within(c, new[m])
        BY <3>1, <2>2 DEF In
      <4>2. m \in 1 .. k \/ m = k + 1
        BY <1>1
      <4> QED BY <4>1, <4>2, <1>1, <2>2 DEF In
    <3>2. ASSUME In(c, done) PROVE In(c, new)
      <4>1. PICK m \in 1 .. k : Within(c, done[m])
        BY <3>2, <1>1 DEF In
      <4>2. m \in DOMAIN new
        BY <1>1, <2>2
      <4> QED BY <4>1, <4>2, <2>2 DEF In
    <3>3. ASSUME Within(c, range) PROVE In(c, new)
      BY <3>3, <1>1, <2>2 DEF In
    <3> QED BY <3>1, <3>2, <3>3
  <2>4. \A m \in 1 .. k : done[m][2] + 1 < range[1]
    <3> SUFFICES ASSUME NEW m \in 1 .. k PROVE done[m][2] + 1 < range[1]
      OBVIOUS
    <3>1. k \in 1 .. k /\ done[k][2] + 1 < range[1]
      BY <1>1, <1>2, <1>3, <1>5
    <3>2. CASE m = k
      BY <3>1, <3>2
    <3>3. CASE m # k
      <4>1. m < k /\ k \in 1 .. k
        BY <1>1, <3>1, <3>3
      <4>2. done[m][2] + 1 < done[k][1]
        BY <1>1, <4>1
      <4>3. done[m][2] \in Int /\ done[k][1] \in Int /\ done[k][2] \in Int /\ done[k][1] <= done[k][2]
        BY <1>2, <4>1
      <4> QED BY <1>3, <3>1, <4>2, <4>3, SMTT(30)
    <3> QED BY <3>2, <3>3
  <2>5. ASSUME NEW m \in 1 .. k + 1, NEW n \in 1 .. k + 1, m < n PROVE new[m][2] + 1 < new[n][1]
    <3>1. m \in 1 .. k /\ new[m] = done[m]
      BY <1>1, <2>2, <2>5
    <3>2. CASE n = k + 1
      BY <2>2, <2>4, <3>1, <3>2
    <3>3. CASE n # k + 1
      <4>1. n \in 1 .. k /\ new[n] = done[n]
        BY <1>1, <2>2, <3>3
      <4> QED BY <1>1, <2>5, <3>1, <4>1
    <3> QED BY <3>2, <3>3
  <2>6. \A m \in 1 .. k + 1 : new[m][1] <= range[1]
    <3> SUFFICES ASSUME NEW m \in 1 .. k + 1 PROVE new[m][1] <= range[1]
      OBVIOUS
    <3>1. m \in 1 .. k \/ m = k + 1
      BY <1>1
    <3> QED BY <3>1, <1>1, <1>3, <2>2
  <2> QED BY <2>2, <2>3, <2>5, <2>6 DEF new
<1> QED BY <1>4, <1>5

-----------------------------------------------------------------------------
(* The invariant. *)

LEMMA CharsetStarts == CharsetInit => CharsetInv
<1> SUFFICES ASSUME CharsetInit PROVE CharsetInv
  OBVIOUS
<1>1. charset \in Seq(CharRange) /\ Len(charset) \in Nat
  BY CharsetsAssumption, LenProperties DEF CharsetInit
<1>2. /\ part = 1 /\ next = 1 /\ found = <<>> /\ ranges = <<>> /\ consolidatedRanges = <<>>
      /\ <<>> \in Seq(CharRange) /\ Len(<<>>) = 0 /\ DOMAIN <<>> = {}
  BY DEF CharsetInit
<1>3. CharsetTypeOK
  BY <1>1, <1>2 DEF CharsetTypeOK
<1>4. Taken /\ Kept
  BY <1>2 DEF Taken, Kept, In
<1>5. InOrder /\ Staged /\ Gaps /\ Behind
  BY <1>2 DEF InOrder, Staged, Gaps, Behind
<1> QED BY <1>3, <1>4, <1>5 DEF CharsetInv

LEMMA FoldPartKeeps == CharsetInv /\ FoldPart => CharsetInv'
<1> SUFFICES ASSUME CharsetInv, FoldPart PROVE CharsetInv'
  OBVIOUS
<1> DEFINE range == charset[part]
<1>1. /\ part \in 1 .. Len(charset) /\ part' = part + 1 /\ range \in CharRange
      /\ Len(charset) \in Nat
      /\ found = <<>> /\ found' = Folded(range[1], range[2])
      /\ UNCHANGED <<charset, ranges, next, consolidatedRanges>>
  BY LenProperties, ElementOfSeq DEF CharsetInv, CharsetTypeOK, FoldPart
<1>2. /\ found' \in Seq(CharRange)
      /\ \A c \in Int : In(c, found') <=> FoldWithin(c, range)
  <2> HIDE DEF range
  <2> QED BY <1>1, FoldedRanges
<1>3. CharsetTypeOK'
  BY <1>1, <1>2 DEF CharsetInv, CharsetTypeOK
<1>4. Taken'
  <2> SUFFICES ASSUME NEW c \in Int
               PROVE  In(c, ranges) \/ In(c, found') <=> \E n \in 1 .. part : FoldWithin(c, charset[n])
    BY <1>1 DEF Taken
  <2>1. In(c, ranges) <=> \E n \in 1 .. part - 1 : FoldWithin(c, charset[n])
    BY <1>1 DEF CharsetInv, Taken, In
  <2>2. In(c, found') <=> FoldWithin(c, charset[part])
    BY <1>2
  <2>3. \A n : n \in 1 .. part <=> n \in 1 .. part - 1 \/ n = part
    BY <1>1
  <2> QED BY <2>1, <2>2, <2>3
<1>5. next = 1
  BY <1>1 DEF CharsetInv, Staged, CharsetTypeOK
<1>6. InOrder' /\ Staged' /\ Kept' /\ Gaps' /\ Behind'
  BY <1>1, <1>5 DEF CharsetInv, InOrder, Staged, Kept, Gaps, Behind
<1> QED BY <1>3, <1>4, <1>6 DEF CharsetInv

LEMMA SortKeeps == CharsetInv /\ Sort => CharsetInv'
<1> SUFFICES ASSUME CharsetInv, Sort PROVE CharsetInv'
  OBVIOUS
<1> DEFINE range == Head(found)
<1>1. /\ found \in Seq(CharRange) /\ found # <<>> /\ ranges \in Seq(CharRange)
      /\ found' = Tail(found)
      /\ UNCHANGED <<charset, part, next, consolidatedRanges>>
  BY DEF CharsetInv, CharsetTypeOK, Sort
<1>2. /\ range \in CharRange /\ found' \in Seq(CharRange)
      /\ \A c \in Int : In(c, found) <=> Within(c, range) \/ In(c, found')
  BY <1>1, InHead
<1>3. PICK n \in 0 .. Len(ranges) :
        /\ n > 0 => ~Before(range, ranges[n])
        /\ n < Len(ranges) => Before(range, ranges[n + 1])
        /\ ranges' = Inserted(ranges, n, range)
  BY DEF Sort, Inserted
<1> HIDE DEF range
<1>4. /\ ranges' \in Seq(CharRange) /\ Len(ranges') = Len(ranges) + 1
      /\ DOMAIN ranges' = 1 .. Len(ranges) + 1 /\ DOMAIN ranges = 1 .. Len(ranges)
      /\ Len(ranges) \in Nat
      /\ \A c \in Int : In(c, ranges') <=> In(c, ranges) \/ Within(c, range)
  <2>1. /\ ranges' \in Seq(CharRange) /\ Len(ranges') = Len(ranges) + 1
        /\ \A c \in Int : In(c, ranges') <=> In(c, ranges) \/ Within(c, range)
    BY <1>1, <1>2, <1>3, InsertedRanges, Zenon
  <2>2. DOMAIN ranges' = 1 .. Len(ranges') /\ DOMAIN ranges = 1 .. Len(ranges) /\ Len(ranges) \in Nat
    BY <1>1, <2>1, LenProperties
  <2> QED BY <2>1, <2>2
<1>5. next = 1
  BY <1>1 DEF CharsetInv, Staged, CharsetTypeOK
<1>6. CharsetTypeOK'
  BY <1>1, <1>2, <1>4, <1>5 DEF CharsetInv, CharsetTypeOK
<1>7. Taken'
  <2> SUFFICES ASSUME NEW c \in Int
               PROVE  In(c, ranges') \/ In(c, found') <=> In(c, ranges) \/ In(c, found)
    BY <1>1 DEF CharsetInv, Taken
  <2> QED BY <1>2, <1>4
<1>8. InOrder'
  <2> SUFFICES ASSUME NEW i \in 1 .. Len(ranges) + 1, NEW j \in 1 .. Len(ranges) + 1, i < j
               PROVE  ranges'[i][1] <= ranges'[j][1]
    BY <1>4 DEF InOrder
  <2>1. \A k, l \in DOMAIN ranges : k < l => ranges[k][1] <= ranges[l][1]
    BY DEF CharsetInv, InOrder
  <2> QED BY <1>1, <1>2, <1>3, <2>1, InsertedInOrder
<1>9. Staged' /\ Kept' /\ Gaps' /\ Behind'
  BY <1>1, <1>5 DEF CharsetInv, Staged, Kept, Gaps, Behind
<1> QED BY <1>6, <1>7, <1>8, <1>9 DEF CharsetInv

LEMMA ConsolidateKeeps == CharsetInv /\ Consolidate => CharsetInv'
<1> SUFFICES ASSUME CharsetInv, Consolidate PROVE CharsetInv'
  OBVIOUS
<1> DEFINE range == ranges[next]
<1>1. /\ consolidatedRanges \in Seq(CharRange) /\ ranges \in Seq(CharRange)
      /\ next \in 1 .. Len(ranges) /\ next' = next + 1 /\ Len(ranges) \in Nat
      /\ DOMAIN ranges = 1 .. Len(ranges)
      /\ range \in CharRange
      /\ consolidatedRanges' = Joined(consolidatedRanges, range)
      /\ found = <<>> /\ part > Len(charset)
      /\ UNCHANGED <<charset, part, found, ranges>>
  BY LenProperties, ElementOfSeq DEF CharsetInv, CharsetTypeOK, Consolidate
<1>2. \A m \in DOMAIN consolidatedRanges : consolidatedRanges[m][1] <= range[1]
  <2> SUFFICES ASSUME NEW m \in DOMAIN consolidatedRanges PROVE consolidatedRanges[m][1] <= range[1]
    OBVIOUS
  <2>1. next > 1 /\ consolidatedRanges[m][1] <= ranges[next - 1][1]
    BY DEF CharsetInv, Behind
  <2>2. next - 1 \in DOMAIN ranges /\ next \in DOMAIN ranges /\ next - 1 < next
    BY <1>1, <2>1
  <2>3. ranges[next - 1][1] <= range[1]
    BY <2>2 DEF CharsetInv, InOrder
  <2>4. /\ consolidatedRanges[m] \in CharRange /\ ranges[next - 1] \in CharRange
    BY <1>1, <2>2, LenProperties, ElementOfSeq
  <2>5. consolidatedRanges[m][1] \in Int /\ ranges[next - 1][1] \in Int /\ range[1] \in Int
    BY <1>1, <2>4, Pairs
  <2> QED BY <2>1, <2>3, <2>5
<1>3. \A m, n \in DOMAIN consolidatedRanges : m < n => consolidatedRanges[m][2] + 1 < consolidatedRanges[n][1]
  BY DEF CharsetInv, Gaps
<1> HIDE DEF range
<1>4. /\ consolidatedRanges' \in Seq(CharRange)
      /\ \A c \in Int : In(c, consolidatedRanges') <=> In(c, consolidatedRanges) \/ Within(c, range)
      /\ \A m, n \in DOMAIN consolidatedRanges' :
           m < n => consolidatedRanges'[m][2] + 1 < consolidatedRanges'[n][1]
      /\ \A m \in DOMAIN consolidatedRanges' : consolidatedRanges'[m][1] <= range[1]
  BY <1>1, <1>2, <1>3, JoinedRanges
<1>5. CharsetTypeOK'
  BY <1>1, <1>4 DEF CharsetInv, CharsetTypeOK
<1>6. Kept'
  <2> SUFFICES ASSUME NEW c \in Int
               PROVE  In(c, consolidatedRanges') <=> \E j \in 1 .. next : Within(c, ranges[j])
    BY <1>1 DEF Kept
  <2>1. In(c, consolidatedRanges) <=> \E j \in 1 .. next - 1 : Within(c, ranges[j])
    BY DEF CharsetInv, Kept
  <2>2. \A j : j \in 1 .. next <=> j \in 1 .. next - 1 \/ j = next
    BY <1>1
  <2> QED BY <1>4, <2>1, <2>2 DEF range
<1>7. Gaps'
  BY <1>4 DEF Gaps
<1>8. Behind'
  <2>1. next' > 1 /\ ranges'[next' - 1] = range
    BY <1>1 DEF range
  <2> QED BY <1>4, <2>1 DEF Behind
<1>9. Taken' /\ InOrder' /\ Staged'
  BY <1>1 DEF CharsetInv, Taken, InOrder, Staged
<1> QED BY <1>5, <1>6, <1>7, <1>8, <1>9 DEF CharsetInv

\* The loops of caseFoldCharset never leave CharsetInv.
THEOREM CharsetInvariant == CharsetSpec => []CharsetInv
<1>1. CharsetInv /\ [CharsetNext]_charsetVars => CharsetInv'
  <2> SUFFICES ASSUME CharsetInv, [CharsetNext]_charsetVars PROVE CharsetInv'
    OBVIOUS
  <2>1. CASE FoldPart
    BY <2>1, FoldPartKeeps
  <2>2. CASE Sort
    BY <2>2, SortKeeps
  <2>3. CASE Consolidate
    BY <2>3, ConsolidateKeeps
  <2>4. CASE UNCHANGED charsetVars
    BY <2>4 DEF charsetVars, CharsetInv, CharsetTypeOK, Taken, InOrder, Staged, Kept, Gaps, Behind
  <2> QED BY <2>1, <2>2, <2>3, <2>4 DEF CharsetNext
<1> QED BY <1>1, CharsetStarts, PTL DEF CharsetSpec

\* The set that caseFoldCharset gives matches what the given one matches in either case,
\* with ranges in order and gaps between them, whatever the set.
THEOREM FoldedExact == CharsetSpec => []CharsetExact
<1>1. CharsetInv => CharsetExact
  <2> SUFFICES ASSUME CharsetInv, found = <<>>, part > Len(charset), next > Len(ranges)
               PROVE  /\ \A c \in Codes : In(c, consolidatedRanges)
                                          <=> \E n \in DOMAIN charset : FoldWithin(c, charset[n])
                      /\ \A m, n \in DOMAIN consolidatedRanges :
                           m < n => consolidatedRanges[m][2] + 1 < consolidatedRanges[n][1]
    BY DEF CharsetExact
  <2>1. /\ DOMAIN charset = 1 .. Len(charset) /\ Len(charset) \in Nat /\ part - 1 = Len(charset)
        /\ DOMAIN ranges = 1 .. Len(ranges) /\ Len(ranges) \in Nat /\ next - 1 = Len(ranges)
    BY LenProperties DEF CharsetInv, CharsetTypeOK
  <2>2. ASSUME NEW c \in Codes
        PROVE  In(c, consolidatedRanges) <=> \E n \in DOMAIN charset : FoldWithin(c, charset[n])
    <3>1. c \in Int
      BY CodesAssumption
    <3>2. In(c, consolidatedRanges) <=> In(c, ranges)
      BY <2>1, <3>1 DEF CharsetInv, Kept, In
    <3>3. In(c, ranges) <=> \E n \in DOMAIN charset : FoldWithin(c, charset[n])
      <4>1. In(c, ranges) \/ In(c, found) <=> \E n \in 1 .. part - 1 : FoldWithin(c, charset[n])
        BY <3>1 DEF CharsetInv, Taken
      <4>2. ~In(c, found)
        BY DEF In
      <4> QED BY <2>1, <4>1, <4>2
    <3> QED BY <3>2, <3>3
  <2> QED BY <2>2 DEF CharsetInv, Gaps
<1> QED BY <1>1, CharsetInvariant, PTL
=============================================================================
