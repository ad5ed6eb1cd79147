# JavaStudyProject: a TLA+ verification project

The repository is a collection of Java study programs (`JavaStudyProject/src/com/manzhizhen`) and
the web console of the message broker they use (`JavaStudyProject/webapps/admin`). The programs
share no runtime; each package exercises one library or one technique: executors and futures,
latches and barriers, blocking and selectable sockets, channels and file locks, JMS over ActiveMQ,
Hessian, RMI, Spring. The console's pages are put together from scripts that each keep a state of
their own in the browser: asynchronous calls, iterators, signals, a log, sorted tables, highlighted
code, charts. What this project calls "the system" is therefore a set of small programs, several of
them concurrent and distributed, and a set of scripts that pages, users and browsers call in any
order. It models those that carry logic of their own, and leaves out those that call a library once
and print. Paths of Java files below are relative to `src/JavaStudyProject/src/com/manzhizhen/`,
paths of scripts to `src/JavaStudyProject/webapps/admin/js/`.

Libraries, compiled classes, the other web applications and the data files of ActiveMQ (`lib`,
`bin`, the rest of `webapps`, `data`) are not part of the system.

## 1. Inventory

| Component | State | Operations | Interaction | What is hard | What makes it correct |
|---|---|---|---|---|---|
| Directory size: `thread/concurrent/TotalFileSize*` (six programs, one number) | pool, counter, latch, bounded queue, futures, fork/join tasks | visit a directory, spawn tasks, collect, wait with a limit, shut down | main and pool threads through shared counters, queues and futures | termination detected by a counter; a queue that is full; waits nested in one pool; time-outs whose result is ignored; tasks rejected after shutdown | every directory is counted exactly once, or a time-out excuses the lack of an answer |
| BIO sockets: `tcpip/bio` | client: socket pool and request threads; server: pool of Runnables | connect, borrow, retry, send, receive, give back; accept, assign, serve, free | two processes over TCP connections that are reused | exclusive use of a pooled socket, replies without an identity, both pools at their limit, a process that ends, end of stream | one user per socket, one Runnable per connection, each reply to its own request, every request ends |
| Select loop and pool: `nio/channel/SelectSockets`, `SelectSocketsThreadPool` | keys and interest sets, selected keys, idle list, each worker's key | select, accept, hand a key over, drain, re-enable, close | loop and workers through interest sets, monitors, wait/notify and wakeup | two threads and one key, a notify or wakeup lost, a key cancelled under the loop | one thread per channel, bytes echoed in order, no key forgotten |
| File locks: `nio/channel/LockTest` | index file, buffer, locks | query under a shared lock, update under an exclusive one | two processes through one file | reads of the wrong slot, half an update | what is printed for an entry is what was committed for it |
| Time service: `nio/channel/TimeClient`, `TimeServer` | outstanding replies, 32-bit time | request, reply, count | datagrams | loss, duplication, overflow | every host is heard, or it is known that it was not |
| Pipes and copies: `nio/channel/PipeTest`, `ChannelCopyTest` | a reused buffer | fill, write a part, compact, drain | a worker and main through a pipe | partial reads and writes | the reader sees what was written, in order, all of it |
| Selector client and server: `tcpip/nio` | interest sets, attached buffers | accept, read, reply | TCP | OP_WRITE never switched off, a partial write dropped | every message gets its whole reply, the loop rests when there is nothing to do |
| Latches, barrier, executor: `thread/tools`, `ThreadPoolExecutorTest` | gates, barrier generation, executor queue | await, count down, meet, execute | threads | a count-down that does not happen, a loop without progress | nobody starts early, main ends |
| Publication: `MonitorVehicleTracker`, `MutablePoint`, `Holder*` | a map of points, a field | set, snapshot, publish, test | threads | state shared past the monitor, unsynchronized reads | a snapshot is of one moment |
| JMS: `activemq/**` | external broker: queues, topics, subscriptions, deliveries; listeners | send, receive, acknowledge, reply, expire, start and stop | clients through a broker | redelivery, acknowledgement of a whole session, order of subscription and publication, correlation of replies, restarts | no message lost or processed unacknowledged, each reply to its request |
| `io/CompareDBScript` | two maps of tables | parse, compare | none | an early end of file, a table missing on one side | the reported differences are the differences |
| Console: MochiKit.Async (`mochi/MochiKit.js`) | chains of callbacks, pauses, a lock and its waiters, a list and its results, open requests, timers | add, call back, cancel, acquire, release, gather, send, answer, wait | callbacks call all of these again | re-entrance; an answer after a cancellation; a list fired early | each callback gets what the one before left, one owner of the lock, each element of a list once |
| Console: MochiKit.Iter | positions, deques and last groups of lazy iterators | next, tee, groupby, list, some, every | iterators that share a source | readers of one source at different places | each gives its own sequence, whatever the turns |
| Console: MochiKit.Signal | observers, what the browser calls | connect, disconnect, signal, unload | handlers change the list that is gone through | a list that changes under a loop, three families of browsers | nobody called twice or missed, nothing left that cannot be disconnected |
| Console: MochiKit.Logging | messages, listeners | log, listen, leave, clear | listeners log | nested messages, the limit | the newest messages, in order |
| Console: `standardista-table-sorting.js` | rows, arrows, the last sort | load, click | several tables, one memory | ids that are not unique, columns of several kinds | rows in order, striped, arrows that tell it |
| Console: `common.js`, `css.js` | handlers by number, a list of classes | add, remove, handle; add, remove a class | handlers change the table that is gone through | words of class names | a handler runs once |
| Console: `prettify.js` | the page, the walk over it | walk, pause, lex, take tags out and put them back | timers; elements inside others | pauses while the page changes, styles against tags, blanks and tabs | each element once, its text unchanged, styles that are its tokens' |
| Console: `plotkit/` Layout, Canvas, SVG | datasets, bars, points, slices, ticks, what is drawn, timers | add, remove, evaluate, render, clear, click | pages, users, a canvas that comes late | fractions, removed datasets, polling with limits | the picture is of the data, a click finds its bar |
| The rest (`io`, `datastructure`, `collection`, `hessian`, `jndi`, `httpclient`, `spring`, `jvm`, language exercises) | none | call and print | inside libraries | nothing of their own | nothing to state |

`PROJECT.json` lists every component with its files, and under `hazards` the places where the code
is hard to test.

## 2. Modules

```
FileTree ── SizeQuery (abstract: what a caller of getTotalSizeOfFile is promised)
   ├─ TotalFileSizeConcurrentWLatch ── WLatchProofs
   ├─ TotalFileSizeConcurrentWQueue ── WQueueProofs
   └─ TotalFileSizeConcurrent ┐
      TotalFileSizeNativeConcurrent ├─ TotalFileSizes ── TotalFileSizesProofs, MCTotalFileSizes
      TotalFileSizeConcurrentForkjoin ┘
BIOConnection ── TcpIpBIOClient ┐
              └─ TcpIpBIOServer ┴─ TcpIpBIO ── TcpIpBIOProofs
SelectSockets ── SelectSocketsThreadPool ── SelectSocketsProofs, MCSelectSockets
ChannelCopyTest, PipeTest, TimeService, LockTest ── ChannelPrograms ── ChannelProgramsProofs, MCChannelPrograms
ConsoleScripts, TableSorting, PrettyCharset ── PageScriptsProofs   ┐
MochiKitSignal, MochiKitLogging, PlotKitCanvas ── LibraryProofs    │
PlotKitLayout ── PlotKitCanvas ── PlotKitSVG                       ├─ WebConsole ── MCWebConsole
MochiKitAsync, MochiKitIter                                        │
PrettyLexer ── PrettyPrint                                         ┘
TableSorting ── MCTableSorting (its tables are also those of MCWebConsole)
```

The names of actions are those of the methods, or of what a step of a method does; `PROJECT.json`
maps every definition to its lines. A step is what the code does between two accesses to shared
state: a method that is `synchronized` or one atomic call is one action, a method that reads a
counter and then a queue is two. A definition marked "(Mutant: ...)" is a plausible bug; the run
that checks a property also has to find it when the definition after it is replaced by it.

### Directory size

`FileTree` is the external file system: every tree over a set of directories. Only directories
matter; a sum of sizes is a function that counts how often each directory's own size was added, so
a directory lost cannot be hidden by another counted twice. `SizeQuery` is the abstract
specification: one answer with every directory exactly once, and after a wait that timed out also
an exception or, for the one program that ignores its time-out, a partial answer.

* `TotalFileSizeConcurrentWLatch`: `pendingFileVisits`, `totalSize`, the latch and the pool. A
  visit counts a child (`Visit`), passes it to the pool (`Execute`, which is rejected after
  `shutdown`), adds its size (`AddSize`), counts itself out (`Decrement`) and opens the latch
  (`CountDown`). The first visit runs in main. `AwaitTimeout` may happen whenever main waits.
* `TotalFileSizeConcurrentWQueue`: the sizes travel through `fileSizes`, of `Capacity` elements
  (500 in the code). Main reads the counter and then the queue's size, two steps (`CheckPending`,
  `CheckSize`), and polls for 10 s; `PollTimeout` is the null that is unboxed.
* `TotalFileSizeConcurrent`: main submits a level, clears the list, and gets the futures in order.
* `TotalFileSizeNativeConcurrent`: every task submits its children to the same pool and gets them;
  exceptions travel up through the futures.
* `TotalFileSizeConcurrentForkjoin`: `compute`, over a fork/join pool of which only one thing is
  assumed: a thread that waits for a task runs other forked tasks. The pool is external.
* `TotalFileSizes` composes the last three: a query is put to one of them (`program`).
* `TotalFileSizeSequential` is `ExactSize`: the answer all owe.

### BIO sockets

`BIOConnection` is TCP between two processes: established connections with both directions as
queues; when a process or a client ends, its connections are "eof" (closed) or "reset" at the
other end. `TcpIpBIOClient` has the socket pool (`Connect`, `PoolReady`, `GetSocket`,
`FreeSocket`) and the request threads (`TryAgain`, `Send`, `Receive`, `ReceiveFails`);
`TcpIpBIOServer` has the accept loop (`Accept`, `Assign`, `AssignFails`) and the Runnables (`Read`,
`Write`, `ReadReset`). Either process may end at any moment (`ClientExit`, `ServerExit`), which is
how the programs are stopped. `TcpIpBIO` runs both, with connections of other clients that take
Runnables away. The server's pool has one Runnable more than `MAX_POOL_NUM`, because its loop counts
down to 0 inclusive (`TcpIpBIOServerThreadPool.java:37`).

### Select loop and worker pool

`SelectSockets` has the clients, an external selector, and `go()`: `Select` fixes what the selector
watches, `SelectReturns` delivers ready keys or a wakeup, and each selected key is handled in turn.
A change of an interest set counts from the next `Select` on. `handler` says which class's
`readDataFromSocket` runs. `SelectSocketsThreadPool` has the pool's handler (`GetWorker`,
`NoWorker`, `ServiceChannel`), the worker's `run` (`Start`, `Awake`, `Return`, `Wait`, spurious
wakeups), and the drain loop both versions share (`Read`, `Write`, `Drained`, `EndOfStream`,
`ConnectionReset`). Monitors are modelled by who may step (`MonitorFree`): a worker leaves its
monitor only in `wait()`, or before it has first taken it. `SelectSocketsThreadPool` does not
literally extend `SelectSockets` and its `main` is commented out; it is modelled as its handler's
comment says, invoked by the parent class.

Exceptions that leave `go()` end it (`died`): an accepted `null`, a failed greeting and, without
the pool, a reset of any one client. The properties about service say so.

### Copies, pipe, time service, locks

`ChannelPrograms` runs one of four programs of `nio/channel` (`program`).

* `ChannelCopyTest`: both loops. A buffer is the bytes it holds, which `flip`, `compact` and `clear`
  use in turn; a read brings any number of bytes that fit, a write takes any number or none.
* `PipeTest`: the worker fills and writes its one buffer (`DoSomeWork`, `Write`, `Written`,
  `Close`), main reads and prints (`Read`, `PrintPage`, `End`). The pipe is external and bounded.
* `TimeService`: `TimeClient` (`Send`, `GetReply`) against one `TimeServer` per host (`Listen`).
  The network loses, copies and reorders datagrams, the time has `Width` bits, the clock is common.
* `LockTest`: readers (`LockShared`, `Query`, `QueriesDone`) and writers (`LockExclusive`, `Fill`,
  `WriteIndex`, `ReleaseExclusive`), any of which may be killed, which releases its lock. A buffer is
  its slots; reading from slot n puts that slot first, as the code does. A writer's loop fills the
  buffer in one step, for nobody else sees it. `fc.write` of 40 bytes is one step.

### The web console

`WebConsole` runs one script (`program`), against a page, a user and a browser that call it in any
order. It extends `ConsoleScripts`, `TableSorting`, `MochiKitSignal`, `MochiKitLogging`,
`PrettyCharset` and `PlotKitSVG`, whose variables are as they begin when another script runs, and
instantiates `MochiKitAsync`, `MochiKitIter` and `PrettyPrint`, whose variables are then `"unused"`. What interleaves are the calls from outside; callbacks and handlers that call the
script again from within one of its loops; and what comes later, a timer, an answer, the next slice of a
walk. In most modules one action is one call from outside with everything it calls in
turn. In `ConsoleScripts`, `MochiKitSignal` and `MochiKitLogging` a loop over handlers is one action for
each handler it comes to, and between two of them the handler that runs may make any calls, which are
the same actions a page makes (`ScriptCall`, `SignalCall`, `LogCall`).

* `MochiKitAsync` (one record, `page`): the heap of Deferreds, the lock, the list, open requests and
  timers. `Loop` is `_fire`, one callback after another, each of which may be any of `Callbacks`: give
  a value, raise, wait for another Deferred, cancel one, add to the chain that is being fired. `Back`
  is `_check` with `silentlyCancelled`; `Cancel`, `Resback`, `Continue`, `Unpause` are the methods.
  `SendRequest`, `Answer`, `Wait` and `Timeout` are `sendXMLHttpRequest` and `wait` with their cancellers.
* `MochiKitIter`: a page builds a few iterators over one another (`Builds`) and pulls any of them.
  `Pull`, `Slice`, `ChainNext`, `Tee`, `Fetch` and so on are the `next` methods; `got` is what each gave.
* `MochiKitSignal`: `_observers` and what the browser has (`listening`). `signal` begins a delivery,
  `Deliver` goes on to the next place of the list that matches, `EndOfSignal` ends it; between two of
  them a handler connects and disconnects. `disconnectAll` is a loop too (`DisconnectNext`), from the end
  of the list, which calls nobody. Of a signal that a handler sends, only the calls of its handlers
  matter to the one that is delivered, and they count as calls of that handler. `mouse` and `keypress` are
  the `Event`'s methods; what Internet Explorer, Mozilla and Safari say of a button or key is external.
* `MochiKitLogging`: `baseLog` begins a message, `Tell` passes it to the next of its listeners,
  `EndOfMessage` counts it and cuts the list. The messages being told are a stack (`telling`), since a
  listener may log; `LogLevel` is the code's, of which two levels are used.
* `TableSorting`: on load the headings become links; `headingClicked` sorts, or reverses the rows it
  sorted last, moves them, stripes them and sets the arrow. A cell is what the code finds out of it:
  its looks, which pick the comparison, its text, its number (`NaN` where `parseFloat` gives that) and
  the parts of a date or address. A sort is any order of the rows that goes
  up, so that equal ones come in any order, and any order at all if the code cannot compare them.
* `ConsoleScripts`: `addEvent`, `removeEvent` of `common.js`, and `handleEvent`, whose loop
  (`NextHandler`, `NoHandlerLeft`) goes through the numbers of a table in an order the browser chooses,
  while a handler that runs adds and removes others; and the classes of `css.js`, a class being the words
  between its hyphens, which is what `\b` sees of it.
* `PrettyLexer`: `createSimpleLexer` with the patterns of Java and of the default markup, which hands
  scripts, styles and attributes to other lexers. A word is one unit, quotes, tags and entities are
  units. `PrettyPrint`: `extractTags`, `recombineTagsAndDecorations` with tabs, blanks and line ends,
  and the walk of `prettyPrint` (`doWork`, `Pause`, `Continue`, `WhenDone`), in which an element may
  lie in another. What an `xmp` holds is text: `getInnerHtml` escapes it (`Spelled`), and what is put into
  an `xmp` within a printed element is text as well (`InXmp`).
* `PrettyCharset`: `caseFoldCharset`, one range at a time.
* `PlotKitLayout`: a layout as fractions of the unit square, exact where JavaScript rounds;
  `<<0, 0>>` is what is no finite number. `PlotKitCanvas`: datasets that come and go, `Evaluate`,
  `render` and `clear` with their polling in Internet Explorer (`TimerFires`, `CanvasReady`), `onclick`,
  which finds bars, what is under a line, and slices (`HitPie`, with the code's own angles).
  `PlotKitSVG`: the same layouts drawn by `SVG.js` or `SweetSVG.js` (`SvgPages`). A node is what it shows;
  a canvas keeps one drawing on another; an SVG's root holds the shapes, the container the labels that
  are DIVs, and `xlabels` and `ylabels` are what `clear` will find. The places of labels are in pixels, each
  renderer's by its own arithmetic (`renderAxis`, `renderPieAxis` against `_renderAxis`, `_renderPieAxis`).
  A colour is a place in the renderer's colour scheme. A page has one kind of renderer or the other.

## 3. Runs

| Run | Instance | What it shows |
|---|---|---|
| `wlatch` | all 16 trees of four directories, two pool threads | `LatchMeansComplete`: an open latch means the sum is exact, in every interleaving; `LatchOpens`; the program implements `SizeQuery` |
| `wqueue` | four directories, two threads, a queue of one | `Terminates`: main ends although pool threads block in `put`; implements `SizeQuery` |
| `wqueue_patient` (violation) | three directories, polls that time out only when nothing is left to come | main takes the last size before its visit is counted out, polls an empty queue and fails with the exact sum in hand |
| `sizes` | the 24 shapes of numbered trees of five directories; one pool thread for the breadth-first version, two for the others | `StarvedOnlyByNesting`: the breadth-first and fork/join versions never starve, the native one only by nesting; `QueryEnds`; all three implement `SizeQuery` |
| `bio` | two pooled connections, three requests, one foreign connection, two Runnables | `PoolExact`: no socket lent twice or lost; `OwnReply`: no reply meets another's request; `ThreadsExact`: one Runnable per connection, none given up while one is free; `RequestsEnd` |
| `bio_freed` (violation) | one connection | a Runnable never frees itself after its client closed: `readLine` returns null for ever |
| `select` | two clients sending up to two bytes in all, a buffer of one byte, two workers, both handlers | `EchoInOrder`; the inductive invariant `Custody`, that loop and workers agree on who may touch which key; `AllEchoed` |
| `select_wakes` (violation) | one client, one worker | a key given to a worker before its first `wait()` is never served |
| `channels` | seven bytes through a buffer of three; two lines of up to three bytes through a pipe of two; two hosts, a width of 3 bits that overflows, one loss and one copy; two readers, two writers of two updates, two slots | `BytesInOrder` for both copies and the pipe, `TimeFresh`, `AllAnswered` (with no copy made), `StableUnderLock`, `ProgramEnds` |
| `channels_entry` (violation) | the same | a reader prints what another slot holds, or its own old bytes |
| `console` | each script, see below | twenty invariants, two or so for each script: what it promises however it is called |
| `tables_rows` (violation) | the tables of `console` | a click moves the rows of one table into another of the same id |

The invariants of `console`:

* `ChainsExact`: a callback is given what the one before it in its chain left; a chain is paused
  exactly as often as it waits; nothing is left open that could answer twice. `LockHeld`: one owner at
  a time, and somebody owns a locked lock, unless a waiter was cancelled, which the code hands it to
  all the same. `ListExact`: each element of a list counts once, with its own result, and the list
  fires when its options say so.
* `IteratorsExact`: whatever the order of the calls, each iterator gives a prefix of the sequence it
  stands for, a tee keeps exactly what one of its readers has still to read, and groups and searches are
  right, unless the page asks a group after it began the next.
* `DeliveredOnce`: nobody is called twice for one signal, those that are in the order of connecting, and
  no more are missed than handlers disconnected meanwhile (those behind move up a place). `ListenersRecorded`: the browser calls exactly those that a
  disconnect would find. `BrowsersAgree`: a handler is told the same of a key or button in each browser.
* `LogExact`: once no message is being told, the newest messages in order, as many as the limit allows;
  no listener is told one twice; two have one number only where one was logged by a listener of the other.
* `SortedOneWay`: what was sorted last is in order, up or down, if its cells are comparable, and every
  second row of every table is striped, as long as the tables' ids differ. `ArrowTells`: an arrow tells how its
  column is sorted, up to the exceptions its comment names.
* `HandlersOnce`: who was there when an event began runs once, unless a handler that ran removed him, and
  nobody else but who was added since; the table holds those added and not removed. `ClassesExact`: an
  element has the classes added and not removed, unless a word of one passed for another.
* `TextKept`: a printed element reads as before, with tabs as wide as their columns say. `StylesExact`:
  each character stands in a span of its token's style, no span is left open at a tag. In Java the
  tokens are compared with an independent definition of comments and strings. `EachPrintedOnce`: a walk
  prints every marked element that is in the page once, whatever its pauses.
* `CharsetExact`: the folded set has both cases of every character, no others, and gaps between its
  ranges.
* `LayoutExact`: bars apart and in the unit square, ticks under their bars and at their values, slices
  in proportion. `ClickFindsBar`: a click in a drawn bar finds that bar. `ShowsLastAsked`: once nothing
  waits any more, the canvas shows what was asked last, whenever it came up, also when a render and a clear
  both had to wait for it; not if a call was itself carried out while an older one of the other kind
  waited. `PicturesAgree`: an SVG chart
  has the shapes the canvas renderer would have drawn of the same layout, in the same turn of colours, above
  whatever was rendered before; its labels are those of the canvas, in the same order, beside where they
  stand there, within the pixels `Beside` names; and a clear leaves no label and, but for an Adobe plugin's
  root, no shape.

Deadlock is not checked: all programs but the servers end, the servers rest when no client speaks,
and so does a console at which nobody clicks. Termination and service are stated as liveness properties instead.

**Bounds.** Four directories are enough for a visit whose child's child is spawned while its
sibling is still counted, and for every branching with both pool threads busy; five numbered ones
include a chain deep enough to starve the native version's two threads. A queue of one element is
always full or empty. Three requests over two sockets make one wait, and the foreign connection
makes three connections compete for two Runnables. Two clients and two workers are the least with
a handover racing another; one client's two bytes cross a one-byte buffer in two reads. The clock of
`channels` crosses the overflow in the middle of a run, and both faults can meet either host. The
bounds on counters are `MaxSent` (bytes of any two clients together),
`MaxTryTimes`/`ServerTryTimes` (2 for 10), `MaxTime`, `MaxFaults` and `MaxUpdates`; `MaxReps` (2 for
79) is a writer's chance to come between two readings. `MCTotalFileSizes` and `MCSelectSockets` start from one representative of
states that differ only in names (the numbering of directories, the order of interchangeable
workers in the list).

In `console` the pages are small and many, 6,773 initial states: three Deferreds (interchangeable,
the symmetry of the configuration) and up to `MaxCalls` calls (4 to 6), enough for a callback that
waits for one that waits for a third, for a cancelled waiter between two others, and for a list that
fails early; `MaxPulls` 6 over lists of up to four elements, so that every iterator ends and a tee's
three readers cross; two signals on an element and an object with `MaxObserver` 3, so that a handler
can take one before, itself, or one behind it out of the list, or several with `disconnectAll`; two
handlers beside the page's own and `MaxScriptCalls` 4, so that one that runs can remove one behind it
and add it again; two listeners and `MaxLogged` 2 messages, one within the other, with limits of none, 0
and 1; two tables of two columns and five rows at most between them, and `MaxClicks` 3 with the click
of the load event, which lets a column be sorted, another table in between, and the first again, with
columns of every kind of cell and some of two kinds; every source of up to three or four units over the characters that matter to a
lexer, tags and blanks in every order, and pages of two elements inside each other, with
`PR_TAB_WIDTH` 2 for 8; every set of up to two ranges between the letters' ends and their neighbours;
datasets of one and three points, whose x values are in no order and partly shared, under two
names, a canvas that lies 4 and 7 pixels into its page, with an area of 19 by 10 pixels within a
padding that differs on every side, on which no bar is hidden, clicks in its four quarters,
`MaxPlotCalls` 4, `MaxTries` 1 for 5, and three SVG pages, one with texts, two with DIVs, of which one
has an Adobe root. The smallest of these bounds, on handlers, messages and clicks, are those of scripts
whose properties are proved for every number of them (section 4).

**Fairness.** Weak fairness on the steps of each thread: the JVM schedules a thread that can run.
In `TcpIpBIO` and `SelectSockets*` clients of the network are under no obligation to speak, connect
or leave, and no process has to end; `wait()` need not return by itself. Time-outs happen by
fairness only where the program relies on them to end: the 10 s poll of the queue version and the
100 s of the native one. In the latch and the breadth-first versions liveness holds without them.
In `ChannelPrograms` a write that is tried again and again takes something at some time (strong
fairness, since a write that takes nothing disables it in between), the servers answer, and the
network need not lose anything nor need the clock advance. `ProgramEnds` excuses the time client when
a datagram was lost or no host could be resolved: it waits without a limit.
`AllEchoed` assumes `NotifyHeard`, that no worker got its key before its first `wait()`: this is
the defect `select_wakes` shows, and the property says that it is the only way to lose service.

## 4. Proofs

Every theorem is for every value of the constants the named assumptions allow: any finite tree
(`TreeAssumption`), any pool threads but main (`ThreadAssumption`) and queue capacity
(`CapacityAssumption`); any clients, workers, connections, requests and Runnables, where names of
different things differ (`NameAssumption`, `NoSocketAssumption`, `NoConnAssumption`,
`ServerThreadAssumption`), workers and connections are finitely many (`PoolAssumption`,
`ConnAssumption`) and sizes and numbers of tries are natural numbers, or positive where the code has a
positive constant (`BoundAssumption`, `TryAssumption`, `ServerTryAssumption`, `RequestAssumption`); any
buffers, lines, pipes and pages (`CopyAssumption`, `PipeAssumption`), any finite set of hosts and width of
the clock (`TimeAssumption`: the prover knows of a power only that it is a positive number), any readers
and writers (`LockAssumption`); any character sets (`CharsetsAssumption`, `CodesAssumption`), handlers and
classes (`ScriptHandlerAssumption`, `ClassNameAssumption`, and `FirstClassesAssumption`: no class is there
twice at first, since `removeClassFromElement` removes one), tables of any contents
(`TableAssumption`, `ColumnAssumption`, `ContentAssumption`), limits of the log (`SizesAssumption`) and
tries of a renderer (`TriesAssumption`).
The bounds of the runs' counters are constants like the others.

* `WLatchProofs`: `Accounting` is inductive. `LatchMeansComplete` alone is not: that 0 means
  "finished" needs that the counter equals the number of visits counted and not finished (`Sums`),
  that each of those is in one place only (`OnePlace`), that a directory's subdirectories are
  counted by its own visit (`Walk`), and, from the shape of the tree, that a set of finished
  directories closed under subdirectories is everything (`End`). From it follow type correctness,
  `LatchMeansComplete`, `NeverCountedTwice`, `QuietAfterLatch`, and the refinement of `SizeQuery`.
* `WQueueProofs`: the same for the queue, with `SizesConserved` (each delivered size is in the
  queue or in the sum) and `Loop` (what main's two reads establish); then `ReturnsExact` and the
  refinement of `SizeQuery`.
* `TotalFileSizesProofs`: the other three implement `SizeQuery`. The lemmas about trees say what lies
  below a directory (`Below`), that siblings' parts are disjoint, and that sums over disjoint parts add
  up (`Once`). Breadth first (`BfsInv`): what is known is the root and the subdirectories of what was
  gathered (`Reach`), each once (`Levels`), so that nothing is missing when a level is empty. Nested
  futures (`NativeInv`): one thread runs the task of a directory (`Places`), its sum counts what lies
  below the children it has collected (`Work`), a future that is done has the sum of its subtree
  (`Values`), and nobody throws before main's wait has timed out (`Ends`). Fork/join (`FjInv`): a finished
  task has the sum of its subtree, whoever ran it. `StarvedOnlyByNesting`, for any tree and pool: a future
  is running because a pool thread is in its task (`Runners`), and of the directories whose tasks wait for
  a child one has none of them below it (`Lowest`, for a tree has no cycle). If a thread were free, that
  one's child would be in the hands of a thread that waits too; so every thread waits, each in a task of
  its own below the root's, and the tree has as many directories with subdirectories as the pool threads.
* `TcpIpBIOProofs`: `BIOInv` is inductive. `PoolInv`: a pooled socket that is not free is held by one
  request, on every path through its thread, retries included, and a free one by none; this is
  `PoolExact`. `ServerInv`: a connection waits to be accepted, or for a Runnable, or has one, and one that
  was given up means that there were more connections than Runnables; this is `ThreadsExact`. `OwnReply`
  needs both, and `WireInv`: on a connection there is nothing at all, or exactly one thing, the question of
  the request that waits on it or its answer (`Carried`), also in the hands of a Runnable. A connection that
  is reused is quiet, because only who got an answer gives it back.
* `SelectSocketsProofs`: `Custody` is inductive. Its core is `OutOfView` (a valid key without
  `OP_READ` is served by exactly one worker, which keeps it valid) against `InView` (what the loop
  watches or has selected is valid and of interest): a worker that closes its channel cannot cancel
  a key in the loop's view, and the loop cannot hand out a key a worker has. `IdleExact` and `Tasks`
  tie the list to the workers' keys. From it follow `NoCancelledKey`, `IdleExact` and
  `InterestExact`. `EchoInOrder` rests on it: what was echoed, what the one thread that drains the channel
  has in its buffer, and what is unread are together what the client sent. A handover keeps that because a
  thread's buffer is empty when it gives a key back, and because nobody else has the key meanwhile.
* `ChannelProgramsProofs`: `ChannelInv` is inductive, a part for each program. `CopyInv` and `PipeInv`:
  what is written, what is in the buffers and in the pipe, joined, are the bytes that were read so far,
  and a buffer is empty where the code relies on it. `TimeInv`: a reply has the low-order bits of a time
  that has been (`Timely`), and without copies a host has one datagram on its way, or is heard of, or
  something was lost (`Once`), so that the count of replies is the number of hosts heard. `LockInv`: who
  writes the index holds the lock alone; the action property `StableUnderLock` follows step by step.
* `PageScriptsProofs`: the scripts of the console's own pages, each proved of its own specification
  (`ScriptsSpec`, `TablesSpec`, `CharsetSpec`), whose actions are those `WebConsole` takes when that
  script runs.
  * `HandlersInv`: a number belongs to one handler for ever (`GuidsExact`), a table has each handler it
    holds under his number (`TablesExact`), and an event's loop has still to come to the numbers of those
    that were there, were not removed and have not run, and to no number of one that ran (`LoopExact`);
    those that ran are different and were added (`RanExact`). Hence `HandlersOnce`. `ClassesInv`: unless
    a word passed for a class, no class but the empty name is twice in the list. Hence `ClassesExact`.
  * `TablesInv`: as long as each table has an id of its own, a table's rows are its own, each once
    (`RowsStay`), what is remembered of the last sort is what the table sorted last shows, under a column
    with an arrow (`LastExact`), and stripes, order and arrows are right. It is what makes `Again` safe:
    only then are the remembered rows those of the table that was clicked, so that turning them round
    turns that table round (`ReverseExact`), moving them takes no row out of another one (`WithoutNone`,
    `WithoutAll`), and striping them stripes a whole table (`StripedExact`). An arrow needs that the way
    of comparing, which depends on the first cell, is the same in whatever order the rows are
    (`FunctionOfAlike`). Hence `SortedOneWay` and `ArrowTells`. `tables_rows` shows that `RowsStay` is
    lost without the condition on the ids.
  * `CharsetInv`, for character sets of any number of ranges and any codes: what has been taken from the
    given set is among the ranges or about to be (`Taken`), the ranges stay in order (`InOrder`), and what
    is consolidated is the first of them (`Kept`), with gaps (`Gaps`). `Behind` is what makes `Gaps`
    inductive: nothing consolidated begins after the last range taken, so a range that does not meet the
    last of them meets none. The lemmas say what folding a range, inserting one in order and joining one
    gives. `CharsetExact` follows once nothing is left to take.
* `LibraryProofs`: the libraries of the console's pages (`SignalSpec`, `LogSpec`, `CanvasSpec`).
  * `SignalInv`: the observers are in the order of their numbers (`ListInOrder`), as `RemoveAt` and
    `Append` keep them; a loop that is at some place has called only observers numbered below all those it
    has still to come to (`Coming`), and of those it was to call, those neither called nor to come are at
    most as many as were removed (`SignalLoop`): a removal before the loop's place moves one observer into
    it, one behind takes one away. What the loop jumps over does not match, and so was not to be called.
    Hence `DeliveredOnce`, and `ListenersRecorded`. `BrowsersAgree` is by cases of browser and button or
    key.
  * `LogInv`: the messages kept are the end of those logged, too many only while one is told
    (`KeptExact`); who has heard a message that is told is among its `told` (`ToldOnce`); a message with
    the next number is still told (`NumbersExact`), so that one logged now, which gets the same number, is
    logged during it. Hence `LogExact`.
  * `CanvasInv`: of each kind there is at most one timer, for a call takes the place of the one before
    (`SetAgain`); what was asked last still waits, whatever waits with it, or it has been done and nothing
    of the other kind is left to undo it (`ClearToCome`, `RenderToCome`), unless it was carried out past an
    older call, or render found no try left. Hence `ShowsLastAsked`, whenever the canvas comes up: `CanvasSpec` has the clicks and datasets too, which
    leave all of this alone. `PlotKitSVG` takes the same actions beside its own.

What a theorem states of every instance is not checked by a run again where the run's other properties
say it of the same behaviour: `NeverCountedTwice`, `QuietAfterLatch`, `ReturnsExact`, `NoCancelledKey`,
`IdleExact`, `InterestExact` and the type invariants.

Only model-checked: all liveness (fairness is out of the prover's reach), and of the web console what is
not named above. Seven of these compare what the code computes with a definition over the same data, and
need induction over it, which the prover cannot do: `IteratorsExact` (sequences the iterators stand for),
`TextKept` and `StylesExact` (recursive functions and operators over the units of a page),
`EachPrintedOnce` (the recursive walk, and a page of elements inside each other), and `LayoutExact`, `ClickFindsBar` and
`PicturesAgree` (sums, greatest common divisors, and lists made with `SelectSeq` and `FlattenSeq`).
`ChainsExact`, `LockHeld` and `ListExact` are about callbacks that call one another, which are recursive
operators in `MochiKitAsync`.

## 5. What the runs found

1. `TotalFileSizeConcurrentWQueue`: `poll` may return null with the complete sum in hand, because a
   visit puts its size before it is counted out; unboxing it throws (`wqueue_patient`).
2. `TcpIpBIOServerThread`: the end of the stream is ignored; the Runnable spins and is lost
   (`bio_freed`).
3. `SelectSocketsThreadPool`: a notify before the worker's first wait is lost, with its key
   (`select_wakes`).
4. `LockTest`: the reader reads the file from slot n and then looks at slot n of the buffer, so that
   for n > 0 it prints another entry, or what an earlier reading left (`channels_entry`).
5. `standardista-table-sorting.js`: the last sort is remembered by the id of its table and the rows it
   had. Of two tables with one id, as `connections.jsp` has them, a click on one moves the rows of the
   other into it (`tables_rows`).

Other properties hold only up to an exception, which each names in its comment: a partial sum after
the latch's time-out is ignored (`SizeQuery` allows it to that program); a cancelled waiter is still
given the lock; a signal misses one observer for each that a handler disconnects; nested messages
share a number; an arrow is wrong after another table was sorted in between, or over cells of several
kinds; a class passes for another that has it as a word; an element within a printed one is printed
twice, since the check for that compares `tagName` with lower case; bars lie outside the unit square where
the page gives the axis and an earlier chart of one value overwrote `minxval`, which nothing sets back
(`Layout.js:338`, against the options read once at `:75`); an Adobe plugin's root keeps its shapes after
a clear, which empties the element; an `xmp` within a printed element comes to show the tags of the spans,
since a browser reads no markup there (`prettify.js:1360`); a canvas that has waited for both may draw after
a clear that was asked last, if the clear's timer runs out first.

Three more things were read while modelling, and are as the code has them: a click on a pie finds a slice
only at angles in the quarter of `(1/4, 3/4)`, as the TODO at `Layout.js:233` has it; `SVG.js:442` and `:460` put the
labels of a pie ten pixels farther out than `Canvas.js:518` does, and its DIVs of the left half begin at their
point, though two of the comments there say "align right"; and without a `colorScheme` option the two renderers
take different palettes (`SVG.js:66`, `Canvas.js:84`).

## 6. Plan

What is left, in the order of its worth:

1. Proofs: `LockHeld`, `ListExact` and `ChainsExact` for any callbacks, which needs `MochiKitAsync` as a
   machine with a stack of its own in place of operators that call one another; the safety half of
   `NotifyHeard`.
2. `TcpIpNIO`: the select loop of `tcpip/nio` against its clients, partial writes and `OP_WRITE`.
3. `Publication`: `MonitorVehicleTracker`, whose snapshot must be of one moment, and `DealAction`.
4. `prettify.js`: the other languages' patterns, over the same lexer.

## 7. Not modelled, and why

* `TcpIpBIOClient.clientTest` and `TcpIpBIOServer.serverTest`: one exchange over one connection,
  contained in what `client()` and `server()` do.
* `main` methods that parse arguments, time the run and print.
* Regular files: only their sum per directory matters, and it is read in one step. A directory that
  changes during a run is not modelled; the programs promise nothing about it.
* Everything the inventory leaves without a property: one actor, a library call, a print.
* JMS (`activemq/**`): what these programs show is decided in the broker. It is not in the repository,
  and how `src/` uses it says what is sent and awaited, not what is redelivered or expires.
* Latches, barriers and executors of `thread/tools` and `ThreadPoolExecutorTest`: one use of a library
  class each, as its documentation shows it.
* MochiKit's DOM, Visual and LoggingPane: they build nodes of a document; Base, DateTime, Format and Color: conversions without a state, that a table test covers.
* The console's JSP pages, over management beans that are not in the repository.
* Of the SVG renderers: the factory of elements, and `isSupported`, which has no state. `PicturesAgree`
  leaves aside bars of less than a pixel (`SVG.js` draws them, the canvas does not), a slice of the whole
  turn among several (its arc ends where it begins), which palette a scheme is, and how a DIV stands about its point in
  the left half of a pie. What a browser makes of the attributes of a text is not modelled.
* In the modelled scripts: fonts, colours and shadows, the wording of messages, keywords and literals
  within a word, `combinePrefixPatterns` beyond the folding of sets.
