# CodeGraph in TLA+

CodeGraph indexes a source tree into a SQLite graph of symbols and references,
keeps it fresh while files change, and serves it to agents over MCP. This
directory specifies the whole way from a syntax tree to an answer: where order,
time and failure decide whether the graph can be trusted (locks, watcher,
worker, tables, daemon, server, the life of a project) as state machines, and
where a long chain of rules decides (extraction, linking, search, traversal,
context) as functions that are checked over every small input. Each module names
the source file it translates; `PROJECT.json` maps every definition to its lines.

## The system

| Component | State it keeps | Operations | Hard behaviour |
|---|---|---|---|
| `Mutex` (`utils.ts`) | `locked`, `waitQueue` | `acquire`, release, `withLock` | woken callers run in a later microtask and may be overtaken |
| `FileLock` (`utils.ts`) | the file `codegraph.lock`, `held` | `acquire`, `release`, `codegraph unlock` | system calls of several processes interleave; holders die; pids are reused; locks age |
| `FileWatcher` (`sync/watcher.ts`) | `pendingFiles`, the debounce timer, `syncing`, `chokidarReady` | `start`, `ready`, `all` events, `flush`, `stop`, `getPendingFiles` | events before, during and after a sync; failing syncs; a clock of milliseconds |
| `ExtractionOrchestrator` (`extraction/index.ts`) | tables `files`, `nodes`, `edges`, `unresolved_refs` | `indexAll`, `indexFiles`, `sync`, `storeExtractionResult` | files change between two steps; a crash between two transactions |
| Parse worker (`extraction/index.ts`, `parse-worker.ts`) | `pendingParses`, the worker, its parse count | request, timeout, recycle, exit, retry pass | late events of a worker that was replaced |
| `TreeSitterExtractor` (`extraction/tree-sitter.ts`) | `nodeStack`, symbols, edges, references | `visitNode`, the body walk, twenty `extract*` methods, the Pascal walk | three walks that call each other: what two of them visit is doubled, what none visits is lost |
| `ReferenceResolver` (`resolution/index.ts`) | caches; the rows it deletes, the edges it inserts | `resolveAndPersist`, `resolveAndPersistBatched`, synthesizers | batches, cascades that delete edges of other files, caches of an earlier job |
| Import, framework and name strategies, synthesizers (`resolution/`) | none | `resolveOne`, its strategies, thirteen synthesizers | the order of rows, namesakes, re-exports in cycles, caps |
| `CodeGraph`, database (`index.ts`, `db/`) | mutex, lock file, instance, schema version | `init`, `open`, jobs, `close`, migrations | several processes; death inside `initialize`; which lock covers which await |
| `Daemon`, launcher, `proxy` (`mcp/`) | `daemon.pid`, the socket, clients, idle timer | election, connect or spawn, serve, stop | races between daemons that start and stop |
| `MCPEngine`, `MCPSession`, `ToolHandler` (`mcp/`) | the open projects, the gate, pending server requests | initialise, retry, tool calls, shut-down | shared initialisation, timeouts and late answers |
| `GraphTraverser`, `GraphQueryManager` (`graph/`) | none | traversals with a depth, paths, impact, cycles | cycles, limits, order of rows |
| Search, context, tools (`search/`, `context/`, `mcp/tools.ts`) | none | `searchNodes`, `findRelevantContext`, trace, flow, explore | limits before scores, caps one after the other, namesakes |
| Installer, git hooks, UI | configuration files | one-shot edits, output | platform differences |

How they meet: a change on disk reaches chokidar, the watcher's list and, after
the debounce, `CodeGraph.sync`, which takes the mutex (one job per `CodeGraph`
object), then the file lock (one job per project). The orchestrator has the file
parsed by the worker, whose extractor walks its syntax tree, and stores symbols
and references; the resolver links the references to symbols, and synthesizers
add the calls nobody wrote. `indexAll` and `indexFiles` take the same path. An
MCP tool call waits for its engine to open a project, reads the database through
searches and traversals, and adds what the watcher's list says of their age.

What makes each part correct:

- the mutex runs one body at a time, loses no wake-up and serves every caller;
- a file lock that is really held is respected by everybody and a dead one is
  reclaimed;
- a file that is out of date is on the list unless nobody could know yet, and
  it is indexed in the end, or looked at and refused (too large, unsupported,
  nothing but errors, unreadable): of that nobody is told;
- the `files` record of a file is its commit point: what it names is all there,
  and only a torn read makes the stat pre-filter hide a change. A sync brings
  the record of every file it can store up to date; rows of another content come
  from stores cut short only, and not every sync removes them;
- a parse that hangs or kills its worker costs that file at most, its late
  events harm no other one, and indexing ends;
- symbols and references belong to the innermost declaration around them, once
  each, and no call in a body is lost;
- no edge dangles or outlives the text it was made from, unless a store of that
  text was cut short; none is made twice, and a sync resolves what it has indexed;
- a name is linked to what it is declared as, through re-exports, in whatever
  order files were stored, and dispatch nobody wrote is bridged;
- whatever is opened has the current schema, calls end, and writers are alone as
  far as the lock file goes: `indexFiles` lets it go at once, and it can be taken
  from a living holder when it is old, empty, replaced, or of another user;
- one daemon serves a project, and every launcher is served or serves itself;
- a server leaks no project, answers every call, from the project its client
  has announced, and says what is stale;
- a traversal returns what lies within its depth, a path is a shortest one, a
  search finds what is named or nearly named, and what is shown of the graph
  under its budget is in the graph.

## Modules

| Module | Models | Checked by | Proved in |
|---|---|---|---|
| `ExclusiveAccess` | what a lock promises: at most one caller inside, who asks may enter | as a property of `Mutex` | `ProjectProofs` |
| `Mutex` | `Mutex` of `utils.ts` | `MCMutex` | `ProjectProofs` |
| `FileLock` | `FileLock` of `utils.ts`, `unlock` of the CLI | `MCFileLock` | `FileLockProofs` |
| `StalenessSignal` | what `getPendingFiles` promises | as a property of `FileWatcher` | `FileWatcherProofs` |
| `FileWatcher` | `sync/watcher.ts` with the sync it calls | `MCFileWatcher` | `FileWatcherProofs` |
| `ExtractionStore` | the orchestrator's jobs and the tables | `MCExtractionStore` | `ExtractionProofs` |
| `ReferenceResolution` | the resolver and the edges | `MCReferenceResolution` | `ReferenceResolutionProofs` |
| `DaemonElection` | pid file, socket, election and launchers of `mcp/` | `MCDaemonElection` | `DaemonElectionProofs` |
| `ParseWorker` | how `indexAll` has files parsed | `MCParseWorker` | `ParseWorkerProofs` |
| `Project` (extends `Mutex`, has the handles of `FileLock`) | `index.ts`, `db/`, `directory.ts` and the commands that write | `MCProject` | `ProjectProofs` |
| `McpServer` | engine, sessions, requests and tool handler of one server | `MCMcpServer` | `McpServerProofs` |
| `Languages`, `SymbolWalk` | the walk of `extraction/tree-sitter.ts` | `MCSymbolWalk` | `ExtractionProofs` |
| `ImportResolution`, `NameMatching`, `Frameworks`, `Linking`, `Synthesis` | the strategies of `resolution/`, the choice among them, the synthesizers | `MCLinking` | |
| `Search`, `ContextSearch` | `searchNodes` and the searches of a context | `MCLinking` | |
| `GraphTraversal` | `graph/traversal.ts`, cycles of `graph/queries.ts` | `MCToolAnswers` | |
| `ContextSelection`, `ToolAnswers`, `Exploration` | `findRelevantContext`, the graph tools, `codegraph_explore` | `MCToolAnswers` | |

A type invariant is proved for every module that has a proof module; a run
checks it, inside its first property, where there is none. The modules of pure
functions have no state but their input. A property that a run lists is often
the conjunction of named parts, each with a comment of its own: a part is what
a reader should look at, the conjunction what the run checks.

Operators marked "Mutation" in a module are plausible bugs of the definition
that follows them. No specification uses them; each property is shown to be
able to fail by putting one in the place of the original.

### Mutex

A task is one call of `withLock`. The code between two awaits is one action:
`Acquire` and `Resume` are one turn of the `while (this.locked)` loop, `Release`
is the function that `acquire` returns. `next()` only resolves a promise, so a
task it wakes is "woken" until it runs, and others may run first. Fairness is
weak fairness of `Resume` and `Release`: the event loop runs resolved promises,
and bodies end. Four tasks suffice for a holder, a woken task, a parked one and
one that overtakes them.

### FileLock

Every system call is an action (`Check`, `Read`, `Stat`, `Judge`, `Unlink`,
`ForceUnlink`, `Create`, `Write`, and three for `release`). `MayRun` keeps the
synchronous calls of one process from interleaving. A file remembers which
handle created it, which no code can read: it only lets properties speak of a
handle's own file. Processes may die (`Crash`), their pids be reused (`Reuse`),
two minutes may pass (`Age`), a write may fail and the user may unlock.

`MutualExclusion`, the promise in the class comment, fails. What does hold, and is proved, is
`SettledLockIsKept`: from the moment in which nobody is left inside `acquire`
with an older view of the file, no interleaving takes the lock from its live
holder before two minutes. `DeadLockIsReclaimed` assumes that time passes and
that somebody alive keeps asking. Deadlock is not checked there because all
processes may be dead. Bounds: two processes, three handles, two of them in one
process, one pair that may not signal.

### FileWatcher

The content of a file is a version number; the clock is reduced to the one
comparison `flush` makes. `Flush` is the debounce timer firing, `Scan` the part
of `orchestrator.sync` before its first await after the scan, `IndexFile` one
turn of its loop, `SyncDone` and `SyncFails` the two ways out of `flush` with
its finally block. chokidar is external and assumed only to report every change
of a watched file at some later time, once for several if it likes. `OtherSync`
is another job that brings a file up to date.

Not every content reaches the index. `indexFile` stores nothing for a file that
is too large, in no supported language, or gives errors and no node, and one that
cannot be read is skipped; the earlier rows stay, `sync` succeeds all the same,
and `flush` takes the file off the list. So `Scan` and `IndexFile` may refuse any
file that is there. The auxiliary `refused` remembers whose present version was
refused, and every property of the watcher, `StalenessSignal` included, excepts
these files and no other: what remains is that a file is taken off the list only
after a sync has looked at its last reported version.

The constant `CoarseClock` switches on what the properties cannot survive: an
event in the millisecond of the sync's start. The run has it off; setting it in
`MCFileWatcher.cfg` makes TLC find `StalenessIsShown` violated. Fairness: timers
fire, chokidar delivers, a sync that was let in ends; failures are bounded, so
the lock is free in the end. Bounds: two files, three edits and one failure are
enough for a file edited before, during and after a failing sync while another
is still being indexed.

### ExtractionStore

A content stands for all that extraction derives from it. The tables of a file
are the set of `<<content, table>>` pairs in them, so a row of an earlier
content is visible as such. A job is a sequence of steps: `BeginSync`, `Remove`,
`Check` (the stat pre-filter and the hash), then for each file `Pick`, two
reads, and the transactions `Replace`, `InsertNodes`, `InsertEdges`,
`InsertRefs`, `UpsertFile` of `storeExtractionResult`. `Crash` may come between
any two and stands for the death of the process, an abort and a statement that
throws. Files change at any moment.

`TablesAreConsistent` joins the type invariant, the record as commit point,
`OnlyCutStoresLeaveGhosts` and `OnlyTornReadsDeceive`. Without a record
`storeExtractionResult` deletes nothing, so when a store is cut short and the
file changes before the next one, rows of the earlier content stay beside the new
ones until the file is stored or removed once more. The auxiliary `cut` names
those contents; `RowsMatchRecord` demands every row the record stands for, and
allows no other but theirs.

`SyncIsComplete` says of a sync during which nothing was edited that every file
is `UpToDate` at its end: its rows match its record, and its record is of what is
on disk, except where nothing is stored for that content (`Unparseable`, whose
earlier rows stay) or a read was torn. `SyncConverges` says that it comes to this
and stays so once the disk is quiet (edits are bounded).

`owed` says who will call `sync`: the watcher ("sync") after an event or a sync
of its own that failed; a server at its start ("start"), once, and in vain if
another process has the lock file (`StartIsRefused`, `index.ts:416`); nobody
("unseen") after such a refusal, or when the job of another process died.
Fairness is that a job goes on and that an owed sync begins at last
(`BeginOwedSync`), strong because jobs of others come between; in "unseen"
nothing makes a sync begin, and `SyncConverges` excepts it.

`MatchingStatMeansUnchanged` is what the pre-filter relies on. It fails
for `indexAll`, which reads before it stats; the run
keeps these reads apart with the auxiliary `torn` and shows in
`OnlyTornReadsDeceive` that nothing else deceives the pre-filter. Bounds: two
files, two edits and a crash; a third content only matters as one that does not
parse, and no file begins with it. Of the initial states that differ in the names
of files and contents only, `MCExtractionStore` keeps one.

### ReferenceResolution

A node is a name in a file, a reference a name used in a node at a site, an edge
remembers the site it came from. What a job does to one file is, as in
`ExtractionStore`, the transactions `IndexFile` (what is read, and the delete),
`InsertNodes`, `InsertRefs` and `UpsertFile`, with edits and deaths between any two; only how a sync finds its
files is one step. A store cut short leaves nodes and references, which the next
job resolves like any others, so edges may come of a content that is no longer
there: `Traces` of a file are the content of its record, the one being stored and
those cut short (`cut`), and `GraphReflectsText` says that every node, reference
and edge is of one of these.
`Cascade` is `ON DELETE CASCADE` on both ends. `StartResolving` clears and warms
the caches, `ReadBatch` reads a batch and resolves it, then come the
transactions `InsertEdges`, `DeleteResolved`, `DiscardUnresolved` and, after the
loop, `Synthesize`. Which of several candidates a reference gets is left open;
that it gets one if there is one is the abstraction of the name matcher, which
`Linking` models.

`IndexingIsExact` has three parts. The promise that the graph stays current
(`SyncKeepsGraphCurrent`) fails: the cascade
takes edges of unchanged files, and `sync` resolves changed files only. What a
sync does achieve is `SyncResolvesWhatItIndexed`. `FreshIndexIsComplete` is
stated for one batch, because across batches two bugs lose references: the
loop that stops when nothing of a batch resolves, although it has removed the
rows of that batch and others wait (`resolution/index.ts:784`), and the deletion by source, name and
kind, which takes a second call of the same function along. The real batch has
5000 rows.
`JobsEnd` needs only that a job goes on. Bounds: two files, three contents (a
caller with two equal calls and an unknown name, a callee that calls back, one
that has both names), an edit, a crash and batches of three rows. That is enough
for a store that is cut short, the edit that makes its rows those of an earlier
content, and two jobs that come upon them; any initial contents stand for the
edits before.

### DaemonElection

A daemon process stands for its pid. It goes through `startDaemonProcess`
(`Link`, `ReadHolder`, `Judge`, `ClearRead`, `ClearUnlink`, a bounded number of
rounds), `Daemon.start` (`UnlinkSocket`, `Listen`), serves (`Accept`,
`DropClient`, `IdleTimeout`, `Signal`) and stops (`Closed`, `CleanRead`,
`CleanUnlink`, `CleanSocket`). Each call on the pid file or the socket is an
action. A launcher probes the socket, spawns a daemon, probes again a few times
and serves itself when that fails; one of another version never attaches. A hello
that never comes, one of another version and a broken one are the same
`NoHello`. A closing server removes its socket path by itself, as libuv does.

`Kill` is a death without clean-up, `Reuse` gives a dead daemon's pid to some
other process, so that `SeemsAlive` errs. With a killed daemon two elections can
overtake each other inside `clearStaleDaemonLock`; exclusiveness is therefore
stated without a crash (`OneDaemonWithoutCrash`), and with crashes for a daemon
on which nobody holds an older view of the pid file (`SettledDaemonIsKept`).
Fairness: processes that are at work go on, the idle timer fires, closed
connections are noticed. Nothing makes a host leave. Deadlock is not checked
because everything may be over. Bounds: three pids, given in order (their order
tells nothing else), two launchers, one of another version, two rounds, one
retry: enough for a stale file, a rival election and a successor.

### ParseWorker

The main thread of `indexAll` is one process: it takes a file (`Pick`,
`ReadFails`), requests its parse (`RequestAtOnce`, or `Spawn` and `Loaded` when
there is no worker or it is worn out), and awaits an answer (`OnMessage`), a
rejection by an error or exit event (`OnError`, `OnExit`) or its timer
(`Timeout`). A worker thread that was replaced goes on existing: `terminate()`
is not awaited and need not come to an end, its answer may still arrive, and its
exit event rejects whatever is pending then, which may be another file's request
at another worker. `Again` begins the two later loops, each file of which gets a
fresh worker.

Only a file whose worker exited, or reported an error of memory out of bounds, is
tried again (`OnError`). A request is known by its file and pass, as each file is
requested once in each; the code has a counter. `hit` and `posted` are auxiliary. Fairness: the main
thread goes on, timers fire, workers that are well answer unless the file is
slow. `BootFails` is not fair but possible: a worker that dies while it loads its
grammars leaves `ensureWorker` waiting for ever, which contradicts the comment
above it and which `IndexAllEnds` excepts by name (`BootIsLost`). A file that
vanishes before a later loop calls `stat` makes `indexAll` throw and leave its
worker (`StatThrows`). Bounds: three files (one in order, one that may hang and
has no symbols, one that may kill its worker or vanish), an interval of two, and
eight workers, more than the three loops can use.

### GraphTraversal

The state is the edges table, built row by row; what is checked are the answers
of the operators `TraverseBFS`, `TraverseDFS`, `GetCallers`, `GetCallees`,
`GetImpactRadius`, `FindPath` and `FindCircularDependencies`, which follow the
loops and recursions of the code with their visited sets, against balls,
distances and closures (`Ball`, `Distances`, `Closure`). A kind of node only
matters as being a container, a kind of edge as containing, being a usage, or
being of a type.

Depth-first search with a depth limit is not what a reader expects: a node first
met on a detour is marked and not followed again when it is met nearer.
`DepthFirstIsReachability` and `DependentsAreComplete` therefore demand
completeness only up to two steps (one for the impact radius, which climbs
through containers too) and without a limit, and soundness at every depth. The
default depth of `getImpactRadius` is 3, so this is visible. A breadth-first
`limit` may be overshot by the neighbours of one node, although `types.ts:332`
calls it the maximum number of nodes.

Bounds: four nodes and four rows are the fewest with a detour that hides a node.
Rows are stored source by source (`Rank`) and in any order within a source; as
every node plays every part, other orders add little. The modules that use
`RECURSIVE` operators hold no theorems.

### Project

`Project` extends `Mutex`: the calls of the server's instance are its tasks, and
`Call`, `Wake`, `Return` are the actions of `Mutex` with what the call does. The
commands of the CLI are processes of their own. `Connect` goes through
`CodeGraph.init` or `open` statement by statement (`CreateDatabase`,
`InitializeSchema`, `Open`, `Migrate`), `Store` writes a file's rows, `Clear` is
what `index --force` does before, `Close` also stands for `uninit`; `status` only
opens. An unlinked database lives on for who has it open (`OnPath`).

The lock file is that of `FileLock`, of which `Project` has an instance (`Lock`)
with one handle for each process. A job that begins calls acquire (`Begin`,
`TakeLock`), one that ends release (`ReleaseLock`), and every step of these is one
system call of `FileLock`, among the steps of all other processes. `Age` makes a
lock older than two minutes. `overtaken` has the processes whose lock file was
removed by somebody who could not know better (`Overtakes`): who had found it two
minutes old, may not signal its holder, or had not read the file that is there
now, because the one it looked at was another or still empty, or because it
releases what it takes for its own.

`SchemaIsSound` excepts a death inside `initialize`, after which no command can
open the project or remove it. `WritersAreAlone` says that jobs of one process
never write at a time, and jobs of two only where one of them is an `indexFiles`,
which does not await its promise before `finally`, or was overtaken: a complete
and young lock of a living process is not lost to anybody who has read it and may
signal its holder. Fairness: commands run on, the event loop runs what is
runnable, jobs get on. Bounds: seven scenarios (`Scenarios`) of two commands and
two calls of the server, one file, one death: two `init`, the migrations of each
older release, `index --force` against `index`, and a sync and an `indexFiles` of
the server against `index` or `uninit`, by a user who may not signal it. Pids that
are used again and `unlock` are left to `FileLock`.

### McpServer

One server process with its sessions. An action is what runs between two awaits
that really wait: for a message, for `CodeGraph.open`, for the answer to
`roots/list`, for a sync; a message that was woken runs before the loop takes
the next event (`Quiet`). `Receive` begins a call, `Retry`, `LastResort` and
`FromRoots` are the ways to find a project for it, `OpenEnds` the end of an open,
`Adopt` what `doInitialize` does then, `PassGate` and `Serve` what `execute`
does, `RootsAnswer` and `RootsMissing` an answer and a timeout. Grammars are
loaded once (`engine.grammars`).

`OnlyFollowersSkipTheGate` says what is left of the promise in `execute` that
rows are never served before the first catch-up: the first call takes the gate
away before it awaits it, so a second one goes ahead. `NothingLeaks` rests on
clients that initialize first (`Disciplined`); with `Disciplined = FALSE` two
initializations overlap and an instance is lost. Fairness: the loop runs what is
runnable, timers fire, opens and syncs end. Nothing makes a client answer.
Bounds: two directories, one below the other, two sessions, three messages with
and without a path, two failing opens.

### SymbolWalk

The recursion of the extractor is an agenda of tasks; an action is one call of a
`visit*` or `extract*` method up to the calls it makes for children. A program
is a tree of typed nodes in preorder; a language is the record of node types in
its extractor (`Languages`), and the grammar in `MCSymbolWalk` says what may stand
in what. `nodeStack` is the stack of the code; containment and the origin of a
reference are what its top gives. Names, signatures and docstrings are left out.

`BodiesLoseNoCall` speaks of calls in the body of a symbol: outside bodies the
code does lose them (initializers of fields and enum members, arguments of a
`new` with a class body). A type alias and the members of its object type are
symbols but no scopes: what a type query in them calls is called from around the
alias, and `AttributedToInnermost` says so. `TypesAreNamedOnce` fails for members of nested types.
Bounds: every program of five nodes and every chain of seven in eight languages
that differ in how they are walked, with receivers that have the name of a type
or not.

### ImportResolution, NameMatching, Frameworks, Linking, Synthesis

A state of `Linking` is an index: the files of a project that have been stored,
in the order in which they happened to be; an action stores another file. What
is checked are the answers of `ResolveOne`, `CreateEdge` and
`SynthesizeCallbackEdges` in every such index. A path is a sequence of segments.
What a regular expression finds in a text is given: the import statements and
the marks of a file. The strategies keep their order, their scores in
hundredths, their kinds and directories, and the ties that the first row wins.
An `import { default as X }` asks for a symbol of the name `default`
(`NamedDefault`), which no symbol has, and a PHP path with backslashes names a
file without nodes (`ImportedFile`): neither is followed, as in the code.
`Frameworks` translates the rules of nineteen resolvers; `detect`, `extract` and
`postExtract` are left out, and so are the bridges to native code.

Properties compare with what the project declares: a re-export is followed
under the name it has there (`ReExportHolds`), an import decides among namesakes
(`ImportHolds`), a declaration of the same file or language before others
(`DeclaredHolds`), a route reaches its own controller (`ActionHolds`), a name with
a role the symbol in the place of that role (`RoleHolds`), every override is
reached and no method of another type (`OverridesHold`), and the other twelve
synthesizers find exactly the flows of their project. Where the code keeps these
only up to a condition, the condition is in the definition with a comment.
Bounds: some dozen projects of two to five files, every subset in every order.

### Search, ContextSearch

`SearchNodes` is `searchNodes` with its four ways to find candidates (full text,
LIKE, fuzzy, filters alone), the supplement of exact names and the signals that
rank them; `SearchForContext` the searches of `findRelevantContext` up to the
point where `ContextSelection` begins. A score is counted in sixtieths. What FTS5
matches, its weights and the order of names are parameters. The edit distance is
compared with its definition for every pair of words of up to four letters;
`AnswersHold`, `ExactNamesHold`, `TyposHold` and `RankedOnce` speak of the project
`Catalogue` of `MCLinking`, whose names contain one another.

### ContextSelection, ToolAnswers, Exploration

These build on `GraphTraversal` and are checked in the same indexes.
`FindRelevantContext` goes from ranked matches to a subgraph (roots, hierarchies,
shares of the budget, trimming, caps per file and for tests, recovered edges);
`BuildCallPaths` prints chains of calls in it. `HandleTrace` tries pairs of
namesakes under a budget, `BuildFlow` searches chains of named functions,
`HandleExplore` picks files, joins ranges of lines into clusters and cuts them to
a budget of characters. `ContextIsBounded` relates what was cut to what is left:
no edge without both ends, no cap exceeded, no root dropped that fits.
`CallPathsAreTrue` also makes callers, callees, impact and node agree with each
other. Bounds: four nodes and four edges; a trace of three, a flow of four hops;
three pairs; budgets of a hundred and a thousand files.

## Runs

| Run | Asks |
|---|---|
| `mutex` | is the body exclusive, is every caller served, however wake-ups and new callers interleave? |
| `file_lock` | what survives every interleaving, crash, reused pid and aged lock? |
| `watcher` | is every reported edit listed until a sync has looked at it, and indexed in the end unless it is refused? |
| `store` | is the index complete after each sync, wherever files change and processes die, and what do stores cut short leave? |
| `resolution` | does the graph say what the indexed text says, and are jobs complete? |
| `daemon` | is there one daemon, does it keep what is its own, is every launcher served? |
| `parse_worker` | whatever hangs, dies or answers late, is each result its own file's, and does indexing end? |
| `traversal` | are traversals, traces, contexts and explorations true to the graph and within their limits? |
| `mcp` | whatever clients and opens do, is every call answered, from the right project, and nothing left open? |
| `symbol_walk` | is every symbol and call extracted once, by the declaration it stands in? |
| `project` | is what is opened current, when is a writer not alone, and does every call end? |
| `linking` | is a name linked to what it is declared as, and found when it is searched? |

    tlc -workers 2 -config MCFileWatcher.cfg MCFileWatcher

In `traversal` and `linking` the index grows by one edge or one file at a time
until a last step `Ask`; nothing in the code can change between a question and
its answer there, so their properties are about that step, in every index.

Deadlock is checked where a system that stops would be wrong (`mutex`, `watcher`,
`store`, `resolution`, `symbol_walk`, `project`, the last two with an explicit end);
elsewhere everything may be over: processes dead, clients gone, all files stored.

## What the code does not keep

Some statements of comments and documents turned out not to hold. They are kept
as definitions beside the properties that do hold; putting one in place of the
properties of the configuration named here makes TLC show a behaviour that
violates it.

| Statement | Where it is made | Configuration |
|---|---|---|
| `MutualExclusion` of `FileLock`: one process writes at a time | `utils.ts:180`; two processes that acquire a stale or half-written file both get it (`utils.ts:199`) | `MCFileLock` |
| `MatchingStatMeansUnchanged`: equal size and mtime mean an unchanged file | `extraction/index.ts:1380`; `indexAll` reads before it stats (`extraction/index.ts:843`) | `MCExtractionStore` |
| `SyncKeepsGraphCurrent`: the graph stays current as you code | `README.md:206`; edges from unchanged files into a changed one are lost (`index.ts:432`) | `MCReferenceResolution` |
| `HierarchyHasDescendants`: a hierarchy has what extends a type | `graph/traversal.ts:374`; the visited set already holds the type (`graph/traversal.ts:375`) | `MCToolAnswers` |
| `NoAnswerBeforeCatchUp`: rows are never served before the catch-up | `mcp/tools.ts:1021`; a second call finds no gate (`mcp/tools.ts:1029`) | `MCMcpServer` |
| `TypesAreNamedOnce`: one reference for one type | members of a nested type are visited twice (`extraction/tree-sitter.ts:1388`) | `MCSymbolWalk` |
| `FlowIsTheLongestChain` | the comment on `buildFlowFromNamedSymbols`; a function seen on a shorter chain is not met again | `MCToolAnswers` |
| `SuccessIsComplete` of `Project`: a command that reports success has indexed every file | `index --force` clears the tables without a lock (`bin/codegraph.ts:554`) while another process fills them | `MCProject` |
| `CompleteSourceIsComplete`, `NotShownIsNotShown`: what explore says of the files it shows, and of those it does not | `mcp/tools.ts:2496` and after; clusters are left out of files it calls complete, and files it shows are listed as not shown | `MCToolAnswers` |

Others were met while modelling; the hazards of `PROJECT.json` have most of them:

- a failed reconciling sync is not tried again (`sync/watcher.ts:388`), nor is
  the one at the start of a server when it finds the lock taken (`index.ts:417`);
- an event in the millisecond in which a sync began counts as absorbed
  (`sync/watcher.ts:363`);
- a file that has become too large, unsupported or full of errors, or cannot be
  read, keeps its earlier rows and leaves the watcher's list: it is out of date
  and nobody is told (`extraction/index.ts:1205`, `1224`, `1241`, `1439`);
- a store that is cut short leaves rows of its content when the file changes
  before the next store, because without a record nothing is deleted
  (`extraction/index.ts:1267`); the resolver makes edges of them too;
- an event from before `ready` whose timer fires during a sync is dropped
  (`sync/watcher.ts:348`);
- a lock holder that may not be signalled counts as dead (`utils.ts:289`), and
  whoever judges a stale or half-written lock file may remove the young one that
  has come in its place (`utils.ts:199`): two processes then write at a time;
- twin references go with the first (`db/queries.ts:1615`), and a batch of
  which nothing resolves ends the loop (`resolution/index.ts:784`);
- two candidates that clear the same stale pid file may both become the daemon
  (`mcp/daemon.ts:363`), and a daemon that stops late removes the socket of its
  successor (`mcp/daemon.ts:201`);
- a worker that dies while it loads its grammars hangs `indexAll`
  (`extraction/index.ts:745`), and a file that vanishes before a retry makes it
  throw (`extraction/index.ts:1009`);
- depth-limited searches miss nodes first met on a detour
  (`graph/traversal.ts:500`);
- a death inside
  `initialize` leaves a database nobody can open (`db/index.ts:71`); after
  `uninit` and `init` a running server answers from the database that was removed;
- a re-export chain that meets a file under a second name stops there
  (`resolution/import-resolver.ts:1244`), a method of `FooBar` answers for `Foo`
  (`resolution/name-matcher.ts:425`), overloads of a C++ base get one override
  edge, an override two levels down none, and synthesized edges double with every
  full index (`resolution/callback-synthesizer.ts:1131`);
- a method that stands before its type gets no owner
  (`extraction/tree-sitter.ts:773`);
- filters by path and name come after the limit (`db/queries.ts:834`), and kinds
  given twice are joined although the comment speaks of an intersection
  (`db/queries.ts:743`).

## Proofs

    tlapm ProjectProofs.tla

- `FileLockProofs`: types, `SettledLockIsKept` and `NoLeakedLock` for any
  handles, processes and disturbances. A settled lock is an action property:
  `HeldAlone` already describes every call that is under way, so the proof is
  one case per action from the type invariant alone. For the leak, the
  strengthening says that a file with its owner's pid has an owner inside.
- `FileWatcherProofs`: the safety properties and the refinement of
  `StalenessSignal` for any number of files, edits, failures and refusals,
  assuming that `CoarseClock` is off. The invariant adds to `NoSilentStaleness`
  that a file that is lagging, not refused and listed as seen before the running
  sync is still to be indexed by it.
- `ReferenceResolutionProofs`: types, `GraphReflectsText` and `IndexingIsExact`
  for any files, contents, batch size, edits and crashes. For the first the
  invariant bounds nodes and references by the `Traces` of their files, half
  stored ones included, and adds that while a batch waits for its edges its
  references are still in the table. For the second, `OnceInv` says that no reference has two edges
  and that one which waits has none, and `WorkInv`, phase by phase of a job, that
  the references of the files it has written wait in the table, are resolved, or
  have their edges: so a job that comes to its end has linked them.

- `DaemonElectionProofs`: for any number of daemons and launchers. `ElectionInv`
  adds to the exclusion that the pid file names a process that has linked it, and
  that, while nobody was killed, an owner is named by it; `ServiceInv` relates
  clients, timer and launchers. `SettledDaemonIsKept` is an action property and
  is proved action by action.
- `ParseWorkerProofs`: for any files, workers and interval. `PInv` adds that a
  living worker is the current one, that the count is what the current worker was
  sent, that what is pending is the current file's request in this pass, that a
  file in order that failed was hit, and that what failed by an exit is tried
  again.

- `ExtractionProofs`: first of `SymbolWalk`, for every program of the eight
  languages, the three properties of its run: nothing is extracted twice, symbols
  and references belong to the innermost scope, and no body loses a call.
  `SymbolWalkAssumption` says only what a program is: a language and a tree in
  preorder. `WalkInv` has two parts. `OnceInv` says that the agenda is a list of
  disjoint parts of the tree in the order of the text, and that every symbol and
  reference belongs to a node (`Owner`, `Claims`) the walk is past. So a step that
  puts only parts of its node on the agenda and makes symbols and references only
  of what it does not put there (`Extracts`) cannot meet an old one. `ScopeInv`
  relates the agenda to `nodeStack`: each task runs under one of its levels, a
  `pop` closes the topmost (`Layers`), and that level is the scope of the node of
  the task (`TasksAreHeld`), except in the procedures of Pascal, whose scope is
  looked up by name; each symbol and reference has its scope, and each call of a
  body is a reference or below a task that has that body's symbol as its level
  (`CallsAreOwed`). A step keeps it that sends what it makes from the top and
  opens and closes its own scope (`Attributes`). There is one lemma for each
  method of the extractor that shows it to be such a step.

  Then of `ExtractionStore`, the tables are consistent and a quiet sync is
  complete, for any files, contents, jobs, edits and deaths. `StoreInv` adds that
  no stamp is later than the last edit, that what was read goes with its stat or
  the file is torn, and that the file at hand has no record, the rows written so
  far and, beside them, rows of stores cut short only. `SyncInv` follows a file
  through a sync: it loses its record if it is gone, and else is to be checked, to
  be indexed, in hand, or has a current record.
- `ProjectProofs`: first of `Mutex`, mutual exclusion, no lost wake-up and the
  exact queue for any set of calls. The inductive invariant says that the mutex
  is locked exactly while somebody holds it and that a free mutex with a queue
  has a woken task; the refinement of `ExclusiveAccess` follows step by step.
  Then of `Project`, which extends it, a sound schema and lone writers, for any
  commands, calls, files and deaths. The invariant says by where a process stands which schema it
  finds, that the row of version 1 lets one creator pass, that a database is
  whole, attended or somebody died there. `LockInv` is about the lock file call by
  call: a handle is at rest where its process runs no job, and a writer's has the
  lock (`CallsMatch`), who is about to remove a file has seen it old, or a pid it takes
  for dead (`RemovalIsJustified`), and a writer's file is its own unless it is an
  `indexFiles` or was overtaken (`HoldersOwnTheFile`). Between the calls of one
  process it rests on the invariant of the mutex.
- `McpServerProofs`: types for any clients, and for those that initialize before
  they call (`Disciplined`, a hypothesis of these theorems, and what the
  protocol demands) that nothing leaks, the announced root wins and answers know
  their age, for any directories, sessions, messages and failing opens.
  `ServerInv` says that while a project is being opened, or a client asked for
  its root, there is no project and no message runs (`OpeningIsAlone`,
  `AskingIsAlone`): so no second open overtakes the first, which is what leaks
  without the hypothesis. `EngineIsFaithful` makes the engine's project, the
  handler's and the watched one the same; `GateIsHeld` says that somebody has
  the gate of the default project or took it, which is the call that an early
  answer came behind.

The properties the runs check are conjunctions; the theorems `MutexStaysSafe`,
`StalenessIsAlwaysShown`, `ThePidFileElects` and `WorkersStaySound` join what is
proved of their parts.

Each theorem assumes only the named assumption of its module and, for the
watcher, that `CoarseClock` is off and, for the safety of `McpServer`, `Disciplined`. Only
model-checked are liveness, which the prover cannot treat, and everything that
rests on a recursive operator: `GraphTraversal` and the modules above it, and
`ImportResolution` and the modules above it.

## Plan

A run holds a component with the properties that would be hard to test; what
comes next takes its place in the runs that exist.

1. Proofs: the loop of `traverseBFS` as a step relation of its own, so that what
   `TraversalsAreExact` says of it can be shown for every graph: each node of the
   ball once, at its least depth, and never more than the limit.
2. The node cache of the query layer and its invalidation, with a second process
   that writes; the public `resolveReferences` as a job outside the mutex.
3. The hooks of single languages in the extractor, and the extraction of routes
   by frameworks (`extract`, `postExtract`).
4. The installer's and hook scripts' edits of configuration as idempotent
   functions.

## Not modelled

- What a regular expression or a grammar finds in a text, names put together
  from characters, docstrings and signatures: inputs of the models.
- The extractors of embedded languages (Vue, Svelte, Liquid, MyBatis, Delphi
  forms) and the bridges to native code (Swift and Objective-C, React Native,
  Expo, Fabric): text in, text out.
- `detect`, `extract` and `postExtract` of frameworks; suffixes of path aliases;
  Spring configuration keys; caches of the resolver beside those of
  `ReferenceResolution`.
- FTS5, `getDominantFile`, formatting, the relationship map and the final cut of
  `codegraph_explore`, the budget of two thousand steps of a call path and of
  fifteen hundred nodes of a flow, which the bounds never reach.
- Framing of JSON-RPC, malformed messages, worktrees, the reasons for which
  watching may be off, validation of paths.
- Direct mode of the server, its watchdogs and what flows through a proxy's pipe.
- The node cache, the public `resolveReferences`, pragmas and maintenance of the
  database, git hooks, the installer, query commands and the terminal UI.
