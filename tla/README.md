# A TLA+ verification of AroMCP

AroMCP (`src/src/aromcp`) is a set of MCP servers for coding agents. Its core is the
*workflow server*: it loads a workflow written in YAML, executes the steps it can execute
itself, and hands the others to an agent, one response of `get_next_step` after the other.
Around it are an analysis server for TypeScript projects, a standards server, and servers
for builds and files. This directory models the workflow server and those parts of the
others that keep state or compute something that is hard to test; it checks the models
with TLC on small instances, and proves theorems about the most important ones for all
instances with TLAPS.

Paths below are relative to `src/src/aromcp/` unless they begin with `src/documentation`.

Contents: 1 the system, 2 the modules, 3 the runs, 4 findings, 5 what is proved, 6 what is
not modelled, 7 what is left.

## 1. The system

### How the parts work together

A client (an agent, through an MCP tool) starts a workflow and then calls
`get_next_step(id)` until the answer is None. The `QueueBasedWorkflowExecutor` keeps, for
each workflow, an instance (status), a queue of steps, an execution context (loop stack,
variables) and a lock. A call takes steps from the front of the queue: server steps are
executed on the spot and may put steps at the front of the queue (branches, loop bodies,
continuations), client steps are collected and returned. State is read by expressions and
written by updates, through one `StateManager` that all workflows share and, for the agents
of a parallel step, a `ConcurrentStateManager` around it. An update brings the computed
fields of the state up to date. A `parallel_foreach` becomes one task for each item, with a
queue and a context of its own, for which sub-agents ask from threads of their own. Managers
for timeouts, resources, retries and errors are separate objects, which some tools and steps
call. Workflows come from files, which a loader finds, a validator checks, and a composer
includes in each other.

The analysis server parses TypeScript files (with a cache of trees), finds symbols,
imports, types and calls in them, and keeps what it found in caches of its own. The
standards server keeps coding rules in files and gives them to clients, in full once and as
references afterwards. The build and filesystem servers run a tool for every call and cut
long answers into pages. These servers share nothing with each other but libraries.

### Inventory

| Component | State | Operations | What is hard | What makes it correct |
|---|---|---|---|---|
| Interpreter: `workflow/queue_executor.py` `get_next_step`, `queue.py`, `step_processors.py`, loop stack of `context.py` | queue of steps, collected and pending client steps, loop stack, status | `get_next_step`, one processor per kind of step | one flat queue and a separate stack of loops describe the same nesting; ids decide what belongs to a loop; templates are replaced early; error returns in the middle of a call | queue and stack agree; loops are bounded; break affects one loop; completed means nothing left |
| Sessions: `workflow/queue_executor.py` around it | dictionaries of instances, queues and locks, status | `start`, `get_next_step` by many threads, removal, `shutdown_gracefully`, `cancel_all_workflows` | locks are made and forgotten; look-ups before and after a lock is taken; iteration over a dictionary that threads change; a timeout | one call at a time per workflow; no step lost or taken twice; calls return; shutdown leaves nothing running that it found |
| State store: `state/manager.py`, `state/concurrent.py` | state objects, versions, checkpoints, two locks | `read`, `update`, `create_checkpoint`, `restore_from_checkpoint` | updates in place with a copy to go back to; two layers of locks; versions that some writers do not count; shared objects | batches are atomic; checkpoints are whole; no deadlock; a workflow changes nothing of another one |
| Computed fields: `state/transformer.py`, `state/manager.py` | dependency graph, cached values | resolve, cascade after an update, read | order of the cascade, cycles, paths with several names, policies on errors | every field has the value that computing it again gives |
| Sub-agents and parallel tasks: `workflow/subagent_manager.py`, `workflow/parallel.py`, debug mode of the executor | contexts and queues of tasks, task status, futures | prepare a step, next step of a task, run, wait, put back | threads share the parent; limits; task ids; one step that comes back again and again | every step of every task once, in order, within the limits |
| Timeouts: `workflow/timeout_manager.py` | tree of operations, callbacks, tasks of the event loop | start, extend, complete, cancel, check, cascade | expiry against completion; parents and children; a clock | ends are respected; nothing stays overdue |
| Resources, retry, breaker: `workflow/resource_manager.py`, `workflow/retry.py` | allocations, totals, breaker, shared retry records | request, allocate, release, collect; enter and leave the breaker; attempts | collection of what is still used; a breaker without a lock; records shared by calls | totals are sums and respect limits; the breaker counts; attempts are bounded |
| Errors: `errors/` | handlers, retry state, circuit; errors of parallel tasks | handle, reset; report, aggregate | two sections of one lock per report | somebody learns that all must stop |
| Expressions: `workflow/expressions.py` | contexts, globals of the JavaScript engine | parse, evaluate | one evaluator for all threads; a subset of JavaScript with Python's values | an expression means what it means in JavaScript, with its own context |
| Loading, validation, composition: `workflow/loader.py`, `validator.py`, `composition.py` | contexts of the validator, inclusion tables | load, list, validate, include, complete, clean up | contexts passed over blocks and tasks; ids made of seconds | references are scoped; the tables agree |
| Analysis caches: `analysis_server/tools/cache_manager.py`, `incremental_analyzer.py`, `typescript_parser.py`, `symbol_resolver.py` | three levels of copies, dependency graph, trees, sizes, results | get, set, invalidate, analyse again, parse, resolve | staleness, dependents over several imports, limits, files edited at any time | what is returned belongs to the files as they are |
| Analysis algorithms: call graph, types, imports, workspace, function details | graphs, caches, projects | build, search, break cycles, resolve, update, batch | recursion with limits, cycles, searches of text, memory limit | see section 3 |
| Standards server | files, index and its cached copy, sessions | register, change, delete, hints, clean up | several files written one after the other, a kill in between; a budget; what a session was given | a rule is answered as it is stored, and a reference only if the client can know the rule |
| Build and filesystem servers, `utils/pagination.py` | none; the project | one tool per call; pages | the list is made anew for each page, and the project may be edited | pages cover what was there all the time |
| MCP wrappers, step modules of the older executor, monitoring, deployment, testing helpers, prompts, inheritance, unused code | counters and texts | | nothing depends on them, or they are calls of other programs | |

`PROJECT.json` lists the components with their status, and under `hazards` each place in
the code where something can go wrong that a test would hardly reach, with the property
that watches it.

## 2. The modules

| Module | Models |
|---|---|
| `ControlFlow` | the interpreter of one workflow, one step of the model per step taken from the queue |
| `StructuredProgram` | what a workflow promises: nested blocks, one after the other; abstract, implemented by `ControlFlow` |
| `WorkflowSession` | the threads around the queues of all workflows, which switch between any two accesses to shared data |
| `StateStore` | `StateManager` and `ConcurrentStateManager` for one workflow; objects on a heap, so that sharing is visible |
| `VersionedStore` | what the two promise: a value replaced as a whole, a version; abstract, implemented by `StateStore` |
| `StateObjects` | the lists that the states of two workflows are made of, and who shares them |
| `FieldOrder`, `ComputedFields` | `DependencyResolver`; on it, what `StateManager` does to computed fields |
| `SubAgents`, `ParallelTasks`, `DebugSerial` | sub-agents of a parallel step; the task library; the debug mode, which expands a parallel step |
| `Timeouts` | both timeout managers, the monitor thread and the event loop |
| `Resources`, `Retries`, `ErrorHandlers`, `ParallelErrors` | accounts and circuit breaker; attempts; error strategies of a step; errors of parallel tasks |
| `Expressions`, `SharedEvaluator` | parser and operators against those of JavaScript; the evaluator all threads share |
| `Validator`, `Composition` | the contexts of the validator; finding and including workflows |
| `AnalysisCache`, `IncrementalAnalysis` | the cache with three levels; which files are analysed again |
| `ParserCache`, `SourceSymbols` | the cache of syntax trees; on it, the symbols and their cache |
| `CallGraph`, `TypeResolution`, `Imports`, `Workspace`, `FunctionDetails` | the algorithms of the analysis server |
| `Standards`, `ProjectTools` | the standards server; the tools that answer with pages, and their pages |
| `MCControlFlow`, `MCWorkflowSession`, `MCSubAgents`, `MCFaults`, `MCTimeouts`, `MCState`, `MCAnalysis` | the instances for TLC |
| `ControlFlowProofs`, `WorkflowSessionProofs`, `StateStoreProofs`, `StateProofs`, `FaultsProofs`, `SubAgentsProofs`, `AnalysisProofs`, `ServerProofs` | theorems, of the part that the name says; `StateProofs` of `FieldOrder`, `ComputedFields`, `SharedEvaluator`, `Composition`, `StateObjects` and `Validator`, `FaultsProofs` of `Resources`, `Retries`, `ParallelErrors` and `Timeouts`, `SubAgentsProofs` also of `ParallelTasks`, `AnalysisProofs` of `AnalysisCache`, `IncrementalAnalysis`, `SourceSymbols` with `ParserCache`, `Imports`, `Workspace` and `FunctionDetails`, `ServerProofs` of `Standards` and `ProjectTools` |

Components that share nothing in the code are checked together: `MCSubAgents`, `MCFaults`,
`MCState` and `MCAnalysis` let only one part move in a behaviour, while the others keep an
initial state. The state spaces are added, not multiplied, and every property is checked
for its own part. Where one component works on the data of another one, the modules build
on each other: `ComputedFields` extends `FieldOrder`, `SourceSymbols` extends `ParserCache`.

Each definition called a mutant in the comment before it is a plausible mistake in the
definition that follows it. No formula uses it; it documents that a property fails with it.
A property whose comment says "by hand" or "refuted" is not in a run; section 4 says how to check it.

### ControlFlow

| Variable | Code |
|---|---|
| `main_queue`, `client_queue`, `pending` | `WorkflowQueue.main_queue`, `.client_queue`, `.pending_client_steps` |
| `loop_stack` | `ExecutionContext.loop_stack`, each a `LoopState` (id, iteration, limit, signal); `runs` is a history variable |
| `status` | `WorkflowInstance.status` |
| `phase` | where the call of `get_next_step` is |
| `failed_step` | `step_id` of the error that the last call returned |

`BeginCall` completes the pending steps implicitly and begins the scan. Every action of
`ProcessStep` takes the front of the queue: `ClientStep` (batching, blocking and waiting),
`ServerStep`, `ProcessConditional`, the actions of `process_while_loop` (condition missing,
limit reached or false, error, iteration) and of its continuation, those of
`process_foreach`, and `process_break` and `process_continue` with the removal of the rest
of the body by id prefix or metadata. `Respond` and `Finish` end the call. Failures return
an error and take the step off the queue, as the code does.

Step ids are sequences of the components between the dots, since `startswith(loop_id +
".")` is all that looks into them. What conditions evaluate to is left open: they read a
state that `update_workflow_state` changes without the lock of the workflow. The number of
items of a `foreach` is any member of a set given by the definition.

### WorkflowSession

`stage` says which of the dictionaries `workflows`, `queues` and `_workflow_locks` have an
entry for the workflow, in the order in which `start` and the removal change them. `lock`
and `made` number the lock objects: a removal forgets the lock, a later caller makes
another one. `pc`, `on`, `mine`, `peeked`, `answer` are the local state of a thread in
`get_next_step`. The remaining variables are those of the coroutines. One list of steps per
workflow, `main`, stands for what `ControlFlow` does in detail; `taken` is a history
variable. An iteration over `self.workflows` is one action per workflow visited, with
threads in between; it ends with an exception when the dictionary changed its size. A
coroutine only gives way to another one at an await.

### StateStore, StateObjects

`heap` holds every state object made, `live` the one in `StateManager._states`, `saved` the
checkpoints. `clock` and `lock` are the owners of the two locks. The fields of an object
stand for the tiers of a `WorkflowState`, which `update` writes and `create_checkpoint`
copies one after the other. An update writes its own number into every field, so that an
object with two numbers in it shows parts of two batches. Agents go through both locks,
executor threads (`Direct`) take the inner one only, keepers (checkpoint and restore) the
outer one only.

`StateObjects` is about the next layer of sharing: the lists inside the tiers. `start`
takes default values and inputs as they are, a template that is one expression returns the
object it names, and updates work in place; a list is its length.

### FieldOrder, ComputedFields

The depth-first search of `_detect_circular_dependencies` is one action per call or return
of `dfs`, with the stack in `path`; Kahn's algorithm one action per field taken. Both go
through Python sets, so any order is possible. `ComputedFields` uses the order for the
cascade of `update` and for `read`; a value is the set of versions of the state that went
into it, so a stale field is one whose set differs from what computing it again gives.

### SubAgents, ParallelTasks, DebugSerial

In `SubAgents` each task has its context, state (a counter) and queue; an agent looks up
the context under the lock of the manager, then works through the queue under the lock of
the workflow. In `ParallelTasks` one starter asks for tasks and starts them, worker threads
finish them, `wait_for_all` may give up. `DebugSerial` follows the debug mode of the
executor: markers put the parallel step back into the queue after each expanded step.

### Timeouts

`ctx` holds the contexts with start, limit, end and flags; `callbacks`, `children` and
`task` are the dictionaries and the asyncio tasks. Every public operation is an action;
`CheckTimeouts` is one pass of the monitor, with the cascade down the tree in the order of
the code. `time` advances at any moment.

### Resources, Retries, ErrorHandlers, ParallelErrors

The accounts are under one lock, so each call is an action. `circuit_breaker_context` does
not ask for it: threads enter and come back with success or failure, and `is_open`,
`record_success` and `record_failure` are an action for each field that they read or write
(`found` is the count a thread has read), also against `execute_protected_operation`, which
holds the lock (`locked`). `configure_circuit_breaker` leaves such threads with the old
breaker. In `Retries` every attempt and every delay is an await, and `state`
says whose record a call counts in. `ErrorHandlers` is the decision of `handle_error` with
the retry state and the circuit it leaves. In `ParallelErrors` a report takes the lock of
the aggregator twice, with other reports in between.

### Expressions, SharedEvaluator

Expressions are built token by token and parsed by the functions of the parser's levels; a
second definition, by the loosest operator, says what the grammar of JavaScript makes of
them. The operators are compared for fifteen values of each side, ints and floats apart.
`SharedEvaluator` has the attributes of the evaluator and the globals of the engine, and
threads that work on workflows of their own.

### Validator, Composition

The validator's recursion over blocks is a stack of contexts over the lines of a workflow
and of a task; what it collects and forgets in each pass is in the contexts. `Composition`
has files with a name, a validity and include steps, a clock in seconds, the composer's two
tables, and agents that start what they were handed and report its end, or do not.

### AnalysisCache, IncrementalAnalysis, ParserCache, SourceSymbols

A key of `AnalysisCache` can have a copy in memory, among the symbols and on disk; each
level has a lock, a call goes through them one after the other, and two threads interleave
between them. `IncrementalAnalysis` has a project that changes at any time and one pass
that looks, analyses and updates its graph of imports; the history variable `revived` has
the files that were made again while a pass took them for deleted, whose symbols are not
told that they are old (section 4). `ParserCache` keeps trees with their
sizes, `SourceSymbols` the answers under the times of files; a symbol cut out of one
content by the tree of another one is `Torn`.

### CallGraph, TypeResolution, Imports, Workspace, FunctionDetails

`CallGraph` builds the graph from calls in any order, finds the cycles with the library or
with the search of the class, breaks and restores them. `TypeResolution` answers every
annotation of every small set of declarations. In `Imports` a line is a statement with its
kind and form, so that the patterns which find it, or miss it, are in the model; the caches
are as the code keeps them. `Workspace` discovers projects, makes graph and context at
different times, and updates what a change affects. `FunctionDetails` has the three ways to
ask for several functions, with analyses that find, miss or raise.

### Standards, ProjectTools

A tool of the standards server is a sequence of writes of single files, and the server may
be killed between two of them, or within one. Sessions remember what was given, in full or as reference.
`ProjectTools` lists, sorts and cuts; the project is edited between pages, and a page is cut
from a list that is made anew.

### Approximations

* `ForceStop` reads whether the workflow exists and writes its status in one step;
  `CancelVisit` and `CancelWrite` do the same in two, so that the race is in the model.
* In `WorkflowSession` a client step always ends the call; batching is in `ControlFlow`.
* Workflows are removed only when they are not running and their start has returned, and
  their ids are never used again (`uuid4`).
* An agent's read of state and version is one step: `read` holds both locks.
* Updates with an invalid path are rejected before anything changes: the model has the
  rejection for agents, who hold a lock at that time, and leaves it out for executor threads.
* A `deepcopy` that fails because another thread changes the size of a dictionary
  meanwhile is not modelled.
* Durations are left out of the session; in the other modules a clock counts units, and
  limits are compared with it as the code compares them.
* In `AnalysisCache` a demotion goes down in one step, under the locks of the levels above.
* In `Standards` the tools run one at a time. A file is written in one step; a kill can fall
  within it: an index or a manifest that was open is then as good as lost (`IndexOpen`,
  `ManifestOpen`). Metadata and hints are written where there were none, so that half a file
  is none. `Like` stands for the two tests by which rule files are taken for those of a
  standard (`register.py:266` a prefix, `_storage.py:354` a part of the name); no property
  of a run depends on it.
* In `Resources` the clock is read in one step with `last_failure_time`, or with its
  assignment. The lock of `execute_protected_operation` does not hold up the accounts, which
  share nothing with the breaker.
* In `ControlFlow` the value that has taken the place of a template is never a string: such
  a value would be evaluated as an expression (`step_processors.py:374`, `483`, `666`),
  others make the step fail (`Spoiled`).
* In `Imports` no alias is the beginning of a relative path (`import_tracker.py:110`), and a
  package is never a path from the root (`142`).
* In `TypeResolution` a circle of bounds is refused because a parameter met again counts as
  10 (`type_resolver.py:1249`): a `max_constraint_depth` of 11 or more would let it pass. The
  tool always uses 3, the run 1 and 2.
* What regular expressions and the parser find in a text is given: calls, declarations,
  statements. What they are known to miss is in the model as kinds of its own.
* What the JavaScript engine computes, where it is installed, is left open; its globals are
  in `SharedEvaluator`. `Expressions` is the evaluator that is part of the code.

## 3. The runs

| Run | What it asks | Instance |
|---|---|---|
| `nested` | Do queue and loop stack agree, and execute the workflow as a structured program? | foreach over while over foreach, lists of 1 to 3 items, limit 2, batched, blocking and wait steps, a conditional |
| `flow` | Does break end the iteration, also when steps fail? | loops one after the other with break, continue, empty lists, failing steps, templates, break and continue outside loops |
| `session` | One call at a time, steps in order, calls return, shutdown settles and ends | one workflow `<<server, client>>`, two clients, the shutdown thread, all of start, removal, shutdown and cancel |
| `store` | Atomic batches, whole checkpoints, calls return, implementation of `VersionedStore` | two agents, one executor thread, one keeper, two checkpoints, two fields |
| `subagents` | Is each task done once, in order, within its limits, and does everybody come to an end? | three agents for two of three items, two rounds; three tasks for two slots; six kinds of workflows in debug mode |
| `faults` | Do accounts, breaker, retries and reports of errors stay right when calls interleave? | two workflows, two threads in the breaker, three retrying calls, one step with handlers, three parallel tasks |
| `timeouts` | Are ends respected, and does nothing stay overdue? | a workflow, a step in it, an asynchronous operation in the step |
| `state` | Order and currency of computed fields, meaning of expressions, isolation of contexts and updates, scopes of references, tables of inclusions | see the bounds |
| `analysis` | Is what caches, algorithms, hints, pages and batches answer what the files say? | see the bounds |
| `inner_break`, `torn_checkpoint`, `shared_evaluator` | a statement of the documents or comments, refuted | the smallest instances that show it |

What the properties say, beside their comments:

* `IterationBound`: a loop runs its body as often as its list or limit says, although its
  counter travels through queue and continuation.
* `LoopsNested`, `ImplementsProgram`: the flat queue and the loop stack describe one
  nesting, and every step is one of a program of nested blocks. `WorkflowCompletes`: no
  endless loop inside a call, and the client gets to the end. `BreakEndsIteration`: no step
  of the body is left after break.
* `OneCallAtATime`, `StepsInOrder`: mutual exclusion although locks are forgotten, and
  what follows for the steps. `EveryCallEnds`, `ShutdownSettles`: nobody waits for ever, and
  what shutdown found started is no longer running when it is over.
* `AtomicUpdates`, `CheckpointsWhole`, `ImplementsStore`, `OperationsReturn`: the store
  behaves as one value with a version.
* `RunsTask`, `TasksLimited`, `TasksInSequence`, `AgentsStop`: the three ways to do the
  tasks of a parallel step.
* `Accounted`: the totals are the sum of what workflows hold. `BreakerCounts`: a
  breaker with enough failures does not stay closed, and one that is open or half has enough,
  save after a write by what another thread had changed since (`overtaken`).
  `AttemptsBounded`: also for a call that counts in the record of another. `StopAnswered`:
  however the reports overlap, one of them learns that the threshold is exceeded.
* `EndsRespected` (an expiry takes along what was begun inside; no callback after an end in
  time), `OverdueEnds`.
* `OrderRight`, `UpToDate`: the order of fields and what the cascade leaves behind.
  `ExpressionsAgree`: parser and operators against the reference. `NothingLeftBehind`: no
  context of an expression that has ended. `UpdatesContained`: no update shows in another
  workflow, nor after a failed batch. `ReferencesScoped`: the one context that is passed
  around says what the blocks around a step say. `InclusionsKept`: the composer's two tables.
* `Coherent`, `AnalysisCurrent`, `SymbolsCurrent`, `GraphFollowsImports`,
  `WorkspaceFollowed`: what four kinds of caches and a graph return belongs to the files, at
  the time and under the exceptions that the comments state.
  `TraceSound`, `DepthLimited`: cycles and depths against a definition by reachability.
  `HintsRight`: hints are the rules as stored, also after a kill, and a reference stands for
  a rule the client was given. `PagesComplete`, `DetailsComplete`: nothing that was there is
  missing from the pages or the batch.

### Bounds, and why they are enough

* `nested`: three levels let a loop be inner and outer at once; a list of 2 or 3 items and
  a limit of 2 let an iteration be first, middle and last; a continue in the
  innermost list must leave two loops alone. Ids are of both kinds, generated and written in
  the workflow, which is what decides what belongs to a loop. An inner
  break is left out, because of the first finding.
* `flow`: one loop at a time; every way into and out of a loop, and every failure.
* `session`: two clients contend for one lock, the third thread comes from shutdown. One
  workflow suffices, as workflows meet only in the dictionaries, whose size changes with
  one. A program of two steps has a call that ends in the middle and one that completes.
* `store`: two agents conflict, the executor thread gets between an agent's read and its
  update, two checkpoints are restored in either order. `MaxUpdates` = 2 bounds the updates
  begun; an agent past that check may begin one more, so there are up to three. Two fields
  are enough to tell a part of a batch from all of it. `Quiet` says that keepers and
  executor threads do not work at the same time, `Once` that a checkpoint is restored at
  most once; without them the store is not atomic (`torn_checkpoint`, `CheckpointStable`).
  `Success` are the values that a field `success` of the state can have, `{TRUE}` if it has
  none: `update` takes the state for a result and looks there whether to count the version.
* `subagents`: two agents ask for one task and one for the other; the third item is beyond
  the limit. The program of a task leaves a while loop in both ways and enters a foreach in
  it twice. `Overlap` FALSE: a round begins when the agents of the last have stopped. In
  debug mode a list has one to three items or none, a task has steps, expanded ones or none,
  and the evaluation of the list may fail.
* `faults`: amounts and limits such that two workflows fit for one resource and not for the
  other; `StaleAfter` 1 lets the collector take what a workflow still uses; a threshold of 2
  with two threads lets failures be counted side by side, and one thread go through all of
  the breaker's states while another one is between a test and its write; three calls share one record of
  two attempts; of three tasks at 50 percent, two are one too many.
* `timeouts`: three levels of the tree, limits of 1 and 2, `LastTime` 2 and `MaxCalls` 4: an
  operation can be started, started again, extended and ended, before and after its limit.
* `state`: three fields over every graph, with a policy on errors each; two workflows, two
  batches on shared lists; seven tokens hold two operators of any levels with a unary or
  a bracket; eleven operators on all pairs of fifteen values, which have every type and the
  borders 0, -1 and one half; five lines hold a loop in a loop, or a loop and a task; three
  names of workflows, up to four running, three seconds.
* `analysis`: *cache* three keys of which one uses another, levels of size 1, 2 and 3, two
  threads, five calls; *project* three files that can import in a circle, two
  changes of any of them or four of two of which one always parses, during one or several passes, which is as many as it
  takes to delete a file, make it again while a pass finds that out, and change it after; *calls* three functions with any calls, depth up to 2; *standards*
  two standards of which the one's id is a prefix of the other's, three rules, three changes
  (also run with four), kills between any two writes and within one; *types* three names and two parameters
  with up to two edges, limits 1 and 2; *symbols* two files with two contents each, a cache
  that holds one or two trees; *imports* three files with statements of every kind, two
  changes and two questions (also run with three); *workspace* four folders and three files,
  of which one is owned by a nested project, one change (also run with two); *pages* four
  items, two edits, pages of one to three items, six pages; *details* three names in three
  files, every outcome of an analysis, requests below and above the size of a batch.

Deadlock is checked in the runs of `ControlFlow` and `StateStore`. Elsewhere the system may
stop: a client that was told that its workflow is over stops calling, and the bounds on
calls, edits and time are used up.

### Fairness

* `ControlFlow`: the thread in a call is scheduled (weak fairness of processing), and, for
  `WorkflowCompletes` only, the client keeps calling.
* `WorkflowSession`: threads inside a call, the event loop while a coroutine runs, and the
  clock are scheduled. Nobody has to call, start, remove, cancel or shut down. Waiting for
  a lock needs no more than weak fairness: a workflow has finitely many steps and a client
  stops when it is told that it is over, so the lock is taken finitely often.
* `StateStore`: threads inside a call are scheduled. The outer lock is taken by the first
  step of a call: that a thread gets it is not claimed, only that who is in returns.
* `SubAgents`: the parent that prepares a step goes on, and each agent asks again and again,
  as sub-agents do until they are told that their task is complete.
* `Timeouts`: the monitor thread, a loop with a sleep, comes round. Nobody has to complete,
  extend or cancel anything.
* `DebugSerial`, `Resources`, `Retries` and `ErrorHandlers` state the fairness of their
  caller, collector, coroutines and step; no property of a run needs it. `RetriesReturn`
  (every retried call ends) and `DebugCompletes` hold under it.

## 4. Findings

Three runs expect a violation; `PROJECT.json` quotes the line that each contradicts.

1. `inner_break`: a break in an inner foreach starts the outer one again, as the loop state
   stays on the stack when the loop step is removed.
2. `torn_checkpoint`: a checkpoint taken during an executor's update holds a part of the
   batch, as it is copied under another lock.
3. `shared_evaluator`: two workflows evaluate expressions at the same time, and one reads
   the state of the other.

The modules state more that the code, or what is written about it, suggests and that TLC
refutes. To see one, take the configuration file, replace its INVARIANTS and PROPERTIES by
the statement, make the change, and run TLC on the module that the run names (`nested`
`MCControlFlow`, `session` `MCWorkflowSession`, `store` `StateStore`, `subagents`
`MCSubAgents`, `state` `MCState`, `analysis` `MCAnalysis`). For `Nested.cfg`, `Session.cfg`
and `Store.cfg` also replace `FairSpec` by `Spec`.

| Configuration | Change | Statement | What the counterexample shows |
|---|---|---|---|
| `Nested.cfg` | `Def <- TemplatedDef`, `Main <- TemplatedMain` | `OnlyFaultyStepsFail` | the documented form of a while condition, `{{ ... }}`, fails in the second iteration: the template in the queue was replaced by its first value |
| `Nested.cfg` | `Def <- BreakDef`, `Main <- BreakMain` | `BreakEndsIteration` | after break in a while loop a body step with an id of its own is still executed |
| `Session.cfg` | `Client = {c1}` | `ShutdownPreservesSteps` | shutdown takes client steps and drops them |
| `Session.cfg` | `Client = {c1}` | `OnlyActiveStopped` | a workflow that completes while it is stopped or cancelled ends as stopped or cancelled |
| `Store.cfg` | `Agent = {a1}`, `Direct = {}`, `Checkpoint = {c1}` | `ConflictsDetected` | a restore sets the version back to a number that is in use: a conflict is missed |
| `Store.cfg` | `Quiet = FALSE` | `ImplementsStore` | an executor thread finds no state, or a new one, in the middle of a restore |
| `Store.cfg` | `Agent = {a1}`, `Direct = {}`, `Checkpoint = {c1}` | `CheckpointStable` | a restored checkpoint shares its dictionaries with the state and is changed by the next update |
| `SubAgents.cfg` | `Workflows <- TwoForeachs` | `TasksInSequence` | debug mode: a second parallel_foreach is skipped |
| `State.cfg` | `Written` with `"raw"` and `"this"` | `UpToDate` | an update by the other name of a tier leaves the fields behind |
| `State.cfg` | `Reload = FALSE` | `UpdatesContained` | workflows started from one definition object share the lists of its default state |
| `State.cfg` | | `InputsKept` | an update of the state changes the inputs, which are the same list |
| `Faults.cfg` | | `OpenHasCounted` | a thread opens half what another one has closed and reset meanwhile, so that one more failure does not open it |
| `State.cfg` | | `OperatorsLikeJavaScript` | `4 / 2 === 2` is false, as the quotient is a float |
| `State.cfg` | | `ReferencesDetected` | undefined references in places the validator does not look into |
| `State.cfg` | | `ValidationEnds` | a task whose parallel_foreach names the task itself sends the validator round in circles |
| `State.cfg` | | `ProvidedAccepted` | the validator refuses variables that the executor provides |
| `State.cfg` | `CustomNames = TRUE` | `LoopsLexical` | a loop variable with a name of its own is lost inside or kept outside the loop |
| `State.cfg` | | `NoCircularInclusion` | circles of two or more inclusions are never found |
| `State.cfg` | | `ContextsOwn` | ids of inclusions made in the same second collide |
| `State.cfg` | | `EndedForgotten` | a workflow that has ended cannot be included again before the clean-up |
| `State.cfg` | | `ListedLoad` | a listed workflow cannot be loaded by its listed name |
| `Analysis.cfg` | `Overlap = TRUE` | `Coherent` | a call that overlaps with an invalidation puts an old copy back |
| `Analysis.cfg` | | `ImportersCurrent` | a file that is deleted and made again has lost its importers |
| `Analysis.cfg` | | `RevivedCurrent` | a file that is deleted, made again during the pass that finds this, analysed in it and then changed keeps its old symbols |
| `Analysis.cfg` | `Again = TRUE` | `AnalysisCurrent` | a second `analyze_full` keeps the symbols and imports that the first one cached |
| `Analysis.cfg` | | `DepthRespected` | the depth that is reported exceeds `max_depth` |
| `Analysis.cfg` | | `RegisteredAppear` | a standard whose registration was interrupted, or that the cached index does not know, gives no hints |
| `Analysis.cfg` | | `ClearedAppear` | rules are not shown again after the session was cleared |
| `Analysis.cfg` | | `PluginLoads` | the plugin cannot load rules that it lists |
| `Analysis.cfg` | | `OthersKept` | deleting a standard takes rules of others away |
| `Analysis.cfg` | `MaxChanges = 4` | `ReferencesCurrent` | a session refers to a rule that has changed since |
| `Analysis.cfg` | | `InheritanceLimited` | bounds with arguments hide what an interface extends from the limit |
| `Analysis.cfg` | | `BoundsInCircleFound` | circles of three bounds, or hidden behind arguments, are not found |
| `Analysis.cfg` | | `UnknownReported` | arrays, unions and instantiations of types that do not exist are answered as types |
| `Analysis.cfg` | | `ExampleResolved` | `<T extends BaseEntity, U extends T>`, the example of the code, is an error |
| `Analysis.cfg` | | `MissingReported` | a missing file is not reported |
| `Analysis.cfg` | | `ReferredOnce` | calls in methods are reported twice |
| `Analysis.cfg` | | `SymbolsFound` | properties and methods are not found by their names |
| `Analysis.cfg` | `Requests <- MCBothOrders` | `ResultsCurrent` | the files of an earlier call in another order: a symbol that two of them have is in the wrong one |
| `Analysis.cfg` | | `LatestKept` | the second callback of an emergency removes what the first one kept |
| `Analysis.cfg` | `Wide <- MCWide` | `SizeKept` | the size that is kept differs from that of the entries |
| `Analysis.cfg` | | `GraphCurrent` | cached imports of changed files |
| `Analysis.cfg` | | `FlagsRespected` | flags are not part of the key of the cache |
| `Analysis.cfg` | | `ReexportsRespected` | re-exports are cached under other flags |
| `Analysis.cfg` | | `TypesIncluded` | type-only imports are missed without another flag |
| `Analysis.cfg` | | `DependentsGiven` | dependents are left out although asked for |
| `Analysis.cfg` | | `RootRespected` | the project root of the first call is used for all |
| `Analysis.cfg` | | `AffectedTransitively` | only direct dependents count as affected |
| `Analysis.cfg` | | `OwnerFound` | the owner of a file is found by the prefix of its path as a string |
| `Analysis.cfg` | | `OrderReturned` | a cycle of projects raises instead of giving a partial order |
| `Analysis.cfg` | | `ProjectsKept` | of two projects with one name the later replaces the earlier |
| `Analysis.cfg` | | `RenamedForgotten` | a project that has another name now, or is none any more, is kept by a second discovery |
| `Analysis.cfg` | | `ResolvedDeclared` | imports are resolved by parts of the path, to projects that are no dependency |
| `Analysis.cfg` | | `NoneTwice` | an item is received twice when the list changed between pages |
| `Analysis.cfg` | | `ResponsesFit` | short lists are answered whole, whatever their tokens |
| `Analysis.cfg` | | `PagesEnd` | where keys are equal the cursor never moves on |
| `Analysis.cfg` | | `LintAnswers` | a `result` that was never assigned hides what ESLint found |
| `Analysis.cfg` | | `FailuresReported` | errors of a batch are dropped |
| `Analysis.cfg` | | `NamesAnswered` | names that do not fit on the page can never be asked for: the cursor is always None |
| `Analysis.cfg` | | `ProjectSearched` | only the files of the first function are searched |
| `Analysis.cfg` | | `RequestsAnswered` | `process_batch_request` unpacks three values into two |
| `Analysis.cfg` | | `SeveralFound` | `analyze_multiple_functions` keeps pairs of None and errors |

Statements that are not in a run and hold: `ForeachComplete` (`nested`, and proved), `ContinueKeepsLoop`
(`flow`), `DebugCompletes`, `RetriesReturn`, and the conjuncts of which properties of the
runs are made.

Smaller observations, which are in the models but have no statement of their own:

* A kill while the manifest is written loses all that it lists (`_storage.py:38`, `:47`).
* `max_parallel` cuts the list of items (`subagent_manager.py:86`); the others are never done.
* The record of a step's retries is made and consulted, but the breakers of the class never
  are: `_update_circuit_breaker_on_failure` has no caller (`retry.py:176`).
* `set_workflow_limits` (`resource_manager.py:407`) overwrites what a workflow holds and
  leaves the totals; an allocation for a workflow that has one already (`:148`) is added to
  the totals and replaces what it holds.
* A half-open breaker lets any number of probes through (`:518`). As its methods take no lock,
  a thread can open half what another one has closed (`:72`), close what has just been opened
  again (`:80`), or set the count of an open breaker to 0 (`:81`).
* An asynchronous operation ignores an extension (`timeout_manager.py:484`), and its own
  expiry does not go down the tree (`:489`).
* `_update_dependency_graph` (`incremental_analyzer.py:843`) removes the edges to dependents,
  not the file's own dependencies as its comment says; it is made good as dependents are
  analysed again.
* `check_updates` reports a standard without hints as up to date, and the parser of a cached
  file has lost its syntax errors.

## 5. What is proved

Each theorem holds for every value of the constants, from the assumption named in the
module: `DefAssumption` (the definitions of a workflow are typed and refer to its steps),
`SessionAssumption` (finitely many workflow ids, which are never None, and a shutdown
thread that is not a client), `StoreAssumption` (threads of three kinds; None is no thread, no
checkpoint and nothing that was read or saved), `FieldAssumption` (finitely many fields),
`EvaluatorAssumption` (nobody is not a thread), `ParallelAssumption` (finitely many tasks, at
least one, and a percentage), `RetryAssumption`, `ResourceAssumption`, `TimeoutAssumption`,
`SubAgentAssumption`, `TasksAssumption` (types of the constants; finitely many calls, workflows
and operations), `CacheAssumption` (finitely many keys; sizes above 0), `StandardsAssumption`
(finitely many rules; a standard's id is part of itself), `CompositionAssumption`,
`ObjectsAssumption`, `ComputedAssumption` (types of the constants; what stands for no id or no
state is none), `IncrementalAssumption` (None is no version, content or state of the project),
`ParserAssumption` (a content is a finite set), `SymbolsAssumption` (a request has a list of
files), `ImportsAssumption`, `WorkspaceAssumption` (finitely many files and folders),
`RequestAssumption` (finitely many files; a request has lists of names and files, and names at
least one function if it has no files), `ValidatorAssumption` (the name that stands for an
input nobody uses is not one of the variables), `ToolsAssumption` (finitely many items, which
are numbers; sizes and keys are natural numbers). Where a theorem needs more, it says so in its
`ASSUME`, and the hypothesis is a switch of the model which the run sets in the same way,
or a formula that TLC evaluates on the instance of the run.

* `ControlFlowProofs!TypeCorrect`. Types are inductive for any `Def` and `Main`: the
  actions only look at the front of the queue and the top of the stack, and the lemmas on
  queues and stacks say that what they build is typed.
* `ControlFlowProofs!IterationsBounded`. `IterationBound` is not inductive: the code
  compares the iteration counter, not the number of runs, and for a while loop it compares
  it with the limit of the definition in the queue, not with that of the loop state.
  `LoopOK` adds that the counter is never behind the runs, and that the two limits are one.
* `ControlFlowProofs!ResponsesShaped`: a response has at most one step to execute, behind
  its messages. `ClientQueueOK` adds that, unless the loop of the call is over, the client
  queue has nothing but messages: an error return leaves those.
* `ControlFlowProofs!CompletedDrained`: completed means that nothing is queued, unsent or
  outstanding. `DrainedInv` adds that no step is outstanding while a call is under way,
  since the call completes those of the last one first.
* `ControlFlowProofs!LoopsAreNested` and `ForeachesComplete`, for workflows of which `LoopsHold`,
  and `ControlFlowProofs!ProgramImplemented`, the refinement of `StructuredProgram`, for those
  of which `Structured`. The hypotheses are formulas on `Def`. What they exclude is what the
  first finding and its relatives in section 4 are about: a break, or a continue in a while
  loop; a list that is empty or cannot be evaluated, which leaves its loop state behind; a
  template that is replaced when the step around it is processed; for the refinement also steps that the
  code does not recognise, by their ids, as the body of the loop to continue. Lists of any
  lengths, limits, conditionals, failing steps and any depth of nesting are allowed, and
  `NestedIsStructured` has TLC evaluate the hypothesis on the program of `nested`. The
  invariant `Framed` gives the loops of the stack the positions of their markers in the queue
  (`MarkersAt`, inner before outer by `Ordered`): what lies before a marker is
  inside its loop (`StepsInside`), so that no step can be taken for a loop further out, and a
  marker has the fields of the definition or those replaced since (`FieldsReplaced`). The queue
  and the stack then are the frames of `StructuredProgram` (`FramesOf`), and taking a step,
  putting a body in front, marking a loop and ending one are operations on frames. `Counted`
  says that a foreach has run once more than its counter says.
* `ControlFlowProofs!BreaksEndIterations`, for workflows of which `BreaksHold`. `break` removes
  the entries that the code recognises as the body of the innermost loop from the front of
  the queue, by the prefix of their ids or their `_loop_id`, and stops at the first other
  one; so the hypothesis is about ids and places. Every loop that is in no other one
  (`Outermost`) is at one place of the workflow, and what is inside it nowhere else
  (`InOnePlace`). If a break is anywhere inside, what its iteration executes itself has an
  id under that of the loop, except for the first step of a branch or of a while loop's body,
  which is not searched (`Recognized`); and `LoopHolds` for the loops further in, so a break belongs to
  an outermost loop. `FlowBreaksHold` has TLC evaluate the hypothesis on the program of
  `flow`, where breaks in a foreach and in a while loop are reached; the programs of
  section 4 that show what a break leaves behind (`inner_break`, `BreakDef`) are outside of it.
  The invariant `InPlace` says of the queue and the stack, for
  each outermost loop, that what is inside it comes first, that the loop or what it is in is
  in the queue at most once, and once a loop of its family is on the stack only as itself and
  next (`Placed`); with a break inside, that an entry from
  inside comes to the front only in an iteration, where the part of the queue down to
  the marker and the part of the stack from that loop on are nested as above (`InBody`).
  Then break finds the outermost loop on top of the stack, removes everything up to the marker and
  the marker or all of the entry behind, and what is left has nothing from inside (`BreakDrops`).
* `WorkflowSessionProofs!TypeCorrect`, and a thread in a call is in it for some workflow.
* `WorkflowSessionProofs!MutualExclusion`. `Locks`: a workflow that is still somewhere in
  the dictionaries has had at most one lock object, and has it; only a removed one can get
  another. A thread that found the queue holds the first object, and each has one holder.
* `WorkflowSessionProofs!StepsTakenInOrder`. Rests on mutual exclusion: what a thread has
  peeked is still the front of the queue when it pops it.
* `WorkflowSessionProofs!ShutdownStopsAll`. `Settling` follows a workflow from the list of
  shutdown to the answer that takes it off, and says that a workflow that is over stays so.
* `StateStoreProofs!TypeCorrect`. What a keeper copies or restores exists.
* `StateStoreProofs!BatchesAtomic`, `StateStoreProofs!CheckpointsConsistent`, for `Quiet`
  and `Once`. Neither property is inductive: whether the state is whole after a failed
  batch depends on an object that nothing refers to but a local variable. `Exclusive` says
  which locks are held where, so that a keeper works alone. `Kept` says whose objects are
  whose: a checkpoint that can still be restored has an object of its own, which is
  neither the state, nor what a batch is undone with, nor the copy a keeper makes; the
  fields an updater has written hold its number, those a keeper has copied agree.
* `StateStoreProofs!StoreImplemented`, for `Quiet`, `Once` and no field `success` that is
  false: every step is one of `VersionedStore` or none. Its value, version and checkpoints are
  state functions that choose the thread that updates or restores; `ValueFacts` and
  `CountedFacts` say what they are without a choice, from `Exclusive`. `Tracked` is the rest of
  the invariant: the state is missing only while it is replaced, an agent that holds the lock
  has the version it expects, the checkpoint being taken is not there yet. An update takes
  effect in `Applied`, when an agent's counts although `Bump` comes later; a restore in
  `RestoreBegin`; a checkpoint in `CheckpointEnd`; the writes and copies of single fields show
  nowhere.
* `StateProofs!ResolveCorrect`: for every graph, `resolve` returns a topological order
  or reports a cycle, whichever there is. The invariant follows both algorithms: `PathOK`
  (each field on the stack is a dependency of the one below, and what a call has passed over
  is black), `GraysOK` (gray fields are on the stack), `BlackOK` (no set of black fields is
  without one that depends on none of them, which is how a graph without cycles is said without
  induction), `DegreesOK` and `SortedOK` (in-degrees count what is not sorted; the queue is
  what has all its dependencies behind it). That the sort leaves nothing over follows from
  `BlackOK` for the set of the fields not sorted.
* `StateProofs!FieldsAreUpToDate`, for any finite graph of fields, errors and policies, with
  `PathsAgree`: whoever writes a place uses a name of it that the fields reading it
  know. An update that uses another name breaks that, and `UpToDate`. It rests on the
  invariant of the resolver. `Affected` is the least set closed under dependents, so that what
  is outside depends on nothing inside. The computation goes through the order once; a
  field keeps its value until it is computed, and what it depends on is computed before it and
  not again (`ComputedRight`), by the least-element argument on positions.
* `StateProofs!InclusionsAreKept`, for any workflows that include each other. `HandedOK`: a workflow
  waits for an inclusion that was handed out to it, and each context was made for one that
  was handed out. The ids are taken from the clock and can be taken twice, which is why the
  property leaves those out.
* `StateProofs!UpdatesAreContained`, for `Reload` TRUE: each start loads its definition, as
  the tool does. `ObjectsInv`: no two states hold the same list. `Mine` is the invariant within a batch: it changes the lists its state had and
  new ones, and its state holds no others; the copy for the case that it fails has new lists.
* `StateProofs!NothingIsLeftBehind`, for any number of threads in the one evaluator.
  `ContextsAround` and `GlobalsAround`: what the evaluator and each of the four globals hold
  was stored by the thread itself or by one that has evaluated beside it, or is nobody's since
  such a thread took it away; `BesideEachOther`: evaluating beside someone is mutual.
* `StateProofs!ReferencesAreScoped`, for `CustomNames` FALSE; for loops whose variable has a name
  of its own the property is false (section 4). The invariant is that the lines close no block
  but those they have opened (`Nested`); the rest is about the walk. `Nest` lists the blocks
  open after k lines, which are those around the next one (`AroundIs`); `Inside` says what
  contexts they make, so that contexts are pushed and popped in pairs at any depth; from that
  `WalkFinds` has what errors, paths and names the walk has kept after k lines. The walk is a
  fold, and so are the pieces it is made of; the lemmas on folds in front (`FoldExists`,
  `FoldResult`) are for all of them. The proof did not go through until two arms of a CASE
  in the model excluded each other, of which TLC had always taken the first.
* `FaultsProofs!StopIsAnswered`. `StopDue` looks at the reports under way: when too
  many tasks have failed, a report has added its error and not judged yet, or one has been
  answered with stop. The last of the reports that overlap sees all the others.
* `FaultsProofs!AttemptsAreBounded`. `SharesOK`: whose record a call counts in, and that a
  record nobody uses has counted nothing; `TriedOK`: what a call has tried is counted in the
  record it found first, save for the attempt it is in (a call keeps its record also after
  another one's success has forgotten it); `CountOK`: what a record has counted and the
  attempts under way stay below the count allowed and one for each call that shares it.
* `FaultsProofs!BreakerCorrect`, for any number of threads, with the types and `BreakerCounts`
  itself as the invariant: a step that reads takes a thread from what it has still to settle
  (`Unsettled`) only when it has read too few failures (`ReadingStep`); one that writes leaves
  its thread unsettled, or what it had been asked for is no longer so (`WritingStep`). That
  the writes of `is_open` and `record_success` can come late is why the second half has an
  exception: without it, it is refuted (`OpenHasCounted`, section 4).
* `FaultsProofs!AccountsCorrect`. The totals are a sum over the set of holders, defined by
  a fold. The lemmas before the theorem compare it with sums over finite sequences, which
  a bijection gives: adding a holder, taking one out and changing the amount of one change
  the sum by that amount. With them `Accounted` is inductive with its types.
* `FaultsProofs!EndsAreRespected`, an action property, from `TimeoutsTypeOK`, `TasksOK` (only
  asynchronous operations have tasks) and `CallbackOK` (an operation that has a callback
  runs or its time is over). What is below an operation is the least set that contains it
  and is closed under children, so the cascade needs no induction over the depth of the tree.

* `SubAgentsProofs!TasksAreLimited`, of the task library: `TasksLimited` is inductive once it
  is added that a task whose function is in the pool is active, until a wait gives up.
* `SubAgentsProofs!RunsAsAlone`, for `Overlap` FALSE and every task of which `RunsAlone` says
  that one agent, alone, hands out what is expected: a set of configurations, closed under the
  steps of the interpreter, in which each client step is the next one expected.
  `MCSubAgents!MCProgramRuns` is this hypothesis for the program of the run. The invariant
  `Follows` gives each task such a configuration: with its queue, its loops and its counter,
  at the number of steps handed out. An agent that is between two sections of its call has
  the task for itself; a stamp with the round says whose context a step was handed out with.
* `AnalysisProofs!CacheCoherent`, for calls at different keys (`Overlap` FALSE). Of every
  entry of a level `May` says why it is there: no call is about its key, and it is of the
  value set last; or a call is, and the entry is what this call has not got to yet, or has
  written. Promotions and demotions take entries from level to level, so `May` must go down the
  levels (`GoesDown`): what may be in one may be in those below. `Affected` is the least closed
  set of keys, so that no induction over the tracker's edges is needed. What the cascade of
  demotions and the clean-up of expired entries do is a fold; the *fold toolkit* at the head
  of `ServerProofs` derives a rule for invariants of folds from their recursive function with the
  least-element argument on numbers, once for both modules.
* `ServerProofs!HintsAreRight`, for a server killed between any two writes or within one. `StepsLeft`: what
  a tool has still to write is the end of one of its programs. `RegisteredOK`: a registered
  standard that no tool works on agrees in its files, index and hints (`Agreed`), one that is
  worked on does as far as the tool has got (`Prepared`). `Answers` folds over the rules.
* `AnalysisProofs!AnalysisIsCurrent`, for `Again` FALSE: a full analysis comes once, before the
  incremental ones. `IdleOK`: between passes, whatever is known to import a file that a
  file depends on saw it as it was seen last. `PassOK`: during a pass, the files in hand contain
  all the known importers of what has changed since. The proof failed at first, since the
  property was false beyond the bounds it had been checked with: see `RevivedCurrent` in
  section 4. The property now leaves out these files, and the run has the edits it takes.
* `AnalysisProofs!ResultsAreCurrent` and `SymbolsAreCurrent`, for two hypotheses on the
  requests which `MCAnalysis!MCSymbols` has TLC evaluate. `TargetsReached`: the traversal finds
  what a request with a target asks for, which it does not for properties and for what is
  behind other methods (`SymbolsFound`, section 4). `OrdersAgree`: requests with the same key
  have their files in the same order, which the key is without (`ResultsCurrent`, section 4).
  The second theorem, on the size that the cache of trees keeps of itself, is for contents
  without characters of more than one byte. `TreesOK`: an entry that is as old as its file has
  its tree, or the file changed between being read and asked for its time. `KeyOK`: a file of
  the call's key has the time it has now, or has changed since the call began and is newer for
  ever, so that a result under the key of a file as it is was not disturbed (`ResultsOK`).
  `FoundOK` follows the call from file to file (`FirstWanted`). Evictions and callbacks take
  the oldest entries, so each cache they leave is the end of the one before (`Less`).

* `AnalysisProofs!GraphsFollowImports`, for files for whose names no import is made up that
  names a file (`NoneMadeUp`; `_create_mock_imports` does for `user-service.ts` and some
  others, when no statement of theirs is seen, and such a graph has edges nobody wrote).
  `IsStraight`: what is cached of a file, as long as no file changed that it may depend on, is
  what is found in it now. What a call caches is a fold; `GrownCaches` has all its results.
  That the circles reported are all there are is a theorem on graphs: what
  `ReachesScript` computes are the ends of paths (`ReachesMeans`), and a shortest path from a file over another one
  back to it comes to no file twice (`LoopIsSimple`), so it is no longer than the number of
  files.
* `AnalysisProofs!WorkspaceIsFollowed`. `ProjectsOK` and `GraphOK` say what `fresh` stands for:
  the projects are those of the configurations, and the graph has an edge for each reference
  and dependency. What a discovery does to the dictionary of projects is a fold
  (`DiscoveredIs`): it finds the projects of all folders, in any order of the walk, and keeps
  those of before under other names. Stating this showed that the model had taken a second
  discovery to forget projects that have got another name, which the code does not
  (`RenamedForgotten`, section 4). `SymbolsFollow`: a cached symbol is one of the text as it
  is, or a change was not reported.

* `AnalysisProofs!DetailsAreComplete`. `DetailsOK`: while a batch is not stopped, what a name has
  so far are the searched files that yield it, once for each time the name has been met in the
  list (`Copies`, with `Turns`); when it is stopped, some number of times. That the files are
  those of the list which exist, in its order, is `ChosenIsSeq`, which holds of any walk of
  the directory (`WalkComplete`). Pages and the memory limit may cut the answer; they never
  put a file in it that does not define the function.
* `ServerProofs!PagesAreWhole`. `sorted` is defined by ranks: an item has as many before it as
  its place says, the ranks of two items differ, and a list without repetitions whose keys
  differ has one order (`SortedIs`, `OneOrder`). A page that ends later costs no less
  (`CostIs`, `PartsGrow`, about the fold of the sizes), so the binary search ends at the last
  position that fits (`OptimalEndIs`: the recursive function exists since its closed form
  satisfies the equation). The invariant has two parts. `Behind`, for any edits: all
  that was there all the time and is not after the cursor has been received, also when the
  cursor's item is gone and the list starts again. `Begun`, without edits: the pages received
  are the beginning of the list, and the cursor's item is the last of them. That keys differ
  is a hypothesis in the property: issues of one line have the same key, and then the pages
  need not end (`PagesEnd`, section 4).

The inductive invariants were checked with TLC on the instances of the runs first.

Only model-checked: liveness (`WorkflowCompletes`, `EveryCallEnds`, `OperationsReturn`,
`AgentsStop`, `OverdueEnds`), which with ENABLED is beyond the prover. `CallGraph`,
`DebugSerial`, `Expressions` and `TypeResolution` define a search, a parser or
a measure with RECURSIVE operators, which the prover cannot take in.
## 6. What is not modelled, and why

* MCP tool wrappers, conversion of parameters from JSON, prompts: checks of types and shapes
  of responses. One of them, `workflow_debug_info`, calls `get_next_step` and so takes a
  step of the workflow, as any client may.
* The step modules of the older executor, `serial_mode.py` and `debug_tools.py`,
  `sub_agents.py` and the adapter for tests: only tests use them.
* Monitoring, deployment, testing helpers, the history of `errors/tracking.py`: counters,
  files and texts on which no workflow depends.
* `inheritance_resolver.py`, whose extraction returns made-up members, and
  `find_unused_code.py`, which calls the program knip.
* The lexers, regular expressions and the external TypeScript parser, methods of strings
  and lists in expressions, replacement of templates in longer texts, `variables.py`.
* `TransformationEngine` and `AdvancedTransformer`, with the engines they call; nested
  paths, `increment` and `merge` of updates; the conflict resolution of pending updates in
  `concurrent.py`, which nothing ever adds to.
* In `SubAgents`: nested parallel steps, templates and status queries; in `Retries`: the
  delays; in `Resources`: callbacks of degradation; in `ErrorHandlers`:
  `ParallelRecoveryCoordinator`.
* In `AnalysisCache`: sets for one level, `set_symbol`, resizing, statistics, the files on
  disk and the memory manager; in `SourceSymbols`: the pass "dynamic" and `include_imports`,
  which stand partly for analyses that are not there; in `Imports`: positions, pages and the
  imports that are made up for files with certain names; in `TypeResolution`: the bodies of
  declarations and the instances of generics; in `Standards`: scores, texts and groups of
  compressed rules.
* The other tools of the build and filesystem servers: one subprocess or one access to the
  file system each.
* `update_workflow_state`, status queries, `list_active_workflows` and
  `stop_accepting_workflows` of the session: they read, or write one value.

## 7. What is left

1. Theorems about `DebugSerial`, whose recursion can be written without it.
2. `SubAgents` with nested parallel steps, and together with `StateStore`, whose agents
   they are.
3. `update_workflow_state` against `ControlFlow`: what a state that changes between the
   steps of a call does to templates that were replaced early.
