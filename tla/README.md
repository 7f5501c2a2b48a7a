# A verification of shadow-gentcore

shadow-gentcore runs workflows of AI agents. An author describes agents,
workflows, gates and rules in YAML; the framework loads them, orders the steps
of a workflow in layers, runs the agents of a layer side by side, checks their
results at gates, asks a person for approval, keeps results so that a run can
be resumed, and decides for every tool call of a model whether it may happen.

This directory holds TLA+ modules translated from that code, configurations
that check them with TLC, and theorems about them checked by TLAPS. Everything
is translated from the Python source under `src/harness/`; where a document or
a comment says something else, the difference is stated as a property that the
model violates, and listed under *Findings*.

    tlc -config DagResume.cfg MCDagEngine       one run
    tlapm DagEngineProofs.tla                   the proofs of a module

## 1. The system

### Parts, state, interactions

Paths are below `harness/`. The last column names the module that models the part.

| Part | State it keeps | Operations | Talks to | Module |
|---|---|---|---|---|
| **DAG engine**, `core/composition_engine.py`, `core/feedback_loop.py` | `_step_results` (a dict, whose key order matters), iteration counts of the feedback loops | `execute_dag`, `_run_dag_step`, `_check_gate`, `_check_feedback_loops` | agent runner (awaits it), state store | `DagEngine` |
| **Topological sort and checks**, `composition_engine.topological_sort`, `lints/rules.py`, `authoring/validator.py` | none between calls | sort in layers; lint; validate | engine, command line | `TopoSort` |
| **Linear engine**, `composition_engine.execute`, `checkpoint_state`, `restore_state`, `reset` | the same `_step_results`, kept from one execution to the next | sequential execution, snapshot | agent runner | `LinearEngine` |
| **State store**, `core/workflow_state.py` | step results and `_approval_<step>` records, in memory or as JSON files | `save_step`, `load_step`, `list_completed`, `clear` | engine and server, from several processes | `FileStateStore`, and in `DagEngine` |
| **Tool authority**, `core/tool_executor.py`, `core/rule_engine.py` | rule context and file allowlist; rules and mtime | install, judge, invoke, clear; hot reload | one executor is shared by all agents of a workflow | `ToolAuthority` |
| **Agent runner**, `core/agent_runner.py`, `core/grading_engine.py` | record of the run, budget, context of reflexion | hooks, memory, prompt, strategy, files, grading, rounds | strategies, memory, executor | `AgentRun` |
| **Strategies**, `core/modes/*.py`, `core/tool_disclosure.py` | message history, promoted tools | ReAct and four others | provider (awaits), executor | `ReActLoop`, `Strategies` |
| **Anthropic provider**, `providers/anthropic_provider.py` | none between calls | read a response, retry | vendor API | `ChatProvider` |
| **Agent memory**, `core/memory_store.py` | one JSONL file per agent | append, compact, recall, clear | runner, other processes | `FileMemoryStore` |
| **HTTP server**, `server/app.py`, `server/runner.py` | a semaphore | run an agent, a workflow, either; approve; list | builds an engine per request | `ServerApi` |
| **Tools**, `tools/mcp_loader.py`, `tools/builtin.py`, `core/egress_guard.py` | the pipe to an MCP server | MCP calls, shell, guarded HTTP | executor | `ToolAdapters` |
| **Source adapters**, `core/source_adapters/` | a cache directory and its marker | materialize, refresh, fetch | processes that share the cache | `SourceCache` |
| **Provider selection**, `core/provider_resolver.py`, `provider_detector.py`, ... | tier registry, side-car file | resolve, report, detect, refresh | command line | `Providers` |
| **Commands**, `cli/ai.py` | one command from its line to its exit code | run, learn, build, scan, evolve | boots engines | `Commands` |
| **Loader and registry**, `core/manifest_loader.py`, `agent_registry.py` | known agents and their directories | scan, register, clear, boot | file system | `EngineBoot` |
| **Catalogue and scaffolds**, `authoring/` | index, workspace file, tool packs | publish, register, add, create | processes that share the files | `Catalogue` |
| **Credentials**, `core/credential_*.py` | what packs declare, what backends cache | resolve, validate, five commands | tools | `Credentials` |
| **Retry policy, evaluator loop** | history of a run, attempt counts | run, should-retry, delay | callers | `RetryLoops` |
| **Message bus, handoff, cross-domain ports** | queues, checkpoints, ports | send, receive, checkpoint, resume, register | callers | `Exchange` |
| **Storage, worktrees** | records, directories of runs | save, load, create, clean up | threads, several managers | `RunFiles` |

`PROJECT.json` lists 35 components with the files of each, and a status: 15 are
modelled, 7 in part, 13 not. Section 7 says why.

One event loop runs all coroutines of a process. Control moves from one task
to another only where a task awaits: an agent call that waits for its
provider, a tool that waits. What a task does between two awaits is one atomic
step of the program and one action of the models. Threads appear in hook
execution and in storage; processes meet in files, and there every system call is an
action of its own: the state store, the memory, `rules.yaml`, the source cache,
the catalogue.

### What is hard about it

* **Layer tasks share one dict.** Dependencies of all tasks of a layer are
  collected before the first of them runs; results arrive in any order, and
  retries collect again. A rollback deletes results *by insertion order*, so it
  takes away the results of siblings that happened to return later.
* **Saving comes before judging.** A result is saved before its feedback loops
  and its gate see it. A crash, a pause and a resumption fall in between.
* **Approval is a protocol over three actors**: an engine that raises, a person
  who answers through a store, and a second engine.
* **One executor, many agents.** Each execution installs its permissions in the
  shared executor on entry and clears them on exit, in whatever order its
  siblings do.
* **A file is re-read while it changes**, at most once in a window, when its mtime is
  newer than the one remembered, which a file put in its place need not have.
* **Loops are bounded by counters in different places**: gate retries, feedback
  iterations, reflexion rounds, steps and coercions of ReAct.
* **History is rewritten while it is used.** Compaction removes messages between
  two requests, each of which must pair every tool call with its answer.
* **A time-out cancels what may not listen.** Provider clients and hooks are
  called synchronously, so the event loop that should cancel them waits, for a
  hook that hangs for ever.
* **Files are shared without a transaction.** `clear` lists, opens, locks and
  unlinks; a compaction reads and truncates; a book is emptied and then written.
  Other processes come in between, and any of them may die.
* **A pipe has no addresses.** The MCP bridge takes the next line for its answer.
* **The same question is answered in several places**: which model a tier gets,
  which credential is missing, which directory an agent comes from.

### What makes each part correct

* Engine: a step runs after all it depends on, whatever the interleaving;
  `completed` means that every step has a result that passes its gate and was
  computed from what its dependencies have in the end; a result that disappears
  dooms the run; no agent works on after the outcome; cost is bounded; a run
  ends; saved work is not done again; a paused run has its request on record,
  and nobody gets past an approval gate without an approval.
* Sort: refuses exactly the workflows that cannot be executed; every step is in
  the layer its longest chain of dependencies calls for; the static checks agree.
* Tool authority: a call is judged by the manifest, allowlist and rules it
  should be; nothing outlives an execution; a file with a newer time is noticed.
* State store and memory: a file is what completed calls say, under concurrent
  writers, `clear` and crashes; calls that nothing overlaps never fail; what
  races lose is bounded.
* Server: permits come back on every path, and every request is answered unless a
  hook hangs.
* Strategies: the number of model calls is bounded; a tool call and its answer
  stay together; the latest rounds stay word for word and what leaves the history was
  given to a summary; a run ends unless a hook hangs.
* Tools: a call gets its own answer. Cache: a marker means all is there.
* Providers, commands, loader, credentials: what is shown is what is used, what
  is spent was agreed to, exit codes tell what happened.
* Books, buses, checkpoints: nothing is listed that is not there, nothing is
  delivered twice or out of order, a checkpoint never falls behind its state, except
  where processes overlap or die.
* Records and worktrees: a record at rest is the newest one, whole; runs see and lose
  each other's files only where their directories meet.

## 2. The modules

| Module | What it is | Models |
|---|---|---|
| `DagEngine` | the engine, its store, the people and crashes around it | `execute_dag` and all it calls |
| `WorkflowContract` | abstract specification: what a caller may rely on | `DagEngine` implements it |
| `TopoSort` | the sorting loop, one action per iteration, and the static checks | `topological_sort`, `lint_topology`, `validate_workflow` |
| `ToolAuthority` | shared executor, rule layers, hot reload, executions in flight | `AgentRunner.run`, `ToolExecutor.execute`, `RuleEngine` |
| `ChatProvider` | a response of the model, read block by block; API errors | `AnthropicProvider.chat` |
| `ReActLoop` | the loop of think, call, observe; disclosure, coercion, compaction | `ReActStrategy.execute`, `ToolDisclosureRouter` |
| `Strategies` | the four other strategies, over the variables of `ReActLoop` | `plan_execute`, `self_ask`, `tree_of_thought`, `chain_of_thought`, `ModeDispatcher` |
| `AgentRun` | the pipeline around a strategy, and rounds of reflexion | `AgentRunner.run`, `run_with_reflexion`, `BudgetTracker`, `GradingEngine` |
| `ServerApi` | requests, permits, time-outs, a blocked event loop | `server/app.py`, `server/runner.py` |
| `FileStateStore` | saves, loads and clears of several processes, by system calls | `FileStateStore` |
| `FileMemoryStore` | the same for memory, beside the store in memory as its reference | `FileMemoryStore`, `InMemoryMemoryStore` |
| `LinearEngine` | the sequential engine under executions, resets and restores | `execute`, `checkpoint_state`, `restore_state` |
| `ToolAdapters` | the pipe to an MCP server, shell commands, guarded HTTP | `mcp_loader.py`, `builtin.py`, `egress_guard.py` |
| `SourceCache` | processes that fill, refresh and read one cache directory | `source_adapters/` |
| `Providers` | registry of tiers, detection, merge, report, refresh | `provider_resolver.py`, `provider_detector.py`, `model_inferer.py` |
| `Commands` | commands that run engines, over `Providers` | `cli/ai.py` |
| `EngineBoot` | registry of agents and one loader used again and again | `agent_registry.py`, `manifest_loader.py` |
| `Catalogue` | files in which commands keep books | `authoring/publisher.py`, `scaffolder.py`, `cli/ai.py` |
| `Credentials` | packs, registry, backends with caches, reports | `credential_registry.py`, `credential_backends.py`, `cli/ai.py` |
| `RetryLoops` | an evaluator loop several tasks share; retry policies | `evaluator_loop.py`, `retry_policy.py` |
| `Exchange` | message bus, checkpoints, ports between domains | `message_bus.py`, `handoff.py`, `cross_domain.py` |
| `RunFiles` | records and run directories | `storage.py`, `worktree_manager.py` |
| `MCDagEngine`, `MCToolAuthority`, `MCAgentRun` | instances: workflows, permissions, agents and responses | |
| `MCService`, `MCLibrary` | several modules side by side; each behaviour is about one of them | |
| `DagEngineProofs`, `AgentRunProofs`, `ToolAuthorityProofs`, `FileStateStoreProofs` | theorems about the module each is named after, section 4 | |
| `ServiceProofs` | theorems about `ServerApi`, `TopoSort` and `Exchange` | |
| `SharedFileProofs` | theorems about `FileMemoryStore`, `SourceCache` and `RunFiles` | |
| `LibraryProofs` | theorems about `LinearEngine`, `ToolAdapters`, `Providers`, `Commands` and `EngineBoot` | |
| `CatalogueProofs` | theorems about `Catalogue`, `Credentials` and `RetryLoops` | |

`DagEngine` does not run the loop of `TopoSort` again. It takes the layer to be
`{s \in Step \ resolved : Deps[s] \subseteq resolved}` and a workflow to be
sortable when no set of steps blocks itself. `TopoSort` justifies both: the
theorems `LayersEarliest` (each step is in the layer of its longest chain of
dependencies) and `SortDecides` say that these are what the loop computes. In the same way the agent call of `DagEngine` is what `AgentRun` shows
to end, and the store of `DagEngine`, whose operations are atomic, is what
`FileStateStore` is for processes that do not overlap.

### DagEngine and the code

| Model | Code in `composition_engine.py` |
|---|---|
| `Begin` | `topological_sort` and the error result it may give, 835–846 |
| `Visit` = `Skip` or `Launch` | one iteration over the layer, 848–889: a stored result is taken over, or the dependencies are collected and the task made |
| `CallReturns` | `_run_dag_step` after its `await`, to the next one: put the result, save it, first feedback loop that triggers, else the gate, 954–990 |
| `FeedbackReturns` | the re-execution of `to_step`, then the gate on the *first* result, 961–974 |
| `RetryReturns` | one attempt in `_check_gate`, 508–586; its result is put and not saved |
| `CheckGate` | `_check_gate` 365–623, one operator per way it ends: passes, pauses, retries, rolls back, raises |
| `CallRaises` | an agent call or what follows it raises |
| `HookHangs` | a hook of an agent never returns, `agent_runner.py` 78–101, and no coroutine goes on; the caller may start another process |
| `EndLayer` | `gather(return_exceptions=True)` returns when nothing is `Awaited`, and the first exception in the layer's order decides, 891–930 |
| `Approve` | `POST /approve`, `server/app.py` 274–289 |
| `Crash`, `CrashAfterSave` | the process stops, also right after `save_step` |
| `Resume` | a new engine with the same workflow_id, and with the store `StoreKind` says: a fresh one, the same object, or files |

A result is reduced to three facts: whether it satisfies the condition of its
step's gate, which execution of the step made it, and which versions of its
dependencies that execution was handed. The first is chosen freely each
time, so the model covers every agent. `results` keeps the order of the keys,
because rollback reads it, and remembers which values came back from JSON,
because `propagate_confidence` fails on those. `poisoned` holds the tasks that
were handed one; they can only raise. Step names are numbers in the order of the
names, because the layer is a sorted list and the order decides which exception
is reported.

Two abstractions widen the behaviours. A task may be interleaved with its
siblings at each agent call; the Anthropic and OpenAI providers call a
synchronous client inside a coroutine, so with them this happens only where a
tool or a backoff awaits. And a feedback condition is taken to be able to hold
of any result.

### ToolAuthority and the code

| Model | Code |
|---|---|
| `Begin(t)` | `AgentRunner.run` installs rule context and targeted files, `agent_runner.py` 277–318 |
| `CallTool(t)` | `ToolExecutor.execute` up to the adapter: hot reload, library, platform rules, merged layers, allowlist, adapter; `tool_executor.py` 57–130, `rule_engine.py` 161–230 |
| `HotReload` = `LooksAway`, `FindsNothing`, `Reloads` | `rule_engine.py` 432–453; the second half of `Reloads` is a change between `read_text` and `stat` (423–430) |
| `ReloadFails`, `CallRaises(t)` | a file that is not YAML: the exception goes up to `run`, whose `finally` clears |
| `ToolReturns(t)` | the adapter returns |
| `End(t)` | the strategy returns, raises or is cancelled; the `finally`, 554–562 |
| `EditRules`, `WindowEnds` | somebody puts a file with any content and any mtime (`Replacement`) in the place of `rules.yaml`: an edit, a restored copy, another checkout; 500 ms pass |

`mixed` and `last` are history: which executions in flight have overlapped with
another, and what the latest call was told beside what its own manifest and
allowlist say. `edited` records a change of the file since the last look;
`missed`, that the latest change came during a look or bears a time no newer
than the one remembered, which `rule_engine.py:449` takes for no change.

### TopoSort and the code

`TakeLayer`, `Refuse` and `Return` are one iteration of the `while` loop, its
`ValueError` and its end. `LintValid` and `ValidatorAccepts` are what
`lint_topology` and `validate_workflow` decide. `Init` chooses the
dependencies, so a run checks all workflows over the given steps.

### AgentRun, ReActLoop, Strategies, ChatProvider and the code

`pc` is the await a strategy is in: a chat, a summary, a tool call, a coercion, the forced
last call, those of the other strategies, and the places of `AgentRunner`
before and after the strategy. A message is reduced to who says it, which *facts* it conveys (the
system prompt, the task, what happened in round *n*), which tool calls it makes
and which it answers; the head of a compacted history also says which facts have been *given*
to a summary (`sums`). What the model makes of them, and what the cuts at 600 and 1,500
characters leave of them (`modes/react.py` 134–144), is not assumed. A reply is a sequence of content blocks, and
`ChatProvider` turns it into a text of one of four kinds and a set of calls as
`AnthropicProvider.chat` does, `submit_output` and `<invoke>` text included.

| Model | Code |
|---|---|
| `Spawn`, `PreHookEnds`, `Prepare`, `PrepareRaises` | `run` up to the strategy, `agent_runner.py` 180–325 |
| `StrategyStep` | the strategy; `FirstChat` is `ModeDispatcher.dispatch` |
| `ChatReplies`, `ChatRaises`, `ToolsReturn`, `ToolRaises` | `modes/react.py`: one chat, 478–533, and its tool calls, 650–718 |
| `SummaryReplies`, `SummaryFails`, `Compacted` | compaction, 160–235 |
| `CoerceReplies`, `CoerceFails`, `FinalReplies`, `FinalFails` | coercion to the schema, 552–648; the forced last answer, 720–757 |
| `Blip`, `GivesUp` | the retry of an API call, `anthropic_provider.py` 218–247 |
| `StrategyRaised`, `RecordUsage`, `PostHookEnds`, `Close`, `StoreRaises`, `HookHangs` | `run` after the strategy, 342–552 |
| `Grade`, `JudgeRaises`, `NoGrading` | `run_with_reflexion`, 595–645 |

`chats` counts the model calls of a round beside the tokens the code counts
(`counted`). Both leave the state space small because rounds are few.

### ServerApi and the code

A request is `new`, `queued`, `admitted`, `running`, `cancelling` or `answered`
(`phase`); `permits` is the semaphore; `loop` names the request whose synchronous call
holds the event loop, if any, or `Hung`. `Arrive`, `Admit`, `TurnAway`, `Start`, `Return`, `Expire`
and `Unwind` are the awaits of the three endpoints, `Block`, `Unblock` and `Hang` the synchronous
calls below them (`server/runner.py` 236–286; a hook, `agent_runner.py` 78–101).

### FileStateStore and FileMemoryStore and the code

One action per system call: `mkdir`, `open`, `flock`, `write`, `rename`, `glob`,
`unlink`, `read`. `file` and `temp` say what a name stands for, so an action on a
name finds what the name means *by then*. `due` is history: the result a
file may hold by the calls that have completed. `overlapped` and
`unexpected` record which calls met a call they conflict with, and which failed
or left something though they met none. In the memory store
the file is a list of entries. A compaction writes bytes from its start, and entries differ
in length: it covers any number of the entries that are there by then (`Over`), and one it covers
in part is no JSON, which nobody reads again. `twice` records that two compactions had the file
truncated at one time. The in-memory store is given the same calls, and is what the file store is compared with.

### The sequential parts and the code

`LinearEngine` has an action for each caller's operation and one for each way a
step ends; `results` keeps the order of the dict. `ToolAdapters` keeps processes,
the lines in their pipes and the readers. `SourceCache` has an action for each
name that is removed, moved or looked at, and `Killed` between any two. `Providers`
computes the pick of the resolver and the report each the way its own code does,
and compares. `Commands` takes a command through its checks, its file, its prompt,
the boot and the vendor calls to its exit code. `EngineBoot` keeps what directories
hold and what the registry remembers of them. `Catalogue` has open and write of each book as
two actions. `Credentials` has what the backends cache beside what is really
there; a Vault that is down is a miss, except at first use, where it raises
(`ValidateRaises`). `RetryLoops`, `Exchange` and `RunFiles` have one action per operation, and
one per await or write inside it. Names that are joined are sequences of their parts: the id
of a port is its domain's name followed by its own (`PortId`), so that two ports can have one id; a
directory is a path (`DirOf`), so that one can lie in another, and a write can go to a
place outside (`FarPlaces`). `SaveFails` is a write that the disk refuses.

## 3. What the runs check

| Run | Distinct states | What it shows |
|---|---|---|
| `DagDiamond` | 338 | One run of a diamond (1; 2 and 3 side by side; 4) with `retry`, `abort`, `retry_fresh` and `router` gates. However the tasks interleave, every call is handed all its dependencies and a completed run has results that pass their gates (`ResultsAreSound`), computed from the final results of their dependencies (`CompletedIsConsistent`). |
| `DagResume` | 43,917 | Three runs over files: an ungated step beside an approval that was given before; then a rollback to the first layer beside two approvals nobody has given; a crash at every point. A rollback meets results its siblings have just put, and a run that goes on after the pauses finds all results saved and completes. The inductive invariant (`IInv`), order (`DepsEndedWell`), rollbacks are never unnoticed (`DroppedOnlyIfDoomed`), what is reported holds (`OutcomeHolds`), saved work is not redone (`SavedWorkNotRedone`). |
| `DagLoops` | 327,387 | Two runs of four steps in three layers: a retry beside an approval that was given, an open approval after both, three feedback loops (back a layer, to a sibling, to the step itself). A step is called at most once, once more for every retry and for every step with a loop back to it, in each run (`CallsBounded`); nobody passes an approval gate without an approval (`DoneIsApproved`), every run ends, after waiting for all tasks of a layer, unless a hook hangs (`RunEnds`), the engine implements `WorkflowContract` (`KeepsContract`). |
| `ToolContext` | 114,769 | A reviewer, a builder and a builder retrying with an allowlist, two in flight together, two contents of the rule file, which also breaks, disappears and is restored with older times: `IInv`, nothing outlives an execution (`CleanWhenIdle`), one look at a file with a newer time is enough (`EditsTakeEffect`), an execution nobody overlaps is judged by its own (`AloneIsJudgedByOwn`). |
| `AgentRun` | 44,886 | Five strategies in 29 configurations. Each request pairs calls and answers after any compaction (`CallsAnswered`); the system prompt and the last rounds stay word for word, and what leaves the history of a run that summarises was given to a summary it still carries (`HistoryKept`); the number of model calls has the bound the settings give (`ChatsBounded`); a round works from the critique of the round before it (`CritiqueIsFresh`); every run ends unless a hook keeps it (`Settles`). |
| `Service` | 257,370 | Four parts side by side. *Server:* permits come back (`PermitsConserved`), every request is answered unless a hook hangs (`AllAnswered`). *State files:* `FilesAreDue`, `OnlyOverlapsHurt`. *Memory:* without overlaps both stores agree (`StoresAgree`), and what overlaps cost is bounded while no two compactions have the file truncated at one time (`LossesAreBounded`). *Sort:* all 4,096 dependency relations over three steps and one unknown name; `VerdictsAgree`, `LayersAreEarliest`, `SortEnds`. |
| `Library` | 727,689 | Sixteen parts side by side, one property for each module. `LinearOutcome`: what a rollback keeps and what a completed execution has made. `AnswersAreOwn`: the answer of another call comes only from a pipe a reader gave up on or shared. `CacheIsWhole`: a directory with a marker is whole, refreshes and overlapping processes excepted. `ReportIsWhatRuns`: what a report shows of a tier that resolves is what commands resolve to, and merging only adds. `CommandsKeepWord`: nothing is spent in a dry run or before the user agreed, the provider is the chosen one, exit codes. `BootsOwnAgents`: a stub only where no directory is. `CatalogueHolds`, `CredentialsHold`, `LoopsKeepBounds`, `ExchangeHolds`, `RunFilesHold`: the conjunctions of what each module promises, whose parts are stated and commented there. |
| `DagApprovalSkipped`, `DagStaleAfterLoop`, `DagUnusableSurvivor`, `ToolContextMixed`, `CompactionDropsTask` | | Violations: what documents or comments say and the code does not do; see *Findings*. |

`MCService` and `MCLibrary` put modules side by side that share no variable. A
variable `part` says which of them a behaviour is about and the others rest, so
their states add up and do not multiply. What interacts in the code interacts
in a module: the store with the engine in `DagEngine`, the strategies with the runner in
`AgentRun`, providers with commands in `Commands`.

### Bounds and why they are enough

* *Steps.* The engine treats a layer at a time. Two layers of two tasks, or a
  diamond, have what the code distinguishes: a sibling, an earlier and a later
  layer, a step with two dependencies. The loops of `DagLoops` go back by a layer,
  to a sibling at work, and to the step itself.
* *Gates.* Over the three workflows every strategy occurs, each with a sibling
  or a successor it can affect. Retries are bounded by 1 and 2: the first and
  the last attempt differ, and with 2 there is one that is neither.
* *`MaxRuns`* bounds `execute_dag` calls. Three let a run be paused, resumed,
  stopped by a crash and resumed again.
* *`MaxMtime`*: the rule file bears one of three times, any content and any time at
  any change, without a bound on changes. Three are older, equal and newer than the one
  remembered. Three executions with at
  most two in flight let one leave while another stays and a third arrive.
* *Agents.* Up to four steps of ReAct, so that a history is compacted, grows and
  is compacted again; `keep` of 0, 1 and 2 rounds; two tools, one held back by disclosure;
  eleven responses, among them text and calls together, a submission among calls, and `<invoke>`
  text; three rounds of reflexion, so that there is a round before the last but one.
* *Server.* Three requests for two permits: one has to wait.
* *Files.* Two processes, two steps, two saves and one crash, at any call; two
  writers that store four entries into a memory of two.
* *Sort.* Three steps have cycles of length one to three, a cycle behind a
  good layer, and an unknown name at any place.
* *Library.* Two of each actor that can overlap, three where the second's
  mistake is found by a third (MCP calls, threads); calls bounded by two to four, enough to
  repeat an operation after another came in between. Run ids `a`, `a/b` and `c` below one
  base directory, and a path that leads from one of them into another; two manifests of one domain,
  and one of a domain whose port has an id of the first; a vendor reached elsewhere; policies without
  retries, with a cap, with a budget and with one of 0. `MaxCalls`, `MaxSpawns`, `MaxRuns`, `MaxKills`,
  `MaxBoots`, `MaxEdits`, `MaxCommands`, `MaxTurns`, `MaxMessages`, `MaxWork` and `MaxLoads` are guards of
  the actions that would count on without end.

The theorems below hold for every value of them. No state constraint or symmetry
is used.

### Fairness

* `DagLoops`: `FairSpec` has weak fairness of `Begin`, `EndLayer`, `Visit(s)` and
  `Ends(s)`. The first three are coroutines that can proceed, and the event loop
  runs them. `Ends(s)` says that an agent call returns or raises, which
  `AgentRun` shows, or that a hook keeps the process for ever (`HookHangs`), with which
  `RunEnds` is content. It does not say which of these happens, nor what comes back. A
  person approving, a crash and a caller resuming are never assumed.
* `AgentRun`: weak fairness of the step of the runner and of that of the strategy.
  Everything they await comes back: API calls have a time-out, adapters return.
  Only a hook may hang; that is a step to a state of its own, with which
  `Settles` is content.
* `Service`: weak fairness of `Unblock \/ Hang`: a synchronous call comes back, because
  a provider client has a time-out, or it is a hook that hangs, for which nothing is assumed
  and `AllAnswered` excuses the server; and strong fairness of `Handle(r)`: the event loop
  serves every ready request, though it may be blocked again and again in between. The sort is a
  sequential loop that goes on.

Deadlock is checked in every run but `Service` and `Library`. There the parts
end when every request is answered, every process has made its calls or a bound
is reached; that is a stop of the model, or of a program whose callers are done. In the
other runs `Over` and the like are the ends a run of the code really has; a
paused run waits for `Resume`.

## 4. What is proved

All theorems hold for every value of the constants that satisfies the
assumptions beside their declaration: any number of steps, any dependencies
(names that are no steps included), gates, loops, stores and runs; any tasks,
permissions, rule contents and layer width; any agents, tools and responses; any
finite number of requests; any number of processes, saves and crashes; any books, packs,
chains of backends, policies, ports and manifests. The assumptions
only give the constants their types (`GatingsAssumption`, `PacksAssumption`, `BootAssumption`,
`LinesAssumption`, `ManifestsAssumption`, ...), say that the files of the model registry are well formed
(`SetupsAssumption`: a listed spec has a model and a variable, a vendor has at least one variable,
as all entries of `known_vendors.yaml` have), say that processes that compact one memory
file are finitely many (`WritersAssumption`: their entries are counted), and keep the tokens
(`NoTask`, `NoFile`, `Broken`, `"lost"`, the unknown names, the names of the books in
`VersionsAssumption`, the handshake in `ToolCallsAssumption`) apart from the data.

**DagEngine.** `Invariance` proves `Spec => []IInv`. The properties are not
inductive one by one, and `IInv` adds what makes them so:

* *`KeysMatch`*: a result in the dict is found under a key. Rollback
  cuts the key sequence at the place of its target, so without it a deletion could
  not be shown to remove what it means to.
* *`NotStarted`*: before `Begin` no task exists. Needed for `Begin` and
  `Resume`, which reset.
* *`DepsEndedWell`*: a visited step has its dependencies in `resolved`, and all
  of `resolved` ended well. It places every task in flight in the current
  layer (lemma `InFlightInLayer`), which is why one that fails is seen by
  `EndLayer`.
* *`DroppedOnlyIfDoomed`*: a step that has had a result and lost it has a
  failed task in its layer. Retries of a sibling may put results back, and a
  feedback loop may write to any step; neither takes one away.
* *`run = "completed" => resolved = Step`*, which with the two above gives
  that a completed run has all results.
* *`NoOrphans`*, *`TasksPersisted`* (a task past its first call has its
  result in the store, and a paused one its request, unless the process is down) and
  *`PauseHasRecord`*.

The four things a task can do have one lemma each (`CallReturnsStep`, ...).
They show a common shape, `TaskStep`, which says what a task may touch, and
`TaskStepSafe` derives the invariant from the shape once. From `Invariance`
follow `TypeCorrect`, `LayersInOrder`, `RollbackDooms`,
`CompletedRunHasAllResults`, `GatherLeavesNoOrphans`, `PausedRunHasRequest`
and `ReportedOutcomeHolds`. `Refinement` proves `Spec => KeepsContract` under the
mapping `status <- run`, `finished <- Finished`: a skip and a gate that
passes are `Finish`, the end of the last layer or of one that failed is
`Report`, all else is a stutter.

**What results are worth** (`DagEngineProofs`). Three invariants beside `IInv`.
`ApprovalsAreGiven` holds for every workflow: past an approval gate there is an approval in
the store. It needs `RetriesAtGates`, that only a task at a retry gate retries,
because the end of a retry is `done` too. `SavedOnce` is for workflows without
retries and loops over files (`NoRepeats`): a step that has been called is in
the store, and a task at work has not been called (`WorkIsSaved`), so a crash right after
the save costs nothing. `OwnResultsAreSound` and `OwnResultsAreConsistent` are for
workflows without rollbacks and loops on a store of their own (`OwnResults`):
then only a step writes its own result, so what a step was handed is final by then
(`DependenciesAreDone`), the inputs of a call stay those its dependencies have
(`Current`), and a step that is done passes its gate and is based on them (`Judged`,
`Based`). The hypotheses are needed: each of the findings about stale or
unjudged results has a loop or a second run on a shared store in it.

**What a workflow costs** (`DagEngineProofs`). `CostIsBounded` rests on `Costs`: the calls of a step
so far are at most what all runs before could spend, what its own task has
spent in this run (`Spent`: the first call and its retries), and one for every step
whose feedback loop has come back to it (`Returned`). The last is a set
and not a sum, because a task follows one loop at most, the first that triggers
(`via`); so the bound counts the steps loops come from, whatever their `max_iterations`.

**TopoSort.** The loop invariant says that `resolved` is closed under
dependencies and that any group of steps that touches it has an unblocked member.
A new layer keeps that (`LayerUnblocks`): a group that touches `resolved`
is unblocked already, and one that does not has a member of the layer, all of
whose dependencies lie outside the group. At the end, `resolved` is everything
and no group blocks itself; when the loop refuses, `remaining` is a group that
does, or a name is unknown. This is `SortDecides`; `ChecksNeverCryWolf` and `VerdictsFit`
follow. `LayersEarliest` is about chains of dependencies (`EndsIn`), which the loop knows nothing
of. `Earliest` adds what was so when the layer before was taken: a step that still waits was not ready
then, so it waits for one of that layer, and its chain is longer by one (`ChainExtends`); a chain longer
than the layers so far would have its last but one step too late (`ChainCuts`).

**ToolAuthority.** The invariant has two parts. `Installed`: a context has an
execution in flight, an allowlist has one that *installed an allowlist* and
will take it away, and an execution nobody has overlapped has its own. `Current`: while no
change was missed, the remembered mtime does not exceed the file's, memory and file agree where
they are equal, and after a look they are. A change may bear any time; what is excluded is one that
came while the file was being read, and one whose time is no newer than the one remembered, both
of which the code does not notice (*Findings*). `NothingLeftBehind`, `SerialIsOwn` (an
action property) and `RulesAreCurrent` follow.

**AgentRun.** `ChatsBounded` speaks of a number only. The invariant behind
it, `Counts`, says for each await how many calls may have been made when the
strategy is in it: in a chat of step *n* of ReAct at most two per step before (the chat and
a summary), in a coercion at most one more, and for plan-execute, self-ask and tree of
thought a product of the rounds and branches that are behind. Every step of a
strategy moves from one await to one whose bound is higher by what it spends
(`ReActKeeps`, `ThoughtKeeps`), and the bound of the last await is that of the property.
`CritiqueOfLastRound` needs in addition that the context items the hooks
and the memory add are those of the round under way (`CritiqueStep`): a round starts from the first
context and one critique, not from the context the round before ended with.

**The history of a run** (`AgentRunProofs`). `RequestsPairCalls` and
`HistoryIsKept` are about sequences of messages that are appended to, cut
and rebuilt. The invariant `Talk` adds to the properties what they need at the
awaits where nothing is sent: at a tool call the last message is the one that calls
and all before it are paired (`Unanswered`); where a summary is awaited the history can
be compacted; a coercion has a prompt at its end that can be taken back. And it adds
`InRounds`: counted from its end, every second message of a react history answers
nothing. That is what makes compaction safe, because it cuts an even number of messages
from the end: the tail it keeps then begins with a message that calls and never with
one that answers (`Digested`, `DigestKeeps`). `HistoryIsKept` says what the code
guarantees and no more: the head with the system prompt is kept, the last rounds are
kept word for word, and every message between them was given to the summary that the
head carries, or to one that was given to it in turn (`Covered`, `DigestCovers`). Whether a
summary passes on what it was given is up to the model and to the cuts the code makes.

**ServerApi.** `NoPermitLost`: the permits that are free and the requests that hold
one add up to the limit. Holders are counted with cardinalities, so the lemma
that matters is that a step moves one request in or out of `Holders` and one permit the
other way (`TakeInv`, `AnswerInv`), or neither (`MoveInv`).

**FileStateStore.** `FilesAreDue` says of a file that it is a whole result the
completed calls account for. Two things must be kept with it. A temporary
file belongs to one save that is under way, or to one that died, so
what is renamed is whole. And a `clear` under way has already
declared absence to be due, for each step it will come to. `OnlyOverlapsHurt` needs
the converse: while a clear runs and nobody has overlapped it, nobody else
uses the directory, and all that is there is in the list it still has to go
through. Each of the twelve operations has a lemma; `Shape`, `Frame`, `GoesOn` and
`GoesOff` say once what a step of one process leaves alone.

**FileMemoryStore** (`SharedFileProofs`). `FileStaysInOrder` needs to know of the copy a
compaction has read and not yet written (`CopiesAgree`): once it has truncated the file, all that
is in the file was stored later than all that is in the copy. So a compaction that writes over
however much of it repeats nothing and puts nothing out of order (`OverCopies`), as long as no two
are between their truncation and their write at one time. Then the later one covers part of
what the earlier has written, which may be the same entries, and the property says nothing any
more (`twice`). `FileIsShort` charges every entry
above `max_entries` to a call that has yet to compact or to one that died. `FileRecallsMemory` adds
`OneAtATime`: while calls do not overlap the file is the in-memory store, up to the one call that
has appended and not compacted.

**SourceCache, RunFiles** (`SharedFileProofs`). `MarkedIsWhole`: as long as nobody has written beside another or
under a marker there is one writer, and the place of the code it has reached says which names are
in place, which are removed and which are still to move (`OneWriter`). `RunsKeepTheirFiles`: a record
that is not mixed has one save at a time (`OneSave`), and no reader has been given a newer one
(`NewestSeen`), whether saves fail, end with the process or are asked for where
they are not kept. Directories are paths, whatever the run ids are: a directory in use by two
worktrees was taken over (`TakenOver`), temporary ones lie apart (`TemporariesApart`), and one
that no other id and no far path meets is written and removed by its own run only (`UnsharedMeetsNone`).

**LinearEngine, ToolAdapters, Providers, Commands, EngineBoot** (`LibraryProofs`).
* `LinearTells`. The dict always lists the steps in their order from the first on (`Ordered`), also after a
  rollback, a reset or a restore of any snapshot. That is why a rollback by *insertion order*,
  which in the other engine takes away siblings, goes back to exactly its target here.
* `CallsHearTheirOwn`. A server nobody has given up on and that never had two readers has one reader at
  most, and that one waits for the last line asked for (`ServerInOrder`); and the lines asked for are all
  different. The converse, that a muddled server may answer wrongly, is a finding.
* `ReportsAreTrue`. `ProvidersInv` says that the report was computed from well-formed tiers and that the
  environment has not changed since. Reports are compared with `Resolve(Loaded)`, the one resolution
  that commands run; `detect` reports on a merged copy nobody resolves on, so it may show a
  detected vendor's model, and then only where nothing resolves. The rest is about lists. The report, the offers of the vendors and the
  merge are loops of the code, written as recursive functions; that each of them exists is proved from
  counting alone (`Counting`, `LoopExists`). The loop of the report then finds the first spec that can be used
  (`CoveredIsFirst`), which the resolver picks (`ResolveIsFirst`); and the loop of the merge keeps a loop
  invariant (`AddsTo`: what was listed stays in place, all that was offered is there, and what is new is there
  once), which gives the three parts of `MergeOnlyAdds` (`MergeAdds`).
* `CommandsAreHonest`. Each stage of a command implies the checks behind it (`CommandInv`), and the pick of
  the resolver does not change under a command.
* `AgentsAreTheirOwn`. The directory a step is configured from exists and is of a root looked into since
  the registry was cleared; a cached path comes before a place that is looked at first otherwise.
  A stub is a step none of whose places was there. While nothing changes on disk, every configuration made in a boot has the directory
  its id would be given again (`ConfigIsOwn`); what the registry gives for an id depends only on the disk
  and on what is cached for that id.

**Catalogue, Credentials, RetryLoops** (`CatalogueProofs`).
* `BooksAreKept`. What a command is about to write into a book holds all that finished commands have put there,
  unless two clashed over the book or one died over it (`UserInOrder`, `BookInOrder`); the index is written
  after the entry, and its new content lists only what is there.
* `CredentialsAreSteady`. For a name that has been looked up, every backend before the one that answered keeps
  the answer "not there", and the one that answered keeps its value (`ToldIsKept`), so asking again in any later
  state of the world gives the same. A name at which Vault raised was given no answer, and leaves those of others
  as they are (`ValidateRaisesKeeps`).
* `LoopsAreBounded`. The list of a run that no other overlaps is the list its rounds so far make
  (`ListGrows`). The delay of a retry is computed by a recursive function, `Backoff`. That such a function exists
  and what it computes is proved here from the well-foundedness of `<`: a least number for
  which it would fail leads to a contradiction (`HasLeast`).

**Exchange** (`ServiceProofs`). `ExchangeIsSound` has one invariant for each of the three dictionaries. What was received
from a port and what waits there is, in this order, increasing, and is what the history has for the port (`BusInv`). A
checkpoint that came from a workflow or went to one (`live`) shares its object and only moves on with it;
one that was read from text has an object of its own, in nobody's hands and in no other checkpoint, and
keeps its content (`Alone`, `HandoffInv`). For each id the registry has the last port of that id in the manifest
entered last that has one (`DomainInv`, `LastHaving`), so a port of another domain may have taken the
place of one whose id reads the same; manifests may change while a discovery is going from directory to directory.

**Only model-checked.** Liveness under fairness (`RunEnds`, `SortEnds`, `Settles`,
`AllAnswered`). Every invariant and action property of the passing runs is stated by a theorem.
The five violations are behaviours TLC finds and have nothing to prove.

## 5. Findings

`PROJECT.json` quotes for each the lines that say otherwise.

With a run that shows the behaviour:

* **An approval gate is skipped by resuming** (`DagApprovalSkipped`). The result
  is saved before the gate (`composition_engine.py:957–959`), and a saved step is
  skipped, gate included (854–864).
* **A feedback loop leaves the reviewer's result stale** (`DagStaleAfterLoop`).
  Only `to_step` is executed again; `feedback_loop.py:16–18` promises the
  steps up to the source as well.
* **A resumed run fails on the steps that survived** (`DagUnusableSurvivor`).
  `json.dumps(default=str)` writes the `StepArtifact` as a string, and
  `propagate_confidence` reads `.confidence` of it.
* **Agents in one layer are judged by each other's permissions**
  (`ToolContextMixed`): the context lives in the executor they share.
* **Compaction drops the task** (`CompactionDropsTask`): it keeps `messages[0]`,
  which is the system prompt, and the task is `messages[1]`.

Stated in a model, where a property needs an exception for it or has a step of
its own for it:

* *Engine and server:* `execute` makes a pause an error; a hook's time-out waits for
  the hook, for ever if it hangs; `clear` unlinks by name what a save has just renamed there;
  two compactions that both have the file truncated may leave an entry twice, out of order, or more
  than the limit (`memory_store.py:88`).
* *Rules and history:* a rules file replaced by one whose mtime is equal or older is never
  read (`rule_engine.py:449`); a summary is made from blocks cut at 600 and 1,500 characters, the
  task among them (`react.py:134`), where the docstring (164–165) promises the task intact.
* *Tools and cache:* a call to an MCP server takes the answer of the call that gave
  up before it; a shell command goes on after its time-out; a refresh replaces files
  under a marker that says all is there.
* *Providers and commands:* an empty variable counts as a credential in one place
  and not in another; a detected model that is listed under an unset variable is not added;
  `detect` calls tiers covered by a merge that no command resolves on (`ai.py:478`); a dry-run provider asks for leave to spend; commands exit with 0 after a failure; a build reads
  the documents of the framework and not of its domain; `--dry-run` fetches remote sources.
* *Loader, books, credentials:* a loader serves one domain's directory to
  another; one torn manifest ends the registration of all packs; a missing agent is a stub in
  strict mode too; an index that was emptied and not written stops every later
  command; scaffolding overwrites edits; an outage is cached as a miss; a Vault that is
  down at first use raises (`credential_backends.py:217`); `status --agent` never finds anything missing.
* *Loops, checkpoints, records:* two runs of one evaluator loop share a history; a
  checkpoint changes with the workflow; ports of an earlier manifest stay, and ports of two domains may
  share an id and overwrite each other (`cross_domain.py:86`); a run gets the directory an earlier one
  left, or one inside another's, because run ids and relative paths are joined unchecked
  (`worktree_manager.py:34`, 57); records are written in place, so a save that fails tears one; an
  artifact is saved where its `path` says and looked for by its id (`storage.py:72`, 83).

By reading alone, among others: the topology lint accepts cycles
(`lints/rules.py:119` against 137); rollback is reported and never followed by a
re-execution; the choice of a router gate is read by nobody; the retry's result is
not saved; `boot_engine` negates feedback conditions; `reflexion_threshold`
is not a parameter of the function it is passed to; the 202 answer for a pending
approval cannot be reached; a strategy error is recorded as a success.

## 6. What is left

In the order of what it would add:

1. Gate and router expressions: the recursive-descent evaluator as a recursive
   function against a reference semantics, over all expressions of bounded depth.
2. The fall-back order of the provider router.
3. Eviction by age in the memory store.
4. The other rules of `validate_workflow`, and the coverage score of output validation.

## 7. Not modelled, and why

* *Text in, text out, no state:* gate and router expressions, output validation and
  schema checks, context and prompt assembly, lints, prompt contract, tool security
  and genesis checks, pack index, certification. In the models a condition holds or not, and an
  output is accepted or not.
* *Look-ups without concurrency:* capability, runbook, just-in-time agent and evolution
  resolvers; the permission resolver, which the tool path does not consult.
* *Wiring and output:* the runtime factory, metrics and bridges, printers, the
  smoke test, the workspace (a directory behind a dictionary).
* *External:* vendor APIs and tools. A call returns, raises or waits. Of the providers
  the Anthropic one is modelled as far as it reads a response and retries.
* *Content:* the genesis agents and shared workflows, which the engine runs.

Within modelled parts: `Commands` leaves out the temporary provider file of a build
(`cli/ai.py` 1578–1587), from which the command reads its own provider back, and which stays. Confidence values and events of the engine change no
control that the properties see. The rule engine's trusted paths and its domain,
workflow and runtime layers are left out of `ToolAuthority` because
`AgentRunner` never fills them in; `check_content` and `check_path` are called by
nobody on the tool path. Status codes and bodies of the server are abstracted to
being answered. Each component that is modelled in part or not at all has its
reason in `PROJECT.json`.
