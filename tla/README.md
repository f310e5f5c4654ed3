# Alchemist RLM: a TLA+ development

Alchemist RLM runs a small language model as a *recursive language model*: the context of a
question is a variable of a Python session, never a message; the model writes blocks of Python
that read slices of it, ask sub-models about them in batches, delegate parts to child nodes,
and finally submit a value. The program's own logic is the harness around the model: budgets
shared by threads and nodes, a process that may be killed at any moment, a delivery channel that
must not publish half-finished work. That harness is what is modelled here. Paths below are
relative to `src/alchemist_rlm/` unless they begin with `tests/`.

## 1. Inventory

| component | state it keeps | operations | talks to |
|---|---|---|---|
| budget and ledger, `budgets.py` | one `Ledger` per run (turns, tokens, subcalls, nodes, clock), one `Budget` per node (its own turns, depth) | `add`, `reserve_subcall`, `release_subcall`, `spend_turn`, `exhausted`, `subcall_exhausted`, `child`, `may_recurse`, `fresh` | read and written by every component below, from several threads |
| sub-model scheduler, `calls/scheduler.py` | the source of jobs, a deque of futures, the batch's replies, the claims in the ledger | `query`, `query_batched`, `imap` (`submit_next`), `_run_job`, `_query` | a thread pool, the completion client, the ledger, a source that may live in the worker process |
| REPL session, host side, `repl/runtime.py`, `repl/rpc.py` | the process and its pipes, the block timer, `restarts`, the bound context | `execute`, `_pump`, `_serve`, `_pull`, `_restart`, `bind_context`, `submission`, `presentation`, `peek`, `close` | the worker (framed pipes), the handlers, a timer thread that kills |
| REPL worker, `repl/worker.py` | the block's namespace, host calls in progress, `_pending` and `_submitted`, sweeps and their cache | `execute`, `_host_fn`, `submit`, `void_submission`, `semantic_map`, `retry_failed`, the presentation tools | the host (framed pipes) |
| episode loop, `native_loop.py` | messages, consecutive errors / truncations / duplicates, `pending_partial`, commit attempts | `run`, `_dispatch`, `_commit`, `_deliver`, `_finish_output` | the completion client, the session, the budget |
| presentation repair, `native_loop.py`, `repl/worker.py` | candidates, drafts, attempts, the presentation window | `_repair_presentation`, `open_presentation`, render / check / commit | the session, the output contract |
| semantic sweep, `semantic.py`, `repl/worker.py` | values, presented / returned / unsent sets, `_sweep_registry`, `_semantic_cache` | `semantic.run`, `read_fragment`, `_map`, `_retry_failed` | `llm_query_batched` of the host |
| recursion, `calls/recursive.py`, `engine.py` | a `Budget`, a lineage and rolled-up figures per node | `rlm_query`, `rlm_map`, `_absorb` | the ledger, a child node with its own session |
| segmentation, `context/segmenter.py` | none | `_units`, `segment`, `grouped_parts`, `covers` | the store, sweeps, `rlm_map` |
| evidence of coverage, `certificate.py`, `calls/recursive.py`, `engine.py`, `adapters/agents.py` | the audit of each session, the `delegated_span` events of the trace, a record per part of a map | `_envelope`, `_credit`, `rlm_map`, `covered`, `Certificate.from_run`, `gaps`, `analyze_large_context` | the sessions of a node and its child, the trace, an agent that asked for an analysis |
| measured runs, `scripts/`, `mlx_client.py`, `isolation.py`, `manifest.py`, `tracing.py`, `consolidate.py` | run directories, documents of results, manifests; a server process and its prompt cache; the checkout | `run_suite`, `smoke`, `run_pairs_pilot`, `run_upstream_rlm_pairs`, `reset`, `complete`, `healthy`, `consolidate_pair_results` | one `mlx_lm.server`, the file system, git, the engine |
| pairs scoring, `oolong_pairs.py`, `scripts/audit_pairs_run.py` | none | `gold`, `parse_answer*`, `f1`, `pair_output_contract` and its binding, `pairs_from_labels`, `audit` | the episode of a task, the rows and calls its run left |

What is hard about them, and what makes each correct:

* **Scheduler and ledger.** Threads finish in any order, some give a claim back; the submitter
  checks the budget and claims in two steps; the source is lazy and may fail. Correct means: the
  allowance is never exceeded and the charge is exact, a bounded window is materialised, replies
  come in job order, everything paid for is delivered, the batch ends.
* **Session.** Two processes read from each other over one pipe while a third party (the timer)
  may kill one of them at any step, late. Correct means: every reader gets the frame meant for it,
  the clock runs only over the model's code, a lost process is replaced by one that has the
  context and the model learns of it, and `execute` always comes back.
* **Episode loop.** Three counters, two phases and a delivery channel in another process. Correct
  means: only a block that finished can deliver, a delivery is returned or voided, a stall is
  caught, the number of requests is bounded, every episode ends.
* **Sweep.** A request is remembered in three places (registry, cache, returned envelope), with
  one internal and one explicit retry over replies that may be missing, refused or shifted.
  Correct means: what validated stays, is never asked again, and a retry is paid for once.
* **Recursion.** Every node has turns of its own and all share the rest. Correct means: the tree
  is bounded, and what was spent is accounted for once.
* **Segmentation.** Offsets and edges. Correct means: nothing is lost, repeated or torn.
* **Evidence of coverage.** Parts are found again by their text, which may occur twice; children
  restart, starve or raise; the evidence crosses three processes. Correct means: what is credited
  was read where it says, the gaps are the rest, and "complete" is earned.
* **Measured runs.** A server may die, answer as another model or keep a cache; scripts are killed
  half-way, code is edited between runs and under them, git may not answer, names are a second
  wide. Correct means: an episode on disk is what was scored, from a cold start, never rewritten; a
  document accounts for its tasks and its commit tells the code that ran; a consolidated result has
  each task once, from comparable runs. What the code does not ensure of that is in section 4.
* **Pairs scoring.** Three parsers of different strictness read the same text, a repair may replace
  it, an audit infers labels from what the run left. Correct means: a text that passes the contract
  scores what was computed, format gains no content, the audit borrows nothing from the truth.

The hazards, each at its line with the properties that would catch it, are in `PROJECT.json`.

## 2. Modules

| module | models | built on |
|---|---|---|
| `SubcallScheduler` | one batch: the submitting and collecting thread, the pool's threads, the claims in the ledger | implements `BatchContract` (`INSTANCE ... WITH`) |
| `BatchContract` | what a batch promises, without threads, windows or claims | |
| `SubcallScheduler_proofs` | the proofs about a batch, the refinement included | extends `SubcallScheduler` |
| `ReplSession` | host, worker, pipes, timer of one session | implements `SessionContract` |
| `SessionContract` | what a session promises, without processes, pipes, host calls and timers | |
| `EpisodeLoop` | one episode over a session that holds the delivery | uses of the session that `ReplSession` shows to return; implements `DeliveryContract` |
| `DeliveryContract` | what an episode promises, without budgets, counters or stages | |
| `SemanticSweep`, `MCSemanticSweep` | one request of a sweep, with registry, cache and retries | batches as `SubcallScheduler` can return them |
| `RecursionTree`, `MCRecursionTree` | the nodes of one run and the shared ledger | nodes as `EpisodeLoop` runs them |
| `Segmentation` | the loops of the segmenter and the fragments of a sweep | |
| `PresentationRepair` | the repair of a committed answer's text: attempts, drafts and the window of the session | an answer that `EpisodeLoop` delivered |
| `PresentationRepair_proofs` | the proofs about it | extends `PresentationRepair` |
| `EpisodeLoop_proofs` | the proofs about the episode loop | extends `EpisodeLoop` |
| `Delegation`, `MCDelegation` | sweeps, children, credits, certificate and verdict of one analysis | the tree of `RecursionTree`, the parts of `Segmentation` |
| `Delegation_proofs` | the proofs about credits, gaps and verdicts | extends `Delegation` |
| `ReplSession_proofs` | the proofs about a session | extends `ReplSession` |
| `SemanticSweep_proofs` | the proofs about a sweep and its retries, and about the segmenter that makes its fragments | extends `SemanticSweep` and `Segmentation` |
| `RecursionTree_proofs` | the proofs about the tree of nodes and its ledger | extends `RecursionTree` |
| `MeasuredRun_proofs` | the proofs about what measurements leave on disk, and about what their answers score | extends `MeasuredRun` and `PairsScoring` |
| `MeasuredRun`, `MCMeasuredRun` | the measuring scripts, their server, their files and the consolidation | episodes as `EpisodeLoop` ends them |
| `PairsScoring`, `MCPairsScoring` | scoring and audit of one task after another | answers that `EpisodeLoop` and `PresentationRepair` hand over |

The seams are stated where they are used. `SemanticSweep!Batches` lets the scheduler return every
batch that `SubcallScheduler` can produce, the ones its violated `RepliesArePrefix` shows
included. `EpisodeLoop!FairSpec` assumes that a block ends, which is `ReplSession!ExecuteReturns`.
`RecursionTree` keeps of a node only its turns, its requests and its calls; the choice between a
turn and a commit turn is free where `EpisodeLoop` says when each happens. `Delegation` has the
tree of `RecursionTree` without its budgets: a child may be refused or starve at any time.

### How state and actions correspond to the code

`SubcallScheduler`. `pc` is the position of the thread in `imap`: `pull` and `check`/`claim` are
the parts of `submit_next`, `take`/`await` the collecting loop, `done` the end of the generator.
The check of the budget and the claim are two actions because `subcall_exhausted` reads without
the lock. A job goes through the stages of `_run_job` and `_query`: refused before the wire (the
claim goes back), on the wire, answered (tokens settle then) or failed. `inFlight` is the deque,
`replies` what the caller has, as positions of jobs.

`ReplSession`. One action per frame that is read or written: `Execute`, `Serve`, `Reply`, the
pull of one chunk, the result, on the host; the dispatch loop, the block and its (nested) host
calls in the worker. The timer is three steps, armed, fired (`expired.set()`) and killed,
because a cancel between the last two does not stop it. `submission`, `presentation`,
`peek_audit` and the rest of the reads between blocks are one request and one answer, `Ask`.
`seen` and `told` are history variables: the process an observation came from, and the last one
the model was told about. Two things are left out. `_restart` binds the context again with the
arguments of a call that succeeded, and the model lets that succeed; the worker could answer with an
error (`repl/worker.py:2004-2005`), which `_restart` reads and drops (`repl/runtime.py:414`), and the
block would then run without its context: that no block does (`ChannelInStep`) rests on it. And a
nested call, one a lazy argument makes while the host pulls from it, is refused by the reader of the
chunk whatever its arguments are, so it has no lazy argument of its own (`repl/worker.py:1519-1528`).

`EpisodeLoop`. `stage` tells the ordinary loop from the commit phase, `at` whether the model is
asked, a block runs or its observation is read. A reply of the model is the kind of turn it is: an
answer tag or prose, an empty one, a truncated one, a malformed call, a call that runs no block, a
block. A block is the steps it takes, in any order: `submit`, a sweep, work, an error, a timeout.
`offer` and `submitted` are `_pending` and `_submitted`; `EndBlock` commits as
`Session.execute` does. `clean` and `barren` are history.

`SemanticSweep`. `batch` is the list of jobs of the pass whose replies are awaited, `run` the
result so far, `record`, `cache` and `shown` the three copies. A reply is what `read_fragment`
finds in it: a set of accepted values and a set of items it found a line for. `large` are the
fragments the scheduler refuses for their size; a narrowed retry may fit.

`RecursionTree`. A node that calls `rlm_query` or `rlm_map` waits inside its block, so the live
nodes are a stack. `own` and `below` are the node's subcalls and `subtree["subcalls"]`; `left`
are the parts its map has to go.

`Segmentation`. The loops of `_units`, `segment` and `grouped_parts`, one iteration per action,
over a list of stretches with a length and a blankness. `next` and `head` are the unit `segment`
has reached and its `unit_start`, `open` its `start, end`.

`PresentationRepair`. `at` is the position in one attempt of `_repair_presentation`: the request, its
call, the block, what was observed, the verdict on it. `open`, `pending` and `candidate` are the
session's; the other variables are the locals of the loop. A text is a model value and its validity
a fixed set, because validation is a function of the text and of an answer that no block in a
window can change. `fresh` is history: the text the block of this attempt submitted and ended with.
The preflight reads the block's text, so it decides whether a block runs and not what it does.

`Delegation`. A text is a sequence of cells, the units of a context; equal cells are equal stretches
of text, so a part may be found in two places or in none. Spans are half-open and counted in cells,
fractions in characters (`Width`). `stack` are the live nodes, as in `RecursionTree`, each with the
audit of its session: `Sweep` is `_envelope`, `Return` is the end of a child with `_credit` and,
inside a map, its record. A part is a slice of the caller's text or a text of its own making
(`Foreign`). `record` is the record of the last step only. `Answer` is `analyze_large_context` from
the finished episode on; the strategy it was called with is chosen there, because nothing before it
reads it. `cut` and `returned` are history: where a child's part came from, and what ended.
`Certificate.place` is used by the tests only and is the operator `Placed`, which `_credit` inlines.

`MeasuredRun`. `script` is fixed in a behaviour, since no two scripts write the same file, and so is
`--label`: the runs of a suite have one document. `run` is the script that is running, `run.phase`
its position: the loading of the host's modules, the manifest, and then in the episode of a task the
format request, the inference of a presentation, the reset of the cache, the trace, the turns, the
probe of the server after a failure, the record. `server` is an external process: it dies, restarts
with an empty cache, drops a connection, answers with an error or as another model, at any time. A
trace is `open`, closed by an exception (`"x"`) or `done`. The checkout is two versions, what is
committed and what is in the files, and both may change at any step, also under a run; only the
clock that names runs stands still then, because nothing but a start reads it. `Manifest` asks git
for the tree once and `git status` may not answer (`code_dirty` is then `None`, here `"unknown"`);
that `git rev-parse` answers is assumed. The host runs the version that was there when it was loaded,
a session the `worker.py` that is there when it starts (`OpenTrace` for the root, `NewSession` for
a restart or a child). `edited`, `files`, `ran`, `host`, `workers`, `cold` and `dropped` are
history: whether the files changed since the start, what they were at the manifest, the code that
ran, the cache at the first root request, and whether the server was serving when it dropped a
request. `Surface` is what the contract hashes of a manifest see of a version. `Selections` are the
suite's own tasks or a list of `--tasks`, all or one task of `smoke` (an unknown name leaves none),
any list, with repeats, for a pilot; an unknown number in a pilot's list raises and leaves what
a kill leaves.

`PairsScoring`. A task goes from its episode (`value` and `texts`) over a repair to its record
(`result`), then its run is audited (`report`). A text is its items, each of a shape that the
parsers and the contract tell apart, in one of four forms; a user id is a number in canonical
decimal. A metric is the set of pairs it is computed from, which leaves out rounding. The gold
pairs, the contract, its binding, the parsers and the audit are operators; a context is a list of
lines, records and preamble, as `entries` and `gold_records` read it. `Said` is no part of the code:
it is the reading of a value that the code's own (`Committed`, through a parser, a pattern or the
types) is compared with.

## 3. Runs

Besides its type invariant, each run checks:

| run | instance | what it shows |
|---|---|---|
| `scheduler` | 4 jobs, window 3, allowance at most 3 | `AllowanceKept`: the limit holds on the wire, the counter is exact, a check that passed is granted its claim. `WindowHolds`, `TokenOverrunBounded`. `BatchEnds`. `Contract`: it implements `BatchContract`: replies in job order, everything paid for delivered |
| `repl` | 3 blocks, 3 host calls per process, 2 pulls, a worker that may die at any step | `ChannelInStep`: each observation and value reaches its reader, no block runs without its context. `ClockMeasuresCode`. `ExecuteReturns`. `Contract`: it implements `SessionContract`: a block's code begins at most once, an observation is of a known session |
| `loop` | 4 turns, limits of 2, 2 commit attempts and 1 recovery | `EffortIsBounded`: stalls are caught, requests bounded up to the answer (what `_repair_presentation` sends after it is bounded in `repair`). `EpisodeEnds`. `Contract`: it implements `DeliveryContract`: only a finished block delivers, and nothing it delivers is lost or left in the session |
| `sweep` | fragments {1,2}, {3}, {4}, two values, 4 calls | `PaysOnce`: no settled item asked again, one retry, what is called unsent is unpaid. `SettledValuesStay` |
| `tree` | 4 nodes, depth 2, 4 turns at the root, 1 subcall, maps of 3 parts | `TreeKeepsItsBounds`: turns, depth and nodes of the whole tree, and the preflight of `rlm_map`. `SpendingIsAccounted` |
| `segmentation` | every text of 4 stretches of up to 6 characters, band 2 / 3 / 4, up to 3 slots | `SegmentsTileWhole`: units and segments tile the text, no unit torn. `GivenOnce`: fragments and parts give every item once |
| `repair` | 4 texts, one of them valid, and the code's default policy (3 candidates, 2 retries, 2 builds, 1 reserve) | `TextsAreCurrent`: the candidate is this attempt's, a ready draft is valid. `ReserveIsEarned` |
| `delegation` | two contexts of three cells, 3 nodes, depth 2, 2 sweeps at the root and 1 in each child | `CreditAtOrigin`: a credit is where the part was cut, and it was swept. `GapsAreTheRest`. `VerdictIsGrounded`: "complete" is earned |
| `measured` | 2 tasks, 2 starts of every script, 2 seconds, 2 requests, 2 events from outside, two versions the hashes tell apart | `CleanStart`. `DocumentIsWhole`: each task is accounted for; a tree read as clean tells the code that ran, unless it was edited meanwhile. `ConsolidatedIsWhole`: each task once, from cold episodes on disk, on hosts of one contract. `EvidenceStays` |
| `pairs` | 3 users, 3 windows, 2 labels, answers and texts of up to 2 items in every shape | `AcceptedMeansSame`: an accepted text scores what the value names, for every parser. `FormatGainsNoContent`, `AuditBorrowsNothing` |
| `scheduler_prefix`, `measured_clean` | violation | findings 1 and 2 |

**Why the bounds are enough.** Four jobs over a window of three make the window slide and leave a
job outside it while three are out; an allowance of three makes the budget stop a batch at each
position, with claims given back before and after. Three blocks are a block before, in and after
a restart; three host calls allow two nested ones after a first. Limits of two let each counter of
the loop reach its limit while the other has moved. Fragments of two items and of one distinguish
a narrowed retry from a whole one, and three of them let a job be dropped between two that were
submitted. Four nodes at depth two allow a child that recurses inside a map. Lengths of six over a
band of 2 / 3 / 4 contain a stretch below the minimum, at each edge of the band, and above the
maximum. The repair runs with the numbers of the default `TerminalPolicy`, and three
invalid texts let every candidate be rejected once before the attempts are spent. The contexts of
`delegation` have a unit that occurs twice, and a unit of one per cent; three nodes are a child in
a child or two siblings; the outcomes of a sweep are one that lacks an item, one that is the whole
context and one over items of the model's own. Two starts are two shards of one measurement, a
restart over the traces of a killed run, or a rerun in the same second. Two events from outside are a
failure and what follows it (a server that dies and does not come back, a kill after a rejection), an
edit under a run and its commit or its undoing, or an edit that git does not report; a third version
would add nothing, since versions are only compared. In `pairs`, two items are enough for an order, a duplicate and a
mixture of shapes; the windows have a user with two records and a question that occurs twice.

Deadlock is checked in every run but `measured` and `pairs`: the other modules end in an explicit
`Done` step, while a series of measurements and a scored task simply stop.

**Bounds the code does not have** are named as such where they are declared: `MaxBlocks`,
`MaxCalls`, `MaxPulls`, `MaxAsks` (`ReplSession`), `MaxSubmits` (`EpisodeLoop`), `MaxCalls`
(`SemanticSweep`), `MaxCommits`, `MaxParts` (`RecursionTree`), `MaxStretches`, `MaxLen`, `MaxSlots`
(`Segmentation`), `Outcomes`, `MaxSweeps` (`Delegation`), `Pickings`, `MaxSecond`, `MaxRequests`,
`MaxRuns`, `MaxEvents` (`MeasuredRun`), `Values`, `Candidates`, `RowTables`, `CallLists`
(`PairsScoring`).

**Symmetry** is used in `tree` and in every run of `MeasuredRun`: signatures and
versions, and what the hashes see of a version, are compared for equality only, and what these runs
check are invariants and one action property.

### Fairness

* `SubcallScheduler!FairSpec`: the submitting thread and every pool thread run when they can.
  The operating system does that, and a completion request returns or times out
  (`mlx_client.py`). The clock of the budget need not run out.
* `ReplSession!FairSpec`: the host and the worker's frame loop go on, handlers return, a timer
  that is armed fires and its thread kills. The model's code owes nothing: a block may compute
  forever, and the timer is what ends it. Two assumptions are needed and the code does not
  enforce them. A generator handed to a host function must yield or end, because the timer is off
  while the host pulls from it (`repl/runtime.py:262-264`). A block makes finitely many host calls
  (`MaxCalls`): each arms a fresh timer, so a block that loops over host calls, refused ones
  included, is never timed out. The model also has at most one timer between firing and killing.
* `EpisodeLoop!FairSpec`: a request to the model is answered or fails, a block ends, the loop
  goes on.

## 4. Findings

Two are runs whose one property quotes the program and whose trace TLC finds:

1. `scheduler_prefix`: the replies of a short batch need not be those of the first jobs
   (`calls/scheduler.py:348`). Also reproduced on the Python code.
2. `measured_clean`: "formal consolidation requires a clean code commit" (`consolidate.py:153`), but
   `code_dirty` is read from the first shard only (line 152) and is no part of the signature the
   others are compared by. A second shard run with `--allow-dirty`, over code that no contract hash
   sees, is consolidated under the clean commit. That situation is the one that
   `scripts/run_pairs_pilot.py:456-459` tells of: one recorded commit, opposite scores.

The others are configurations beside the modules, run by hand
(`tlc -config <file>.cfg <module>`); TLC refutes the property of each:

| configuration | module | what the code says, and what happens |
|---|---|---|
| `ReplSessionReentrant.cfg` | `ReplSession` | "bidirectional and reentrant" (`repl/rpc.py:3`): a generator argument that calls a host function itself breaks the channel, and `execute` raises (`repl/runtime.py:334`) |
| `ReplSessionTold.cfg` | `ReplSession` | "it is told so" (`repl/runtime.py:403-404`): a timer that fires as its block ends kills the session afterwards, and the next `execute` replaces it without a word (line 266) |
| `EpisodeLoopSubmit.cfg` | `EpisodeLoop` | "exactly once" (`repl/worker.py:1872-1875`): a block that calls `submit` twice and catches the refusal delivers its first value (line 860). Reproduced on the Python code |
| `EpisodeLoopPartial.cfg` | `EpisodeLoop` | "still available" (`native_loop.py:82-85`): after a block timeout the commit phase offers the retry of a sweep that was lost with the session (line 983) |
| `DelegationUsable.cfg` | `MCDelegation` | `engine.py:537-541` calls a starved child usable because it swept its whole part; line 546 reads the `coverage_complete` of its sweep, which a sweep of items the model supplied has as well: what `repl/worker.py:1070-1073` guards against elsewhere |
| `DelegationHides.cfg` | `MCDelegation` | "with no gap" (`certificate.py:20-22`, 97-99): the adapter accepts 98 % of the characters (`adapters/agents.py:177`), so a small unit that nobody read does not keep the verdict from "complete" |
| `MeasuredRunFormal.cfg` | `MCMeasuredRun` | "a dirty working tree is refused" (`scripts/run_suite.py:6-8`): a `git status` that fails or takes ten seconds gives `code_dirty: None` (`manifest.py:222`), which `run_suite.py:208-213` and `smoke.py:186-191` test for truth, so the run starts and counts as a decision |
| `MeasuredRunEdited.cfg` | `MCMeasuredRun` | the commit is to describe "the code that produced" the result (`run_suite.py:7-8`): the tree is looked at once, and each session starts `worker.py` from the files as they are then (`repl/runtime.py:122`), so an edit under a run is filed under the clean commit |
| `MeasuredRunFiled.cfg` | `MCMeasuredRun` | the probe is "what keeps a parser crash from being filed as infrastructure" (`run_suite.py:71-74`): it asks after the fact (`mlx_client.py:212`), so a server that died on the request and is back is a rejected generation, and one that rejected it and died since is infrastructure |
| `PairsScoringRepair.cfg` | `MCPairsScoring` | an answer that was only written has no typed value, so a repair of its text is bound to nothing: a candidate may bring pairs that were in no answer (README.md:398 of the repository, `native_loop.py:203` and 1271) |
| `PairsScoringAudit.cfg` | `MCPairsScoring` | the audit reads the window of the task in the sample (`scripts/audit_pairs_run.py:230`), `oolong_pairs.py:69-75` says that a run is about the first one |

Met while modelling and not run as a property: `query_batched` drops replies already paid for
when the source itself raises (`calls/scheduler.py:261-275`). The directory of a killed session
stays on disk: `_restart` forgets it and `close` returns early when the process is dead
(`repl/runtime.py:137-149`). `semantic.run` counts as presented a fragment whose reply is the
scheduler's own refusal (`semantic.py:708` against 742-744). The comment "Partial sweeps are never
cached" (`repl/worker.py:638`) contradicts the code at 1348 and 1465. The root's question is not in
the lineage (`engine.py:294`), so a child may repeat it once. `Ledger.turns` is charged and checked
by nobody; the bound is `TreeIsBounded`. A child that raises is never absorbed, so its requests
appear in the ledger only (`SpendingIsAccounted` books them as `lost`). The preflight of `rlm_map` reserves nothing (`MapFits` says exactly what
it guarantees). A unit above the scheduler's size limit is refused in a sweep and in both its
retries. `covers` is false for a blank text, which has no segments.
A small unit before a large one makes a segment above `max_chars` (`context/segmenter.py:176`), up to
`target_chars - 1 + max_chars` and what a fold adds (`SegmentsAreWhole` has the bound), while the
comment at 147-148 says that the bands bound the result; the scheduler refuses to send such a
segment. In a presentation repair: a call that runs nothing (an unknown tool, no code) leaves the
window open, so the next reply's `open_presentation` is refused and the repair ends without its last
candidate although attempts are left (`native_loop.py:1424-1428`, `repl/worker.py:883`; the action
`OpenFails`). After a block timeout `PRESENTATION_VALUE` is the sentinel `_UNSET`, because the new
session has no committed value, while the prompt (`native_loop.py:211-212`) calls it a copy of that
value. Printing a draft that validates twice ends the repair as `repeated_invalid_draft`
(`native_loop.py:1548`). In a measured run: a connection that the server drops during a sub-call is
turned into a reply by the scheduler (`calls/scheduler.py:228`, 346), so a dead server shows only at
the next root request, while `mlx_client.py:19-21` wants it to end the run. "Repeat later under the
same id" (`scripts/run_suite.py:84`) cannot be done: a trace is opened exclusively, so the id of
an aborted run is spent. `smoke.py` ends without a document when a generation is rejected. In
scoring, a list of two strings with one id each is read as a pair by `parse_answer_repl`.

## 5. Proofs

Every safety property and every action property that a run checks is proved, for every value of the
constants that the assumptions admit. A proof module extends the module it is about; two of them are
about two. Few of the properties are inductive by themselves; the sections below name the
invariant that is, and why it is needed. Each invariant was checked by TLC on the run's instance
before it was proved.

**`SubcallScheduler_proofs`**, for every number of jobs, window, allowance and size of reply
(`WindowAssumption`, `LimitAssumption`: natural numbers, and a window of at least one):
`TypeCorrect`, `LimitCorrect`, `ChargeCorrect`, `GrantCorrect` and from them `AllowanceCorrect`;
`OrderCorrect` and `DeliveryCorrect` (`RepliesInOrder` and `PaidIsDelivered`, what the order and the
end of the contract say of the replies); `WindowCorrect`, `OverrunCorrect`
and `ContractCorrect`. `IInv` has these parts:

* `Phases` ties `pc` to `nextJob`, `awaited` and `filling`: what the submitter holds at each line;
* `Pipeline`: replies, the awaited job, the deque and the job in hand are in job order, below the
  frontier of jobs not yet submitted. It gives `RepliesInOrder`;
* `Places`: every job below the frontier is dropped, in the pipeline or already collected. It is
  why a finished batch has nothing paid and undelivered (`PaidIsDelivered`);
* `Charges`: the ledger's counter is what was spent before plus the jobs that hold a claim, which
  needs the cardinality of a set that changes by one job per step; it gives `ChargeIsExact`,
  `LimitHolds` and `ClaimIsGranted`: no other party claims while the submitter is between check
  and claim, and what threads give back can only help;
* `Room`, separate from the rest: the unfinished jobs and the replies not yet taken fit in the
  window at every position of the submitter (`WindowHolds`);
* `Overrun`, on top of `Room`: the tokens settled, plus the largest reply for every job still out
  and, between check and claim, for the one about to go, stay below the limit plus a window of
  replies. It gives `TokenOverrunBounded`. The bound on tokens alone is not inductive, because a
  reply may settle long after the check that let its job through.

`ContractCorrect` is the refinement: under the mapping of `BC`, the first state of a batch is one
of `BatchContract`, and each action is the step of it that its name suggests or a stutter (`Issue`
sends, `Collect` delivers, the end of the generator ends it).

**`ReplSession_proofs`**, for every number of blocks, calls, pulls and questions
(`SessionAssumption`): `TypeCorrect`, `ClockCorrect` (`ClockMeasuresCode`) and `ChannelCorrect`
(`ChannelInStep`: the observation is the block's own, a value reaches the call that asked for it, no
block runs without its context). The invariant, `InStep`, has one conjunct for each thing the host
may be doing, and says which single frame may be under way then and in which phase of the worker.
It covers the two cases nobody would write down first: a refused outer call that ends its inner one,
and a chunk that arrives when nobody pulls any more.

`ContractCorrect` refines `SessionContract`. Whether the code of the block has begun is read from the
number of the last block the process ran, so the proof needs `Numbered`: no process has met the number
of a block that is sent to it, a new process has met none, and a result on its way is of the block
given. Without it a block sent again, or a result of an earlier block, would be a step of no action of
the contract. `Execute` is its `Give`, `WorkerBegins` its `Begin`, `Result` its `Return`, `Died` its
`Lose`, and the end of a restart its `TimeOut` or `End`; host calls and the timer are stutters, but for
an error that leaves `execute`.

**`EpisodeLoop_proofs`**, for every set of limits (`LoopAssumption`) and of values: `TypeCorrect`,
`DeliveryCorrect`, `EffortCorrect` and `ContractCorrect`. `DeliveryIsSound`, the state predicate behind
the contract (what the session holds, and the answer, come from finished blocks; it holds nothing when
the model is asked), is inductive with the types.
`EffortIsBounded` is not: it needs

* `Requests`: the requests so far are at most the turns and the commit attempts, and there is no
  attempt while the ordinary loop runs;
* `Barren`: each barren turn is counted once, as an error or as a truncation, and a turn in progress
  was begun below every limit. It is why no sequence of errors, truncations and useful turns that
  resets one counter and not the other passes both limits.

`ContractCorrect` is the third refinement: the episode implements `DeliveryContract`, in which only
a finished block leaves a value and a usable one is the answer of that very turn. A request of either stage is an `Ask`
of the contract because of `Requests` and the limits a turn is begun below; the end of a block is a
`Leave` or `LeaveNothing` because of `BlockIsFresh` (nothing is committed while a block runs), which the stages and the
voiding of unusable values keep. What a block does before it ends, and `StartCommit`, are stutters.

**`PresentationRepair_proofs`**, for every policy and every set of texts (`PolicyAssumption`,
`TextAssumption`): `TypeCorrect` (which bounds the requests and the candidates), `FreshCorrect` and
`ReadyCorrect`, together `TextsCorrect`, and `ReserveCorrect`. `ReadyDraftIsValid` is inductive by
itself. The others need

* `Position`: at every request an ordinary attempt is left, or the reserve is and it was earned by a
  build; an attempt that is not over has a candidate left; a request in progress is not yet counted
  as a build. It gives the bounds of `TypeOK` and `ReserveIsEarned`;
* `Window`: between the opening of a window and the end of its block there is no candidate, and
  nothing is promoted before the end. `CandidateIsFresh` alone does not say what the session holds
  before the block ended.

**`SemanticSweep_proofs`**, for every list of disjoint inhabited fragments, every set of values and
every number of calls (`FragmentAssumption`, `ValueAssumption`): `TypeCorrect`, `PaysOnceCorrect`
(`PaysOnce`) and `SettledCorrect` (`SettledValuesStay`). The invariant says how the copies of a result
agree: the cache holds what the registry holds, the model was shown no more than that, and while a
first sweep is sent nothing is cached (`PassIsFresh`), so that no value is settled of which its jobs
do not know. `Nth`, which the scheduler's prefixes are counted with, is a recursive function over
the list; that it finds a position is proved by induction on the last one.

The same module extends `Segmentation`, whose specification has names of its own for that, and proves,
for every text and every band (`BandAssumption`, `BoundAssumption`), `SegmentTypesCorrect`,
`SegmentsCorrect` (`SegmentsTileWhole`) and `GivenOnceCorrect` (`GivenOnce`). The invariant
`SegmentsInv` says what the variables of each loop say of the text consumed so far:

* `UnitsTile`: the units tile the text read, and none but the first may be blank until it joins the
  next. `Fresh`: nothing is packed or cut before its loop begins;
* `Packing`: `head` is the start of the next unit or inside it, if it is too large for one segment
  (`HeadFits`); the segments tile the text up to the open group, and the group ends at `head`;
* `Packed`, after the tail was folded, and `Cutting`: the cuts increase, one per turn at most, each
  at the end of a segment that is not the end of the text.

`GivenOnce` follows from tilings: spans that lie end to end are in order (`TileOrder`) and hold every
offset (`TileCovers`), so a unit begins in one segment (`OneSegment`), and units with the same
quotient by `Cap` are fewer than `Cap` apart (`Division`, `ChunkIsSmall`).

**`RecursionTree_proofs`**, for every budget, every set of signatures and every number of nodes
(`TreeAssumption`): `TypeCorrect`, `BoundsCorrect` (`TreeKeepsItsBounds`), `SpendingCorrect`
(`SpendingIsAccounted`). The total of turns is bounded only because each live node brings a limit
of its own, so the invariant is `TurnsLeft`: the turns taken plus those the live nodes may still
take are no more than the nodes made so far allow. It and the account of the subcalls are sums over
the stack; every step changes the last term, adds one or drops one (`TopChanges`, `NodeAdded`,
`NodeLeaves`), and `IsSum` says how a sum follows each of the three.

**`Delegation_proofs`**, for every set of contexts, every width of a cell, every tree of calls
(`DelegationAssumption`): `TypeCorrect`, `CreditCorrect` (`CreditAtOrigin`), `GapsCorrect`
(`GapsAreTheRest`) and `VerdictCorrect` (`VerdictIsGrounded`).

* Credits are found by looking for the child's text in its caller's. The invariant needed is
  `Framed`: each live child's text is the slice of its caller's that its history says, or a text
  that does not occur in it. A slice occurs where it was cut (`CutOccurs`); if it occurs once, that
  is the place (`PlacedOnce`), and nothing else is credited.
* `KInv` adds that a sweep of the context is one of the node's whole text, that every span in the
  trace and in the history lies in the text it is about, and that a verdict on record is still what
  the trace and the root's sweeps give (`Judged`).
* The certificate sorts, merges and walks the spans. There is exactly one order of a finite set of
  spans (`OrderExists`, `InOrderSorts`); a turn of the merging loop keeps the cells held and leaves
  the spans apart (`JoinStep`, `MergedSpans`); a turn of the walk writes the cells between them
  (`WalkStep`, `GapsAre`). So the gaps are exactly what no credit holds.
* For the 98 per cent, a set of cells never weighs less than a part of it (`CharsGrow`), and what
  was credited lies in what children swept (`CreditsWereRead`).

**`MeasuredRun_proofs`**, for every set of tasks, versions, scripts and options, every number of
runs, requests and events (`MeasuredAssumption`): `TypeCorrect`, `CleanStartCorrect`,
`DocumentCorrect` (`DocumentIsWhole`), `ConsolidatedCorrect` (`ConsolidatedIsWhole`) and
`EvidenceCorrect` (`EvidenceStays`). The invariant ties the running script to the disk: what its
phase says of the trace it opened and of the server's cache, that its results and the tasks left are
in order the tasks it was given (`TasksFit`), and that each completed result is the episode on disk.
It stays true because no step rewrites an episode or a closed trace (`Kept`), which is also the
action property. Of the code the invariant says only what the scripts can know (`CodeFits`): as long
as nobody edited the files since the start they are the version the host loaded, so every session
runs it too, and a clean answer of git makes it the commit. `DecisionIsClean` and `DecisionRanCommit`,
which would say it of every decision, are refuted (section 4). `ConsolidatedIsWhole` needs no
such condition: it speaks of the contract of the hosts, which each manifest hashes from what it loaded.

The same module extends `PairsScoring`, for every sample, every set of texts, of rows and of calls
(`ScoringAssumption`, which types them): `ScoringTypeCorrect`, `AcceptedCorrect`
(`AcceptedMeansSame`), `FormatCorrect` (`FormatGainsNoContent`) and `AuditCorrect`
(`AuditBorrowsNothing`). TLC evaluates the parsers, the contract and the audit on texts of two items
and windows of five lines; the theorems hold for any length.

* `Presented`: a final text that is not the first one is valid for the value, which is why a repair
  gains no content, and `Scored`: a result is what its value and texts say. The parsers widen each
  other (`ParsersWiden`).
* `AcceptedCorrect` compares what was scored with `Said`, what the items of a value name. Validity
  binds the text to the code's reading of the value; that this reading is what the value says, for
  typed pairs, for a list of strings and for a text, is `CommittedIsSaid`, by way of `OrderedNames`
  (ordering a pair renames nobody). That the two wider parsers find no more in an accepted text, and
  its lower ids first, is `GrammarParsesAlike`.
* The audit: the lines of records in a window are in fact numbered, so its entries are records
  (`KthExists`, `EntriesAreRecords`); an answer for some users depends on their rows only
  (`AnswerOfAgreeing`), and a complete user has only rows the run labelled
  (`CompleteBorrowsNothing`); more users give more pairs (`AnswerGrows`), so with right labels the
  pairs of complete users are true (`RightLabelsAreTrue`).
* A prediction is a label because the last of the rows about a record, or the first of the calls, is
  one of them (`MaxIsMember`, `MinIsMember`).

### Induction

The library's induction theorems take an operator as a parameter, which the provers cannot
instantiate. These proofs state induction over sets instead: `Least` (every inhabited set of
naturals has a least member, from `NatLessThanWellFounded` and `WFMin`), `Induction` (a set that
holds 0 and successors holds every natural) and `SubsetInduction` (the same for the subsets of a
finite set). With a set of numbers for the property they suffice for the recursive functions and
the folds of these models.

### Only model-checked

* `BatchEnds`, `ExecuteReturns`, `EpisodeEnds`: liveness under fairness needs `ENABLED`.

## 6. Not modelled

`context/store.py` and `context/search.py` are sequential lookups over an immutable text; nothing
decides on the score of a hit. Of `artifacts.py` the format of the files, of `tracing.py` the events
nobody reads back. `protocol.py`, `step.py` and the interpreter in `inferred_presentation.py` are text
formats: the models keep which kind of reply or verdict they yield, and `output_contract.py` is
modelled for the one contract the measurements use. Of `mlx_client.py` the payloads; of `manifest.py`
the hardware and launch flags, which are constant in a measurement; `fingerprint.py` prints one. The
corpora and graders (`suite*.py`, `tasks.py`, `corpus*.py`) are data and single comparisons. In the
scripts, everything that prints, and those that only inspect a server. The course notebooks are
documents.

## 7. Plan

In the order of importance, with what is done marked:

1. (done) `SubcallScheduler` and `BatchContract`, the shared resource everything pays from.
2. (done) `ReplSession`, then `EpisodeLoop` over it.
3. (done) `SemanticSweep`, `RecursionTree`, `Segmentation`.
4. (done) `PresentationRepair`, after the delivery of `EpisodeLoop`.
5. (done) `Delegation`, which continues `Segmentation` and `RecursionTree`; `MeasuredRun` around
   the episodes; `PairsScoring` after them.
6. (done) `DeliveryContract`, which `EpisodeLoop` implements, and `SessionContract`, which
   `ReplSession` implements, as `BatchContract` is for the scheduler.
7. The preflight of `repl/worker.py:131-210` against the blocks it lets through, `validate_value` of
   `semantic.py` against what `check_schema` accepts, and the slices of `context/store.py`.
8. (done) Proofs: every safety and action property that a run checks, and the refinements of
   `BatchContract`, `SessionContract` and `DeliveryContract`. Liveness stays with TLC.
