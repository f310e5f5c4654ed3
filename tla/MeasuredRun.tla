---------------------------- MODULE MeasuredRun ----------------------------
(***************************************************************************)
(* A measured run: a script under scripts/ takes its tasks one after       *)
(* another to one mlx_lm.server, each as an episode of RLMEngine.complete  *)
(* behind a reset of the server's prompt cache, and writes one document of *)
(* results; shards of OOLONG-Pairs are later consolidated into one.  What  *)
(* an episode does between its requests is in the other modules.           *)
(*                                                                         *)
(* The server may die and come back at any time, drop a connection over a  *)
(* generation it cannot parse, answer with an error status or as another   *)
(* model; the script may be killed between any two steps; the code may be  *)
(* edited and committed at any time.  No other client uses the server.     *)
(***************************************************************************)
EXTENDS Naturals, SequencesExt, FiniteSets, Functions

CONSTANTS
  Tasks,       \* the tasks of a suite, in order
  Pickings,    \* bound: --tasks of a suite, a pilot or the upstream comparison
  Versions,    \* states of the code
  Surface,     \* what the contract hashes of a manifest see of a version
  Kinds,       \* the scripts: run_suite, smoke, run_pairs_pilot, run_upstream_rlm_pairs
  Configs,     \* options of a pilot: output mode and --infer-presentation-spec
  MaxSecond,   \* bound: seconds of the clock that names runs
  MaxRequests, \* bound: root requests and sub-calls of an episode
  MaxRuns,     \* bound: starts of a script
  MaxEvents    \* bound: failures of the server or of git, kills of a script, edits, commits
ASSUME MeasuredAssumption ==
  /\ Tasks \in Seq(Nat \ {0}) /\ IsInjective(Tasks) /\ Tasks # <<>>
  /\ Pickings \subseteq Seq(ToSet(Tasks))
  /\ Surface \in [Versions -> Nat]
  /\ Kinds \subseteq {"suite", "smoke", "pilot", "upstream"}
  /\ Configs \subseteq [mode : {"raw", "validate_repair"}, infer : BOOLEAN]
  /\ {MaxSecond, MaxRequests, MaxRuns, MaxEvents} \subseteq Nat /\ MaxSecond > 0

VARIABLES
  script,    \* the script that is run, again and again: no two share a file
  server,    \* the process: is it up, has it cached prompts of earlier requests
  tree,      \* the checkout: what is committed, what is in the files
  second,    \* int(time.time())
  run,       \* the script that is running, or NoRun
  traces,    \* trace.jsonl of each run directory: open, closed by an exception, done
  episodes,  \* episode.json of each run directory
  documents, \* result documents by path
  combined,  \* the consolidated document, or NoRun
  runs,      \* starts so far
  events     \* events from outside so far

vars == <<script, server, tree, second, run, traces, episodes, documents, combined,
          runs, events>>
disk == <<traces, episodes, documents>>

NoRun == [phase |-> "none"]
Statuses == {"completed", "infrastructure_invalid", "server_rejected_generation"}
Served == {"asked", "other", "unnamed"}

BetweenRuns == run = NoRun /\ runs < MaxRuns
TaskRun == <<run.kind, run.second, Head(run.todo)>>   \* f"{manifest.run_id}_t.."
With(f, x, v) == [y \in DOMAIN f \cup {x} |-> IF y = x THEN v ELSE f[y]]
Event == events < MaxEvents /\ events' = events + 1

\* code_dirty, if git answers: what a run wrote (runs/, configs/suite_ ...) is ignored.
CodeDirty == IF tree.files = tree.commit THEN "clean" ELSE "dirty"

TypeOK ==
  /\ server \in [up : BOOLEAN, cached : BOOLEAN]
  /\ tree \in [commit : Versions, files : Versions]
  /\ script \in Kinds /\ second \in 1 .. MaxSecond
  /\ runs \in 0 .. MaxRuns /\ events \in 0 .. MaxEvents
  /\ run # NoRun =>
       /\ run.kind = script /\ run.version \in Versions /\ run.commit \in Versions
       /\ run.files \in Versions /\ run.ran \subseteq Versions
       /\ run.dirty \in {"clean", "dirty", "unknown"}
       /\ ToSet(run.todo) \subseteq ToSet(Tasks) /\ run.asked \in 0 .. MaxRequests
       /\ run.models \subseteq Served
       /\ run.phase \in {"load", "next", "format", "infer", "reset", "open", "turns",
                           "probe", "save"}
       /\ run.phase \notin {"load", "next"} => run.todo # <<>>
       /\ \A i \in DOMAIN run.results : run.results[i].status \in Statuses
  /\ \A id \in DOMAIN traces : traces[id] \in {"open", "exception", "done"}
  /\ DOMAIN episodes \subseteq DOMAIN traces

Init ==
  /\ server = [up |-> TRUE, cached |-> FALSE]
  /\ \E v \in Versions : tree = [commit |-> v, files |-> v]
  /\ script \in Kinds /\ second = 1 /\ run = NoRun /\ combined = NoRun
  /\ traces = <<>> /\ episodes = <<>> /\ documents = <<>>
  /\ runs = 0 /\ events = 0
-----------------------------------------------------------------------------
(***************************************************************************)
(* Starting a script: Python loads the host's code from the files, then    *)
(* the manifest asks git, once, and hashes what the models will read.  All *)
(* runs of a behaviour have one --label, so a suite has one document.      *)
(***************************************************************************)
Selections ==
  CASE script = "suite" -> {Tasks} \cup Pickings
    [] script = "smoke" -> {Tasks, <<>>} \cup {<<t>> : t \in ToSet(Tasks)}   \* --only
    [] OTHER            -> Pickings
Options == IF script = "pilot" THEN Configs ELSE {[mode |-> "raw", infer |-> FALSE]}

\* The contract hashes: texts and renderers the models read, not all of the code;
\* interaction_ from what the host loaded, observation_ from the files as they are.
Contracts(loaded, files) == <<Surface[loaded], Surface[files]>>

\* edited and files are history: has the code been edited since the script
\* loaded it, and what the files were when the manifest asked.
Start(todo, config) ==
  /\ BetweenRuns
  /\ run' = [kind |-> script, second |-> second, phase |-> "load",
             version |-> tree.files, edited |-> FALSE,
             commit |-> tree.commit, dirty |-> "unknown", files |-> tree.files,
             contracts |-> Contracts(tree.files, tree.files),
             argv |-> FALSE, config |-> config, given |-> todo, todo |-> todo,
             results |-> <<>>, models |-> {}, asked |-> 0, cold |-> FALSE,
             opened |-> FALSE, ran |-> {}, dropped |-> "no"]
  /\ runs' = runs + 1
  /\ UNCHANGED <<server, tree, second, disk, combined, events>>

Alive == run # NoRun
In(phase) == Alive /\ run.phase = phase
Continue(next) == run' = next
Crash == run' = NoRun     \* main returns early or does not catch: no document

\* git status may fail or take too long: code_dirty is None.  (rev-parse answers.)
\* The upstream comparison has its own git(), which raises.
GitAnswers(dirty) ==
  IF dirty = CodeDirty THEN UNCHANGED events ELSE run.kind # "upstream" /\ Event

\* "if code_dirty and not allow_dirty": the upstream comparison only records it.
MayRun(dirty, allowDirty) == dirty = "dirty" /\ run.kind # "upstream" => allowDirty

\* The upstream comparison makes a directory for its traces, or stops.
Directory == <<"upstream", run.second, 0>>
MakesDirectory ==
  IF run.kind = "upstream" THEN traces' = With(traces, Directory, "done")
  ELSE UNCHANGED traces

Manifest(dirty, allowDirty) ==
  /\ In("load") /\ GitAnswers(dirty)
  /\ IF MayRun(dirty, allowDirty) /\ Directory \notin DOMAIN traces
     THEN /\ Continue([run EXCEPT
               !.phase = "next", !.commit = tree.commit, !.dirty = dirty,
               !.files = tree.files, !.contracts = Contracts(run.version, tree.files),
               !.argv = server.up])
          /\ MakesDirectory
     ELSE Crash /\ UNCHANGED traces
  /\ UNCHANGED <<server, tree, second, episodes, documents, combined, runs>>
-----------------------------------------------------------------------------
(***************************************************************************)
(* What the scripts do with ServerUnavailable and GenerationRejected.  The *)
(* engine has closed the trace of an episode that had one.                 *)
(***************************************************************************)
Recorded(result, todo) ==
  Continue([run EXCEPT
    !.results = Append(@, result), !.todo = todo, !.phase = "next",
    !.opened = FALSE, !.ran = {}, !.dropped = "no"])
Failure(status) ==
  [task |-> Head(run.todo), status |-> status, dropped |-> run.dropped]

SuiteCatches(status) == run.kind = "suite" /\ Recorded(Failure(status), Tail(run.todo))
SmokeCatches(status) ==
  /\ run.kind = "smoke"
  /\ IF status = "infrastructure_invalid" THEN Recorded(Failure(status), Tail(run.todo))
     ELSE Crash
\* Mutant: a failure of the infrastructure does not stop the shard.
PilotCatchesOn(status) == run.kind = "pilot" /\ Recorded(Failure(status), Tail(run.todo))
PilotCatches(status) == run.kind = "pilot" /\ Recorded(Failure(status), <<>>)
UpstreamCatches == run.kind = "upstream" /\ Crash

Raised(status) ==
  /\ \/ SuiteCatches(status) \/ SmokeCatches(status)
     \/ PilotCatches(status) \/ UpstreamCatches
  /\ traces' = IF run.opened THEN With(traces, TaskRun, "exception") ELSE traces
  /\ UNCHANGED <<tree, second, episodes, documents, combined, runs>>
-----------------------------------------------------------------------------
(***************************************************************************)
(* One task: with --infer-presentation-spec, a reset and a request about   *)
(* the format first; then the reset, the trace and the turns.              *)
(***************************************************************************)
BeginTask ==
  /\ In("next") /\ run.todo # <<>>
  /\ Continue([run EXCEPT
       !.phase = IF run.kind = "pilot" /\ run.config.infer THEN "format" ELSE "reset",
       !.asked = 0, !.cold = FALSE])
  /\ UNCHANGED <<server, tree, second, disk, combined, runs, events>>

AfterReset ==
  IF run.phase = "format" THEN "infer"
  ELSE IF run.kind = "upstream" THEN "turns" ELSE "open"

\* Mutant: any answer to the reset will do.
ResetUnverified ==
  /\ In("format") \/ In("reset")
  /\ server.up
  /\ \E emptied \in BOOLEAN : server' = [server EXCEPT !.cached = @ /\ ~emptied]
  /\ Continue([run EXCEPT !.phase = AfterReset])
  /\ UNCHANGED <<tree, second, disk, combined, runs, events>>

\* before_episode: accepted when the server reports zero sequences and bytes.
Reset ==
  /\ In("format") \/ In("reset")
  /\ server.up
  /\ server' = [server EXCEPT !.cached = FALSE]
  /\ Continue([run EXCEPT !.phase = AfterReset])
  /\ UNCHANGED <<tree, second, disk, combined, runs, events>>

\* The reset did not get through, or left something.
ResetFails ==
  /\ In("format") \/ In("reset")
  /\ IF server.up THEN Event ELSE UNCHANGED events
  /\ Raised("infrastructure_invalid")
  /\ UNCHANGED server

\* Mutant: a second episode under an id is appended to the first.
OpenTraceAgain ==
  /\ In("open")
  /\ traces' = With(traces, TaskRun, "open")
  /\ Continue([run EXCEPT !.phase = "turns", !.opened = TRUE, !.ran = {tree.files}])
  /\ UNCHANGED <<server, tree, second, episodes, documents, combined, runs, events>>

\* Trace opens its file with "x"; no script catches FileExistsError.  Behind it the
\* root's session starts: worker.py comes from the files, not from the host.
OpenTrace ==
  /\ In("open")
  /\ IF TaskRun \in DOMAIN traces THEN Crash /\ UNCHANGED traces
     ELSE /\ traces' = With(traces, TaskRun, "open")
          /\ Continue([run EXCEPT !.phase = "turns", !.opened = TRUE,
                                  !.ran = {tree.files}])
  /\ UNCHANGED <<server, tree, second, episodes, documents, combined, runs, events>>

\* A request that is answered, and note_request: upstream has no manifest.
Answered(served, next) ==
  /\ server.up /\ server' = [server EXCEPT !.cached = TRUE]
  /\ IF served = "asked" THEN UNCHANGED events ELSE Event
  /\ Continue([next EXCEPT
       !.models = IF run.kind = "upstream" THEN @ ELSE @ \cup {served}])
  /\ UNCHANGED <<tree, second, disk, combined, runs>>

InferFormat(served) == In("infer") /\ Answered(served, [run EXCEPT !.phase = "reset"])

\* Mutant: the turns are not counted against the budget.
RootTurnUnlimited(served) ==
  /\ In("turns")
  /\ Answered(served, [run EXCEPT !.asked = @ + 1,
                        !.cold = IF run.asked = 0 THEN ~server.cached ELSE @])

RootTurn(served) ==
  /\ In("turns") /\ run.asked < MaxRequests
  /\ Answered(served, [run EXCEPT !.asked = @ + 1,
                        !.cold = IF run.asked = 0 THEN ~server.cached ELSE @])

\* A sub-call; one that fails is an error in the block, whatever its cause.
SubCall(served) ==
  /\ In("turns") /\ run.asked \in 1 .. MaxRequests - 1
  /\ Answered(served, [run EXCEPT !.asked = @ + 1])

\* A session that replaces a killed one, or the session of a child: from the files.
NewSession ==
  /\ In("turns") /\ run.asked > 0 /\ run.kind # "upstream"
  /\ Continue([run EXCEPT !.ran = @ \cup {tree.files}])
  /\ UNCHANGED <<server, tree, second, disk, combined, runs, events>>

\* HTTP 4xx and 5xx, or a body that is no JSON.
ErrorStatus ==
  /\ In("infer") \/ In("turns")
  /\ server.up /\ Event
  /\ Raised("infrastructure_invalid")
  /\ UNCHANGED server

\* The connection is gone: with the server, or over a generation.  dropped is
\* history: which of the two.
Dropped ==
  /\ In("infer") \/ In("turns")
  /\ IF server.up THEN Event ELSE UNCHANGED events
  /\ IF run.kind = "upstream" THEN Crash
     ELSE Continue([run EXCEPT !.phase = "probe",
                               !.dropped = IF server.up THEN "serving" ELSE "dead"])
  /\ UNCHANGED <<server, tree, second, disk, combined, runs>>

\* _classify asks the server, as it is now, whether it was the server.
Probe ==
  /\ In("probe")
  /\ Raised(IF server.up THEN "server_rejected_generation"
            ELSE "infrastructure_invalid")
  /\ UNCHANGED <<server, events>>

Finish ==
  /\ In("turns") /\ run.asked > 0
  /\ Continue([run EXCEPT !.phase = "save"])
  /\ traces' = IF run.opened THEN With(traces, TaskRun, "done") ELSE traces
  /\ UNCHANGED <<server, tree, second, episodes, documents, combined, runs, events>>

\* episode.json, and the script scores the episode it was handed.  host and
\* workers are history: the versions of the code that ran.
Episode == [host |-> run.version, workers |-> run.ran, cold |-> run.cold,
            models |-> run.models]

Completed == [task |-> Head(run.todo), status |-> "completed", run |-> TaskRun,
              episode |-> Episode]

Save ==
  /\ In("save")
  /\ episodes' = IF run.opened THEN With(episodes, TaskRun, Episode) ELSE episodes
  /\ Recorded(Completed, Tail(run.todo))
  /\ UNCHANGED <<server, tree, second, traces, documents, combined, runs, events>>

\* The document: one path for all runs of a suite, or addressed by the run.
Path == IF run.kind \in {"suite", "smoke"} THEN <<run.kind>>
        ELSE <<run.kind, run.second>>

StayedPut(models) == "other" \notin models    \* an answer may name no model

\* formal = not code_dirty: None is as good as False.
Document ==
  [kind |-> run.kind, config |-> run.config, commit |-> run.commit,
   dirty |-> run.dirty, contracts |-> run.contracts, argv |-> run.argv,
   models |-> run.models, given |-> run.given, results |-> run.results,
   version |-> run.version, files |-> run.files, edited |-> run.edited,
   counts |-> run.kind \in {"suite", "smoke"} /\ run.dirty # "dirty"
              /\ StayedPut(run.models)]

Write ==
  /\ In("next") /\ run.todo = <<>>
  /\ documents' = With(documents, Path, Document)
  /\ run' = NoRun
  /\ UNCHANGED <<server, tree, second, traces, episodes, combined, runs, events>>

Script ==
  \/ \E dirty \in {CodeDirty, "unknown"}, allowDirty \in BOOLEAN :
       Manifest(dirty, allowDirty)
  \/ NewSession \/ BeginTask \/ Reset \/ ResetFails \/ OpenTrace
  \/ \E served \in Served : InferFormat(served) \/ RootTurn(served) \/ SubCall(served)
  \/ ErrorStatus \/ Dropped \/ Probe \/ Finish \/ Save \/ Write
-----------------------------------------------------------------------------
(***************************************************************************)
(* Around a run.  The clock is read at a start only, so it stands still    *)
(* while a script runs.                                                    *)
(***************************************************************************)
ServerDies ==
  /\ server.up /\ Event /\ server' = [up |-> FALSE, cached |-> FALSE]
  /\ UNCHANGED <<tree, second, run, disk, combined, runs>>
ServerRestarts ==
  /\ ~server.up /\ server' = [server EXCEPT !.up = TRUE]
  /\ UNCHANGED <<tree, second, run, disk, combined, runs, events>>
Killed ==
  /\ Alive /\ Event /\ run' = NoRun
  /\ UNCHANGED <<server, tree, second, disk, combined, runs>>
Tick ==
  /\ BetweenRuns /\ second < MaxSecond /\ second' = second + 1
  /\ UNCHANGED <<server, tree, run, disk, combined, runs, events>>
Edit ==
  /\ Event
  /\ \E v \in Versions \ {tree.files} : tree' = [tree EXCEPT !.files = v]
  /\ run' = IF Alive THEN [run EXCEPT !.edited = TRUE] ELSE run
  /\ UNCHANGED <<server, second, disk, combined, runs>>
Commit ==
  /\ CodeDirty = "dirty" /\ Event
  /\ tree' = [tree EXCEPT !.commit = tree.files]
  /\ UNCHANGED <<server, second, run, disk, combined, runs>>
-----------------------------------------------------------------------------
(***************************************************************************)
(* consolidate_pair_results: the shards in the order of the command line.  *)
(***************************************************************************)
Signature(d) == <<d.config, d.commit, d.contracts, d.argv, d.models>>

\* Everything a manifest is held to; code_dirty is no part of the signature.
Comparable(shards) ==
  /\ \A i, j \in DOMAIN shards : Signature(shards[i]) = Signature(shards[j])
  /\ shards[1].dirty = "clean" /\ shards[1].config.mode = "validate_repair" /\ shards[1].argv
  /\ \A i \in DOMAIN shards : StayedPut(shards[i].models)

Results(shards) == FlattenSeq([i \in DOMAIN shards |-> shards[i].results])

\* Mutant: the shards may have a task twice, the later one replaces it.
EachTaskAtLeastOnce(results) == {results[i].task : i \in DOMAIN results} = ToSet(Tasks)
EachTaskOnce(results) ==
  /\ \A i, j \in DOMAIN results : results[i].task = results[j].task => i = j
  /\ {results[i].task : i \in DOMAIN results} = ToSet(Tasks)

\* The episode on disk is there, and is the one that was scored.
Verified(r) ==
  /\ r.status = "completed" /\ r.run \in DOMAIN episodes
  /\ episodes[r.run] = r.episode

Consolidate(paths) ==
  LET shards == [i \in DOMAIN paths |-> documents[paths[i]]]
      results == Results(shards)
  IN /\ run = NoRun /\ combined = NoRun
     /\ Comparable(shards) /\ EachTaskOnce(results)
     /\ \A i \in DOMAIN results : Verified(results[i])
     /\ combined' = [commit |-> shards[1].commit, results |-> results,
                     files |-> {shards[i].files : i \in DOMAIN shards}]
     /\ UNCHANGED <<server, tree, second, run, disk, runs, events>>

\* A command line may name a shard twice.
Shards == {p \in DOMAIN documents : documents[p].kind = "pilot"}

Next ==
  /\ UNCHANGED script
  /\ \/ \E todo \in Selections, config \in Options : Start(todo, config)
     \/ Script \/ ServerDies \/ ServerRestarts \/ Killed \/ Tick \/ Edit \/ Commit
     \/ \E paths \in SeqOf(Shards, MaxRuns + 1) : paths # <<>> /\ Consolidate(paths)

Spec == Init /\ [][Next]_vars
-----------------------------------------------------------------------------
\* An episode whose evidence exists was served from an empty cache at its first
\* root request: whatever failed, crashed or was asked about the format before
\* it (MLXPromptCacheIsolation, "before every root episode").
CleanStart ==
  /\ \A id \in DOMAIN episodes : episodes[id].cold
  /\ \A p \in DOMAIN documents : \A i \in DOMAIN documents[p].results :
       documents[p].results[i].status = "completed"
         => documents[p].results[i].episode.cold

\* A document says what became of each task it was given, in order, a repeated one
\* included; only a pilot stops early, at a failure, which is its last record.  A
\* completed record is the episode on disk, its trace closed; a decision had no
\* other model (run_suite.py, run_pairs_pilot.py).  A manifest that read a clean
\* tree tells the code that ran, the workers' too, if nobody edited it meanwhile.
DocumentIsWhole ==
  \A p \in DOMAIN documents :
    LET d == documents[p]
    IN /\ Len(d.results) <= Len(d.given)
       /\ Len(d.results) < Len(d.given) =>
            d.kind = "pilot" /\ d.results # <<>> /\ Last(d.results).status # "completed"
       /\ \A i \in DOMAIN d.results :
            /\ d.results[i].task = d.given[i]
            /\ d.kind = "pilot" /\ d.results[i].status # "completed"
                 => i = Len(d.results)
            /\ d.results[i].status = "completed" =>
                 /\ d.kind # "upstream" =>
                      Verified(d.results[i]) /\ traces[d.results[i].run] = "done"
                 /\ d.counts => "other" \notin d.results[i].episode.models
                 /\ d.dirty = "clean" /\ ~d.edited =>
                      /\ d.results[i].episode.host = d.commit
                      /\ d.results[i].episode.workers \subseteq {d.commit}

\* What run_suite.py:6-8 and smoke.py:181-185 say of a decision: "a dirty working
\* tree is refused".  The files were the commit when the manifest was taken.
DecisionIsClean ==
  \A p \in DOMAIN documents :
    documents[p].counts => documents[p].files = documents[p].commit

\* What they give as the reason: the commit of a decision whose tree was clean
\* describes "the code that produced it", host and workers.
DecisionRanCommit ==
  \A p \in DOMAIN documents : \A i \in DOMAIN documents[p].results :
    LET d == documents[p]
    IN d.counts /\ d.dirty = "clean" /\ d.results[i].status = "completed" =>
         {d.results[i].episode.host} \cup d.results[i].episode.workers = {d.commit}

\* What run_suite.py:71-74 says of the probe: "what keeps a parser crash from being
\* filed as infrastructure".  A dropped request is filed by what the server was then.
DropsFiledRight ==
  \A p \in DOMAIN documents : \A i \in DOMAIN documents[p].results :
    LET r == documents[p].results[i]
    IN r.status # "completed" /\ r.dropped # "no" =>
         (r.status = "server_rejected_generation" <=> r.dropped = "serving")

\* Evidence is never rewritten: the episode of a run directory and the trace that
\* was closed for it stay as they are, also when two runs have the same name
\* (Trace: "a run id is an evidence identity").
EvidenceStays ==
  [][/\ \A id \in DOMAIN episodes :
          id \in DOMAIN episodes' /\ episodes'[id] = episodes[id]
     /\ \A id \in DOMAIN traces :
          traces[id] # "open" => id \in DOMAIN traces' /\ traces'[id] = traces[id]]_vars

\* A consolidated measurement has every task of the set once, each from a
\* completed episode on disk that started cold, on a host whose contract is the
\* same for all of them, and no answer of it came from another model (consolidate.py).
ConsolidatedIsWhole ==
  combined # NoRun =>
    LET rs == combined.results
    IN /\ Len(rs) = Len(Tasks) /\ {rs[i].task : i \in DOMAIN rs} = ToSet(Tasks)
       /\ \A i \in DOMAIN rs :
            /\ rs[i].status = "completed" /\ rs[i].episode.cold
            /\ "other" \notin rs[i].episode.models
            /\ rs[i].run \in DOMAIN episodes /\ traces[rs[i].run] = "done"
            /\ Surface[rs[i].episode.host] = Surface[rs[1].episode.host]

\* What consolidate.py:153 says of its result, "formal consolidation requires a
\* clean code commit": every shard in it was begun on the commit it is filed under.
ConsolidatedIsClean == combined # NoRun => combined.files = {combined.commit}
=============================================================================
