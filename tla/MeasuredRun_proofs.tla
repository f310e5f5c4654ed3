------------------------- MODULE MeasuredRun_proofs -------------------------
(***************************************************************************)
(* MeasuredRun's type invariant, its three safety invariants and its       *)
(* action property, for every set of tasks, of versions, of scripts and of *)
(* options, and every number of runs, requests and events from outside.    *)
(*                                                                         *)
(* The invariant ties the running script to the disk: what its phase says  *)
(* of the trace it has opened and of the server's cache, what its results  *)
(* and the tasks left say of the tasks it was given, and that each         *)
(* completed result is the episode on disk.  Of the code it says only what *)
(* the scripts can know: as long as nobody has edited the checkout, the    *)
(* files, and so the workers, are of the version the host loaded.  A step  *)
(* that only adds to the disk (Kept) leaves the results of all runs and    *)
(* documents as they were; so each action is one of four kinds: the run is *)
(* gone (RunGone), is as it was (RunStays), goes on with its tasks         *)
(* (RunMoves, RunContinues), or has ended one (TaskEnds).                  *)
(*                                                                         *)
(* The last part is about PairsScoring: what the answers of such a run     *)
(* score, and what its audit finds.                                        *)
(***************************************************************************)
EXTENDS MeasuredRun, PairsScoring, FiniteSetTheorems, SequenceTheorems, WellFoundedInduction, TLAPS

Phases == {"load", "next", "format", "infer", "reset", "open", "turns", "probe", "save"}
Failures == {"infrastructure_invalid", "server_rejected_generation"}
Ids == Kinds \X Nat \X Nat
EpisodeRecord == [host : Versions, workers : SUBSET Versions, cold : BOOLEAN,
                  models : SUBSET Served]
Losses == {"no", "serving", "dead"}
Failed == [task : ToSet(Tasks), status : Failures, dropped : Losses]
Complete == [task : ToSet(Tasks), status : {"completed"}, run : Ids,
             episode : EpisodeRecord]
Result == Failed \cup Complete
Answers == {"clean", "dirty", "unknown"}
Config == [mode : {"raw", "validate_repair"}, infer : BOOLEAN]
RunRecord ==
  [kind : Kinds, second : Nat, phase : Phases, version : Versions,
   edited : BOOLEAN, commit : Versions, dirty : Answers, files : Versions,
   contracts : Nat \X Nat, argv : BOOLEAN, config : Config,
   given : Seq(ToSet(Tasks)), todo : Seq(ToSet(Tasks)), results : Seq(Result),
   models : SUBSET Served, asked : 0 .. MaxRequests, cold : BOOLEAN,
   opened : BOOLEAN, ran : SUBSET Versions, dropped : Losses]

\* The types, without those of a run's results.
Shape ==
  /\ server \in [up : BOOLEAN, cached : BOOLEAN]
  /\ tree \in [commit : Versions, files : Versions]
  /\ script \in Kinds /\ second \in 1 .. MaxSecond
  /\ runs \in 0 .. MaxRuns /\ events \in 0 .. MaxEvents
RunTyped == run # NoRun => run \in RunRecord /\ run.kind = script

\* What a phase says of the task, of its trace and of the server's cache.
TaskOf(r) == <<r.kind, r.second, Head(r.todo)>>
PhaseFits(r) ==
  /\ r.phase \notin {"load", "next"} => r.todo # <<>>
  /\ r.opened => r.phase \in {"turns", "probe", "save"}
  /\ r.kind # "upstream" /\ r.phase \in {"turns", "save"} => r.opened
  /\ r.phase \in {"format", "infer", "reset", "open"} => r.asked = 0
CacheFits(r, cached) ==
  /\ r.phase = "open" => ~cached
  /\ r.phase = "turns" => IF r.asked = 0 THEN ~cached ELSE r.cold
  /\ r.phase = "save" => r.cold
TraceFits(r) ==
  r.opened =>
    /\ TaskOf(r) \in DOMAIN traces /\ TaskOf(r) \notin DOMAIN episodes
    /\ traces[TaskOf(r)] = IF r.phase = "save" THEN "done" ELSE "open"
\* The code that a run has loaded and started, and what its manifest says of it.
CodeFits(r) ==
  /\ ~r.edited => tree.files = r.version /\ r.ran \subseteq {r.version}
  /\ r.dirty = "clean" /\ ~r.edited => r.commit = r.version
  /\ r.contracts[1] = Surface[r.version]

Phased ==
  run # NoRun =>
    PhaseFits(run) /\ CacheFits(run, server.cached) /\ TraceFits(run) /\ CodeFits(run)

\* The tasks with a result and those to do are, in order, those the run was given;
\* but a pilot does none after a failure.
TasksFit(kind, given, results, todo) ==
  /\ Len(results) + Len(todo) <= Len(given)
  /\ \A i \in 1 .. Len(results) : results[i].task = given[i]
  /\ \A i \in 1 .. Len(todo) : todo[i] = given[Len(results) + i]
  /\ \A i \in 1 .. Len(results) :
       kind = "pilot" /\ results[i].status # "completed"
         => i = Len(results) /\ todo = <<>>
  /\ Len(results) + Len(todo) < Len(given) =>
       /\ kind = "pilot" /\ Len(results) > 0
       /\ results[Len(results)].status # "completed"

\* A completed result: its episode, and where that is on disk.
OnDisk(eps, trs, r) ==
  r.run \in DOMAIN eps /\ eps[r.run] = r.episode /\ trs[r.run] = "done"
ResultFits(eps, trs, d, r) ==
  r.status = "completed" =>
    /\ r.episode.cold /\ r.episode.host = d.version
    /\ ~d.edited => r.episode.workers \subseteq {d.version}
    /\ r.episode.models \subseteq d.models
    /\ d.kind # "upstream" => OnDisk(eps, trs, r)
ResultsFit(eps, trs, d) ==
  \A i \in 1 .. Len(d.results) : ResultFits(eps, trs, d, d.results[i])

RunFits ==
  run # NoRun =>
    /\ TasksFit(run.kind, run.given, run.results, run.todo)
    /\ ResultsFit(episodes, traces, run)

\* A document: what it says of its tasks and of the code that ran.
DocumentFits(d) ==
  /\ d.results \in Seq(Result) /\ d.given \in Seq(ToSet(Tasks))
  /\ TasksFit(d.kind, d.given, d.results, <<>>)
  /\ d.counts => "other" \notin d.models
  /\ d.dirty = "clean" /\ ~d.edited => d.commit = d.version
  /\ d.contracts[1] = Surface[d.version]

DocumentsFit ==
  \A p \in DOMAIN documents :
    DocumentFits(documents[p]) /\ ResultsFit(episodes, traces, documents[p])

\* What is on disk of an episode.
Evidence ==
  /\ \A id \in DOMAIN traces : traces[id] \in {"open", "exception", "done"}
  /\ \A id \in DOMAIN episodes :
       id \in DOMAIN traces /\ traces[id] = "done" /\ episodes[id].cold

IInv ==
  /\ Shape
  /\ RunTyped
  /\ Phased
  /\ RunFits
  /\ DocumentsFit
  /\ Evidence
  /\ ConsolidatedIsWhole

\* No step rewrites an episode or a trace that was closed.
Kept ==
  /\ \A id \in DOMAIN episodes :
       id \in DOMAIN episodes' /\ episodes'[id] = episodes[id]
  /\ \A id \in DOMAIN traces :
       traces[id] # "open" => id \in DOMAIN traces' /\ traces'[id] = traces[id]

\* What has to hold after a step.
HoldsAfter ==
  /\ RunTyped' /\ Phased' /\ RunFits' /\ DocumentsFit' /\ Evidence' /\ Kept
HoldsBefore == Shape /\ RunTyped /\ Phased /\ RunFits /\ DocumentsFit /\ Evidence
-----------------------------------------------------------------------------
\* The fields of a run that an action leaves, and those it sets.
Same(r, s) ==
  s.kind = r.kind /\ s.second = r.second /\ s.version = r.version /\ s.given = r.given
SameTasks(r, s) == Same(r, s) /\ s.todo = r.todo /\ s.results = r.results
SameCode(r, s) ==
  /\ s.edited = r.edited /\ s.commit = r.commit /\ s.dirty = r.dirty
  /\ s.contracts = r.contracts

InPhase(r, p) == [r EXCEPT !.phase = p]
Opened(r, v) == [r EXCEPT !.phase = "turns", !.opened = TRUE, !.ran = v]
Ran(r, v) == [r EXCEPT !.ran = v]
Edited(r) == [r EXCEPT !.edited = TRUE]
Lost(r, d) == [r EXCEPT !.phase = "probe", !.dropped = d]
Begun(r, p) == [r EXCEPT !.phase = p, !.asked = 0, !.cold = FALSE]
ModelsOf(r, m) == [r EXCEPT !.models = m]
Asked(r, a) == [r EXCEPT !.asked = a]
AskedFirst(r, a, c) == [r EXCEPT !.asked = a, !.cold = c]
Manifested(r, c, d, f, k, a) ==
  [r EXCEPT !.phase = "next", !.commit = c, !.dirty = d, !.files = f,
            !.contracts = k, !.argv = a]
Ended(r, results, todo) ==
  [r EXCEPT !.results = results, !.todo = todo, !.phase = "next", !.opened = FALSE,
            !.ran = {}, !.dropped = "no"]

\* A run that a step leaves as it is, but for the fields named.
LEMMA PhaseSet ==
  ASSUME NEW r \in RunRecord, NEW p \in Phases
  PROVE  /\ InPhase(r, p) \in RunRecord /\ SameTasks(r, InPhase(r, p))
         /\ SameCode(r, InPhase(r, p))
         /\ InPhase(r, p).phase = p
         /\ InPhase(r, p).models = r.models
         /\ InPhase(r, p).opened = r.opened
         /\ InPhase(r, p).asked = r.asked
         /\ InPhase(r, p).cold = r.cold
         /\ InPhase(r, p).ran = r.ran
BY DEF RunRecord, SameTasks, Same, SameCode, InPhase

LEMMA OpenedSet ==
  ASSUME NEW r \in RunRecord, NEW v \in SUBSET Versions
  PROVE  /\ Opened(r, v) \in RunRecord /\ SameTasks(r, Opened(r, v))
         /\ SameCode(r, Opened(r, v))
         /\ Opened(r, v).phase = "turns"
         /\ Opened(r, v).models = r.models
         /\ Opened(r, v).opened = TRUE
         /\ Opened(r, v).asked = r.asked
         /\ Opened(r, v).cold = r.cold
         /\ Opened(r, v).ran = v
BY DEF RunRecord, SameTasks, Same, SameCode, Phases, Opened

LEMMA RanSet ==
  ASSUME NEW r \in RunRecord, NEW v \in SUBSET Versions
  PROVE  /\ Ran(r, v) \in RunRecord /\ SameTasks(r, Ran(r, v))
         /\ SameCode(r, Ran(r, v))
         /\ Ran(r, v).phase = r.phase
         /\ Ran(r, v).models = r.models
         /\ Ran(r, v).opened = r.opened
         /\ Ran(r, v).asked = r.asked
         /\ Ran(r, v).cold = r.cold
         /\ Ran(r, v).ran = v
BY DEF RunRecord, SameTasks, Same, SameCode, Ran

LEMMA EditedSet ==
  ASSUME NEW r \in RunRecord
  PROVE  /\ Edited(r) \in RunRecord /\ SameTasks(r, Edited(r))
         /\ Edited(r).edited = TRUE /\ Edited(r).contracts = r.contracts
         /\ Edited(r).phase = r.phase /\ Edited(r).models = r.models
         /\ Edited(r).opened = r.opened /\ Edited(r).asked = r.asked
         /\ Edited(r).cold = r.cold
BY DEF RunRecord, SameTasks, Same, Edited

LEMMA LostSet ==
  ASSUME NEW r \in RunRecord, NEW d \in Losses
  PROVE  /\ Lost(r, d) \in RunRecord /\ SameTasks(r, Lost(r, d))
         /\ SameCode(r, Lost(r, d))
         /\ Lost(r, d).phase = "probe"
         /\ Lost(r, d).models = r.models
         /\ Lost(r, d).opened = r.opened
         /\ Lost(r, d).asked = r.asked
         /\ Lost(r, d).cold = r.cold
         /\ Lost(r, d).ran = r.ran
BY DEF RunRecord, SameTasks, Same, SameCode, Phases, Lost

LEMMA TaskBegun ==
  ASSUME NEW r \in RunRecord, NEW p \in Phases
  PROVE  /\ Begun(r, p) \in RunRecord /\ SameTasks(r, Begun(r, p))
         /\ SameCode(r, Begun(r, p))
         /\ Begun(r, p).phase = p
         /\ Begun(r, p).models = r.models
         /\ Begun(r, p).opened = r.opened
         /\ Begun(r, p).asked = 0
         /\ Begun(r, p).ran = r.ran
<1>. 0 \in 0 .. MaxRequests BY MeasuredAssumption
<1> QED BY DEF RunRecord, SameTasks, Same, SameCode, Begun

LEMMA ModelsSet ==
  ASSUME NEW r \in RunRecord, NEW m \in SUBSET Served
  PROVE  /\ ModelsOf(r, m) \in RunRecord /\ SameTasks(r, ModelsOf(r, m))
         /\ SameCode(r, ModelsOf(r, m))
         /\ ModelsOf(r, m).phase = r.phase
         /\ ModelsOf(r, m).models = m
         /\ ModelsOf(r, m).opened = r.opened
         /\ ModelsOf(r, m).asked = r.asked
         /\ ModelsOf(r, m).cold = r.cold
         /\ ModelsOf(r, m).ran = r.ran
BY DEF RunRecord, SameTasks, Same, SameCode, ModelsOf

LEMMA AskedSet ==
  ASSUME NEW r \in RunRecord, NEW a \in 0 .. MaxRequests
  PROVE  /\ Asked(r, a) \in RunRecord /\ SameTasks(r, Asked(r, a))
         /\ SameCode(r, Asked(r, a))
         /\ Asked(r, a).phase = r.phase
         /\ Asked(r, a).models = r.models
         /\ Asked(r, a).opened = r.opened
         /\ Asked(r, a).asked = a
         /\ Asked(r, a).cold = r.cold
         /\ Asked(r, a).ran = r.ran
BY DEF RunRecord, SameTasks, Same, SameCode, Asked

LEMMA FirstAskedSet ==
  ASSUME NEW r \in RunRecord, NEW a \in 0 .. MaxRequests, NEW c \in BOOLEAN
  PROVE  /\ AskedFirst(r, a, c) \in RunRecord /\ SameTasks(r, AskedFirst(r, a, c))
         /\ SameCode(r, AskedFirst(r, a, c))
         /\ AskedFirst(r, a, c).phase = r.phase
         /\ AskedFirst(r, a, c).models = r.models
         /\ AskedFirst(r, a, c).opened = r.opened
         /\ AskedFirst(r, a, c).asked = a
         /\ AskedFirst(r, a, c).cold = c
         /\ AskedFirst(r, a, c).ran = r.ran
<1>1. CASE c = TRUE  BY <1>1 DEF RunRecord, SameTasks, Same, SameCode, AskedFirst
<1>2. CASE c = FALSE BY <1>2 DEF RunRecord, SameTasks, Same, SameCode, AskedFirst
<1> QED BY <1>1, <1>2

LEMMA ManifestSet ==
  ASSUME NEW r \in RunRecord, NEW c \in Versions, NEW d \in Answers, NEW f \in Versions,
         NEW k \in Nat \X Nat, NEW a \in BOOLEAN,
         NEW s, s = Manifested(r, c, d, f, k, a)
  PROVE  /\ s \in RunRecord /\ SameTasks(r, s)
         /\ s.edited = r.edited /\ s.commit = c /\ s.dirty = d /\ s.contracts = k
         /\ s.ran = r.ran /\ s.phase = "next" /\ s.models = r.models
         /\ s.opened = r.opened
<1>1. CASE a = TRUE  BY <1>1 DEF RunRecord, SameTasks, Same, Phases, Manifested
<1>2. CASE a = FALSE BY <1>2 DEF RunRecord, SameTasks, Same, Phases, Manifested
<1> QED BY <1>1, <1>2

LEMMA TaskEnded ==
  ASSUME NEW r \in RunRecord, NEW results \in Seq(Result),
         NEW todo \in Seq(ToSet(Tasks)), NEW s, s = Ended(r, results, todo)
  PROVE  s \in RunRecord /\ Same(r, s) /\ SameCode(r, s)
BY DEF RunRecord, Same, SameCode, Phases, Losses, Ended
-----------------------------------------------------------------------------
\* A trace is written at a name that has none, or one that is open and has no
\* episode.
LEMMA TraceWritten ==
  ASSUME Evidence, NEW t, NEW v \in {"open", "exception", "done"},
         t \in DOMAIN traces => traces[t] = "open" /\ t \notin DOMAIN episodes,
         traces' = With(traces, t, v), UNCHANGED episodes
  PROVE  Evidence' /\ Kept
<1>1. /\ DOMAIN traces' = DOMAIN traces \cup {t}
      /\ traces'[t] = v
      /\ \A y \in DOMAIN traces : y # t => traces'[y] = traces[y]
  BY DEF With
<1>2. \A id \in DOMAIN episodes : id # t /\ id \in DOMAIN traces BY DEF Evidence
<1> QED BY <1>1, <1>2 DEF Evidence, Kept

LEMMA DiskUnchanged ==
  ASSUME Evidence, UNCHANGED disk
  PROVE  Evidence' /\ Kept
BY DEF Evidence, Kept, disk

\* What is kept on disk keeps a result whole.
LEMMA ResultKept ==
  ASSUME Evidence, Kept
  PROVE  \A d, r : ResultFits(episodes, traces, d, r) => ResultFits(episodes', traces', d, r)
<1> SUFFICES ASSUME NEW r, OnDisk(episodes, traces, r)
             PROVE  OnDisk(episodes', traces', r)
  BY DEF ResultFits
<1>1. r.run \in DOMAIN traces /\ traces[r.run] # "open" BY DEF OnDisk, Evidence
<1> QED BY <1>1 DEF OnDisk, Kept

LEMMA ResultsKept ==
  ASSUME Evidence, Kept
  PROVE  \A d : ResultsFit(episodes, traces, d) => ResultsFit(episodes', traces', d)
BY ResultKept DEF ResultsFit

\* Documents that no one writes stay whole when the disk is kept.
LEMMA DocumentsKept ==
  ASSUME Evidence, Kept, DocumentsFit, UNCHANGED documents
  PROVE  DocumentsFit'
BY ResultsKept DEF DocumentsFit, DocumentFits

\* So does the consolidated document.
LEMMA ConsolidatedKept ==
  ASSUME Evidence, Kept, ConsolidatedIsWhole, UNCHANGED combined
  PROVE  ConsolidatedIsWhole'
<1> SUFFICES ASSUME combined # NoRun PROVE ConsolidatedIsWhole'
  BY DEF ConsolidatedIsWhole
<1> DEFINE rs == combined.results
<1>1. \A i \in DOMAIN rs :
        /\ rs[i].run \in DOMAIN episodes' /\ traces'[rs[i].run] = "done"
  <2> SUFFICES ASSUME NEW i \in DOMAIN rs
               PROVE  rs[i].run \in DOMAIN episodes' /\ traces'[rs[i].run] = "done"
    OBVIOUS
  <2>1. rs[i].run \in DOMAIN episodes /\ traces[rs[i].run] = "done"
    BY DEF ConsolidatedIsWhole
  <2> QED BY <2>1 DEF Evidence, Kept
<1> QED BY <1>1 DEF ConsolidatedIsWhole

\* A run that goes on with the tasks, the results and the models it has, or more.
LEMMA RunKept ==
  ASSUME Evidence, Kept, RunFits, run # NoRun, run \in RunRecord,
         SameTasks(run, run'), run.models \subseteq run'.models, run.edited => run'.edited
  PROVE  RunFits'
<1>1. ResultsFit(episodes', traces', run) BY ResultsKept DEF RunFits
<1>2. ResultsFit(episodes', traces', run')
  <2> SUFFICES ASSUME NEW i \in 1 .. Len(run.results)
               PROVE  ResultFits(episodes', traces', run', run.results[i])
    BY DEF ResultsFit, SameTasks, Same
  <2>1. ResultFits(episodes', traces', run, run.results[i]) BY <1>1 DEF ResultsFit
  <2> QED BY <2>1 DEF ResultFits, SameTasks, Same
<1> QED BY <1>2 DEF RunFits, SameTasks, Same

\* A result for the head of the tasks to do: the tasks still fit.
LEMMA Appended ==
  ASSUME NEW kind, NEW given \in Seq(ToSet(Tasks)), NEW results \in Seq(Result),
         NEW todo \in Seq(ToSet(Tasks)), NEW r \in Result, NEW rest,
         TasksFit(kind, given, results, todo), todo # <<>>, r.task = Head(todo),
         \/ rest = Tail(todo)
         \/ kind = "pilot" /\ rest = <<>> /\ r.status # "completed",
         kind = "pilot" /\ r.status # "completed" => rest = <<>>
  PROVE  TasksFit(kind, given, Append(results, r), rest)
<1> DEFINE more == Append(results, r)
<1>1. PICK n \in Nat : n = Len(results) BY LenProperties
<1>2. PICK m \in Nat : m = Len(todo) /\ m > 0 BY LenProperties, EmptySeq
<1>3. PICK g \in Nat : g = Len(given) BY LenProperties
<1>4. /\ Len(more) = n + 1
      /\ \A i \in 1 .. n : more[i] = results[i]
      /\ more[n + 1] = r
  BY <1>1, AppendProperties
<1>5. PICK l \in Nat :
        /\ l = Len(rest) /\ l <= m - 1
        /\ \A i \in 1 .. l : rest[i] = todo[i + 1]
        /\ l < m - 1 => kind = "pilot" /\ r.status # "completed"
  <2>1. CASE rest = Tail(todo)
    <3>1. Len(rest) = m - 1 /\ \A i \in 1 .. m - 1 : rest[i] = todo[i + 1]
      BY <2>1, <1>2, HeadTailProperties
    <3>2. m - 1 \in Nat BY <1>2
    <3> QED BY <3>1, <3>2
  <2>2. CASE kind = "pilot" /\ rest = <<>> /\ r.status # "completed"
    <3>1. Len(rest) = 0 BY <2>2
    <3> QED BY <3>1, <2>2, <1>2
  <2> QED BY <2>1, <2>2
<1>6. /\ n + m = g
      /\ \A i \in 1 .. n : results[i].task = given[i]
      /\ \A i \in 1 .. m : todo[i] = given[n + i]
      /\ kind = "pilot" => \A i \in 1 .. n : results[i].status = "completed"
  <2>1. n + m <= g BY <1>1, <1>2, <1>3 DEF TasksFit
  <2>2. ~(n + m < g)
    <3> SUFFICES ASSUME n + m < g PROVE FALSE OBVIOUS
    <3>1. kind = "pilot" /\ n > 0 /\ results[n].status # "completed"
      BY <1>1, <1>2, <1>3 DEF TasksFit
    <3>2. n \in 1 .. n BY <3>1
    <3> QED BY <3>1, <3>2, <1>1 DEF TasksFit
  <2>3. n + m = g BY <2>1, <2>2
  <2> QED BY <2>3, <1>1, <1>2 DEF TasksFit
<1>7. r.task = given[n + 1]
  <2>1. Head(todo) = todo[1] BY HeadTailProperties
  <2>2. 1 \in 1 .. m BY <1>2
  <2> QED BY <2>1, <2>2, <1>6
<1> HIDE DEF more
<1>8. (n + 1) + l <= g BY <1>5, <1>6
<1>9. \A i \in 1 .. n + 1 : more[i].task = given[i]
  <2> SUFFICES ASSUME NEW i \in 1 .. n + 1 PROVE more[i].task = given[i] OBVIOUS
  <2>1. CASE i = n + 1 BY <2>1, <1>4, <1>7
  <2>2. CASE i # n + 1
    <3>1. i \in 1 .. n BY <2>2
    <3> QED BY <3>1, <1>4, <1>6
  <2> QED BY <2>1, <2>2
<1>10. \A i \in 1 .. l : rest[i] = given[(n + 1) + i]
  <2> SUFFICES ASSUME NEW i \in 1 .. l PROVE rest[i] = given[(n + 1) + i] OBVIOUS
  <2>1. i + 1 \in 1 .. m /\ n + (i + 1) = (n + 1) + i BY <1>5
  <2>2. rest[i] = todo[i + 1] BY <1>5
  <2>3. todo[i + 1] = given[n + (i + 1)] BY <2>1, <1>6
  <2> QED BY <2>1, <2>2, <2>3
<1>11. \A i \in 1 .. n + 1 :
         kind = "pilot" /\ more[i].status # "completed" => i = n + 1 /\ rest = <<>>
  <2> SUFFICES ASSUME NEW i \in 1 .. n + 1, kind = "pilot", more[i].status # "completed"
               PROVE  i = n + 1 /\ rest = <<>>
    OBVIOUS
  <2>1. i = n + 1
    <3> SUFFICES ASSUME i # n + 1 PROVE FALSE OBVIOUS
    <3>1. i \in 1 .. n OBVIOUS
    <3> QED BY <3>1, <1>4, <1>6
  <2> QED BY <2>1, <1>4
<1>12. (n + 1) + l < g => kind = "pilot" /\ n + 1 > 0 /\ more[n + 1].status # "completed"
  BY <1>4, <1>5, <1>6
<1> QED BY <1>3, <1>4, <1>5, <1>8, <1>9, <1>10, <1>11, <1>12 DEF TasksFit, more
-----------------------------------------------------------------------------
\* The script has stopped: nothing is left to hold of it.
LEMMA RunGone ==
  ASSUME HoldsBefore, Evidence', Kept, UNCHANGED documents, run' = NoRun
  PROVE  HoldsAfter
<1>1. DocumentsFit' BY DocumentsKept DEF HoldsBefore
<1> QED BY <1>1 DEF HoldsAfter, RunTyped, Phased, RunFits

\* A step of the world around the run; the server's cache may empty.
LEMMA RunStays ==
  ASSUME HoldsBefore, UNCHANGED <<script, run, disk, documents>>,
         server'.cached = server.cached \/ server'.cached = FALSE,
         run = NoRun \/ tree'.files = tree.files
  PROVE  HoldsAfter
<1>1. Evidence' /\ Kept BY DiskUnchanged DEF HoldsBefore
<1>2. DocumentsFit' BY <1>1, DocumentsKept DEF HoldsBefore
<1>3. RunTyped' BY DEF HoldsBefore, RunTyped
<1>4. RunFits' BY <1>1, ResultsKept DEF HoldsBefore, RunFits
<1>5. Phased'
  <2> SUFFICES ASSUME run # NoRun
               PROVE  /\ PhaseFits(run') /\ CacheFits(run', server'.cached)
                      /\ TraceFits(run)' /\ CodeFits(run)'
    BY DEF Phased, TraceFits, CodeFits
  <2>1. /\ PhaseFits(run) /\ CacheFits(run, server.cached)
        /\ TraceFits(run) /\ CodeFits(run)
    BY DEF HoldsBefore, Phased
  <2>2. TraceFits(run)' BY <2>1 DEF TraceFits, TaskOf, disk
  <2>3. CodeFits(run)' BY <2>1 DEF CodeFits
  <2>4. CacheFits(run', server'.cached) BY <2>1 DEF CacheFits
  <2> QED BY <2>1, <2>2, <2>3, <2>4
<1> QED BY <1>1, <1>2, <1>3, <1>4, <1>5 DEF HoldsAfter

\* A step between the tasks or within one.
LEMMA RunMoves ==
  ASSUME HoldsBefore, run # NoRun, Evidence', Kept, UNCHANGED <<script, documents>>,
         run' \in RunRecord, SameTasks(run, run'), run.models \subseteq run'.models,
         run.edited => run'.edited,
         PhaseFits(run'), CacheFits(run', server'.cached), TraceFits(run)', CodeFits(run)'
  PROVE  HoldsAfter
<1>1. DocumentsFit' BY DocumentsKept DEF HoldsBefore
<1>2. RunTyped' BY DEF HoldsBefore, RunTyped, SameTasks, Same
<1>3. RunFits' BY RunKept DEF HoldsBefore, RunTyped
<1>4. Phased' BY DEF Phased, TraceFits, CodeFits
<1> QED BY <1>1, <1>2, <1>3, <1>4 DEF HoldsAfter

\* The code a run has, when neither it nor the checkout changes.
LEMMA CodeKept ==
  ASSUME HoldsBefore, run # NoRun, UNCHANGED tree,
         run'.version = run.version, SameCode(run, run'),
         run'.ran \subseteq run.ran \cup {tree.files}
  PROVE  CodeFits(run)'
<1>1. CodeFits(run) BY DEF HoldsBefore, Phased
<1> QED BY <1>1 DEF CodeFits, SameCode

\* A step within a task, of the same code.
LEMMA RunContinues ==
  ASSUME HoldsBefore, run # NoRun, Evidence', Kept, UNCHANGED <<script, documents, tree>>,
         run' \in RunRecord, SameTasks(run, run'), SameCode(run, run'),
         run'.ran \subseteq run.ran \cup {tree.files}, run.models \subseteq run'.models,
         PhaseFits(run'), CacheFits(run', server'.cached), TraceFits(run)'
  PROVE  HoldsAfter
<1>1. CodeFits(run)' BY CodeKept DEF SameTasks, Same
<1> QED BY <1>1, RunMoves DEF SameCode

LEMMA TaskTyped ==
  ASSUME HoldsBefore, run # NoRun, run.todo # <<>>
  PROVE  /\ Head(run.todo) \in ToSet(Tasks)
         /\ Tail(run.todo) \in Seq(ToSet(Tasks))
         /\ TaskRun \in Ids /\ TaskRun = TaskOf(run)
<1>1. run \in RunRecord BY DEF HoldsBefore, RunTyped
<1>2. run.todo \in Seq(ToSet(Tasks)) BY <1>1 DEF RunRecord
<1>3. Head(run.todo) \in ToSet(Tasks) /\ Tail(run.todo) \in Seq(ToSet(Tasks))
  BY <1>2, HeadTailProperties
<1>4. ToSet(Tasks) \subseteq Nat
  <2>1. Tasks \in Seq(Nat \ {0}) BY MeasuredAssumption
  <2>2. ToSet(Tasks) = {Tasks[i] : i \in 1 .. Len(Tasks)}
    BY <2>1, LenProperties DEF ToSet
  <2>3. \A i \in 1 .. Len(Tasks) : Tasks[i] \in Nat BY <2>1, ElementOfSeq
  <2> QED BY <2>2, <2>3
<1>5. run.kind \in Kinds /\ run.second \in Nat BY <1>1 DEF RunRecord
<1> QED BY <1>3, <1>4, <1>5 DEF TaskRun, TaskOf, Ids

\* The end of a task: a result is appended, and the next task begun or none.
LEMMA TaskEnds ==
  ASSUME HoldsBefore, run # NoRun, run.todo # <<>>, Evidence', Kept,
         UNCHANGED <<script, documents, tree>>,
         NEW r \in Result, NEW rest, r.task = Head(run.todo),
         \/ rest = Tail(run.todo)
         \/ run.kind = "pilot" /\ rest = <<>> /\ r.status # "completed",
         run.kind = "pilot" /\ r.status # "completed" => rest = <<>>,
         ResultFits(episodes', traces', run, r),
         Recorded(r, rest)
  PROVE  HoldsAfter
<1>1. run \in RunRecord BY DEF HoldsBefore, RunTyped
<1>2. /\ run.results \in Seq(Result) /\ run.todo \in Seq(ToSet(Tasks))
      /\ run.given \in Seq(ToSet(Tasks))
  BY <1>1 DEF RunRecord
<1> DEFINE more == Append(run.results, r)
<1>3. more \in Seq(Result) BY <1>2, AppendProperties
<1>4. rest \in Seq(ToSet(Tasks)) BY <1>2, TaskTyped, EmptySeq
<1>5. /\ run' \in RunRecord /\ Same(run, run') /\ SameCode(run, run')
      /\ run'.phase = "next" /\ run'.models = run.models /\ run'.opened = FALSE
      /\ run'.ran = {} /\ run'.results = more /\ run'.todo = rest
  <2>1. run' = Ended(run, more, rest) BY DEF Recorded, Continue, Ended
  <2> HIDE DEF more
  <2>2. run' \in RunRecord /\ Same(run, run') /\ SameCode(run, run')
    BY <1>1, <1>3, <1>4, <2>1, TaskEnded
  <2>3. /\ run'.phase = "next" /\ run'.models = run.models /\ run'.opened = FALSE
        /\ run'.ran = {} /\ run'.results = more /\ run'.todo = rest
    BY <1>1, <2>1 DEF Ended, RunRecord
  <2> QED BY <2>2, <2>3
<1> HIDE DEF more
<1>6. RunTyped' BY <1>5 DEF HoldsBefore, RunTyped, Same
<1>7. CodeFits(run)' BY <1>5, CodeKept DEF Same
<1>8. PhaseFits(run') /\ CacheFits(run', server'.cached) /\ TraceFits(run)'
  BY <1>5 DEF PhaseFits, CacheFits, TraceFits
<1>9. Phased' BY <1>7, <1>8 DEF Phased, TraceFits, CodeFits
<1>10. DocumentsFit' BY DocumentsKept DEF HoldsBefore
<1>11. TasksFit(run.kind, run.given, more, rest)
  <2>1. TasksFit(run.kind, run.given, run.results, run.todo) BY DEF HoldsBefore, RunFits
  <2> QED BY <2>1, <1>2, Appended DEF more
<1>12. ResultsFit(episodes', traces', run')
  <2>1. ResultsFit(episodes', traces', run) BY ResultsKept DEF HoldsBefore, RunFits
  <2>2. PICK n \in Nat : n = Len(run.results) BY <1>2, LenProperties
  <2>3. /\ Len(more) = n + 1 /\ more[n + 1] = r
        /\ \A i \in 1 .. n : more[i] = run.results[i]
    BY <1>2, <2>2, AppendProperties DEF more
  <2>4. ASSUME NEW i \in 1 .. n + 1
        PROVE  ResultFits(episodes', traces', run, more[i])
    <3>1. CASE i = n + 1 BY <3>1, <2>3
    <3>2. CASE i # n + 1
      <4>1. i \in 1 .. n BY <3>2
      <4> QED BY <4>1, <2>1, <2>2, <2>3 DEF ResultsFit
    <3> QED BY <3>1, <3>2
  <2>5. ASSUME NEW i \in 1 .. n + 1
        PROVE  ResultFits(episodes', traces', run', more[i])
    BY <2>4, <1>5 DEF ResultFits, Same, SameCode
  <2> QED BY <2>3, <2>5, <1>5 DEF ResultsFit
<1>13. RunFits' BY <1>5, <1>11, <1>12 DEF RunFits, Same
<1> QED BY <1>6, <1>9, <1>10, <1>13 DEF HoldsAfter

\* A failure that the script records or dies of, with the trace closed behind it.
LEMMA RaisedHolds ==
  ASSUME HoldsBefore, NEW status \in Failures, Raised(status), UNCHANGED script,
         run # NoRun, run.phase \notin {"load", "next", "save"}
  PROVE  HoldsAfter
<1>1. run.todo # <<>> BY DEF HoldsBefore, Phased, PhaseFits
<1>2. Evidence' /\ Kept
  <2>1. CASE run.opened
    <3>1. /\ traces[TaskOf(run)] = "open" /\ TaskOf(run) \notin DOMAIN episodes
      BY <2>1 DEF HoldsBefore, Phased, TraceFits
    <3>2. TaskRun = TaskOf(run) BY <1>1, TaskTyped
    <3>3. traces' = With(traces, TaskRun, "exception") /\ UNCHANGED episodes
      BY <2>1 DEF Raised
    <3>4. Evidence BY DEF HoldsBefore
    <3> HIDE DEF TaskRun
    <3> QED BY <3>1, <3>2, <3>3, <3>4, TraceWritten
  <2>2. CASE ~run.opened
    <3>1. UNCHANGED disk BY <2>2 DEF Raised, disk
    <3> QED BY <3>1, DiskUnchanged DEF HoldsBefore
  <2> QED BY <2>1, <2>2
<1>3. UNCHANGED documents BY DEF Raised
<1>4. CASE run' = NoRun BY <1>2, <1>3, <1>4, RunGone
<1>5. CASE run' # NoRun
  <2> DEFINE r == Failure(status)
  <2>1. PICK rest :
          /\ rest = Tail(run.todo) \/ (run.kind = "pilot" /\ rest = <<>>)
          /\ run.kind = "pilot" => rest = <<>>
          /\ Recorded(r, rest)
    BY <1>5 DEF Raised, SuiteCatches, SmokeCatches, PilotCatches, UpstreamCatches, Crash
  <2>2. r \in Result /\ r.task = Head(run.todo) /\ r.status # "completed"
    <3>1. run.dropped \in Losses BY DEF HoldsBefore, RunTyped, RunRecord
    <3> QED BY <1>1, <3>1, TaskTyped DEF Result, Failed, Failures, Failure
  <2>3. ResultFits(episodes', traces', run, r) BY <2>2 DEF ResultFits
  <2>4. UNCHANGED tree BY DEF Raised
  <2> HIDE DEF r
  <2> QED BY <1>1, <1>2, <1>3, <2>1, <2>2, <2>3, <2>4, TaskEnds
<1> QED BY <1>4, <1>5
-----------------------------------------------------------------------------
\* What holds of a script that is running.
LEMMA Running ==
  ASSUME HoldsBefore, run # NoRun
  PROVE  /\ run \in RunRecord /\ run.phase \in Phases /\ run.opened \in BOOLEAN
         /\ run.cold \in BOOLEAN /\ run.asked \in 0 .. MaxRequests
         /\ run.models \subseteq Served
         /\ run.dropped \in Losses /\ run.ran \subseteq Versions
         /\ PhaseFits(run) /\ CacheFits(run, server.cached) /\ TraceFits(run)
         /\ CodeFits(run)
<1>1. run \in RunRecord BY DEF HoldsBefore, RunTyped
<1> QED BY <1>1 DEF HoldsBefore, Phased, RunRecord

\* The actions of Script, in the module's order.
LEMMA BeginTaskHolds ==
  ASSUME HoldsBefore, UNCHANGED script, BeginTask
  PROVE  HoldsAfter
<1>1. run # NoRun /\ run.phase = "next" /\ run.todo # <<>> BY DEF BeginTask, In, Alive
<1>2. PICK p \in {"format", "reset"} : run' = Begun(run, p)
  BY DEF BeginTask, Continue, Begun
<1>3. UNCHANGED <<disk, tree>> BY DEF BeginTask
<1>4. /\ run' \in RunRecord /\ SameTasks(run, run') /\ SameCode(run, run')
      /\ run'.ran = run.ran /\ run'.phase = p /\ run'.models = run.models /\ run'.opened = run.opened
      /\ run'.asked = 0
  BY <1>1, <1>2, Running, TaskBegun DEF Phases
<1>5. ~run.opened BY <1>1, Running DEF PhaseFits
<1>6. Evidence' /\ Kept /\ UNCHANGED documents
  BY <1>3, DiskUnchanged DEF HoldsBefore, disk
<1>7. PhaseFits(run') /\ CacheFits(run', server'.cached) /\ TraceFits(run)'
  BY <1>1, <1>2, <1>4, <1>5 DEF PhaseFits, CacheFits, TraceFits, SameTasks
<1> QED BY <1>1, <1>3, <1>4, <1>6, <1>7, RunContinues

LEMMA ResetHolds ==
  ASSUME HoldsBefore, UNCHANGED script, Reset
  PROVE  HoldsAfter
<1>1. run # NoRun /\ run.phase \in {"format", "reset"} BY DEF Reset, In, Alive
<1>2. /\ run' = InPhase(run, AfterReset) /\ UNCHANGED <<disk, tree>>
      /\ server' = [server EXCEPT !.cached = FALSE]
  BY DEF Reset, Continue, InPhase
<1>3. AfterReset \in {"infer", "open"} \/ (run.kind = "upstream" /\ AfterReset = "turns")
  BY DEF AfterReset
<1>4. ~server'.cached BY <1>2 DEF HoldsBefore, Shape
<1> HIDE DEF AfterReset
<1>5. /\ run' \in RunRecord /\ SameTasks(run, run') /\ SameCode(run, run')
      /\ run'.ran = run.ran /\ run'.phase = AfterReset /\ run'.models = run.models
      /\ run'.opened = run.opened /\ run'.asked = run.asked
  BY <1>1, <1>2, <1>3, Running, PhaseSet DEF Phases
<1>6. ~run.opened /\ run.asked = 0 /\ run.todo # <<>> BY <1>1, Running DEF PhaseFits
<1>7. Evidence' /\ Kept /\ UNCHANGED documents
  BY <1>2, DiskUnchanged DEF HoldsBefore, disk
<1>8. PhaseFits(run')
  BY <1>3, <1>5, <1>6 DEF PhaseFits, SameTasks, Same
<1>9. CacheFits(run', server'.cached) BY <1>3, <1>4, <1>5, <1>6 DEF CacheFits
<1>10. TraceFits(run)' BY <1>5, <1>6 DEF TraceFits
<1> QED BY <1>1, <1>2, <1>5, <1>7, <1>8, <1>9, <1>10, RunContinues

LEMMA ResetFailsHolds ==
  ASSUME HoldsBefore, UNCHANGED script, ResetFails
  PROVE  HoldsAfter
<1>1. run # NoRun /\ run.phase \in {"format", "reset"} BY DEF ResetFails, In, Alive
<1>2. Raised("infrastructure_invalid") BY DEF ResetFails
<1> QED BY <1>1, <1>2, RaisedHolds DEF Failures

\* The trace opens at a name that no trace has, or the script dies.
LEMMA OpenTraceHolds ==
  ASSUME HoldsBefore, UNCHANGED script, OpenTrace
  PROVE  HoldsAfter
<1>1. run # NoRun /\ run.phase = "open" BY DEF OpenTrace, In, Alive
<1>2. UNCHANGED <<server, tree, episodes, documents>> BY DEF OpenTrace
<1>3. run.todo # <<>> /\ run.asked = 0 /\ ~server.cached
  BY <1>1, Running DEF PhaseFits, CacheFits
<1>4. TaskRun = TaskOf(run) BY <1>1, <1>3, TaskTyped
<1>5. CASE TaskRun \in DOMAIN traces
  <2>1. run' = NoRun /\ UNCHANGED disk
    BY <1>2, <1>5 DEF OpenTrace, Crash, disk
  <2>2. Evidence' /\ Kept BY <2>1, DiskUnchanged DEF HoldsBefore
  <2> QED BY <1>2, <2>1, <2>2, RunGone
<1>6. CASE TaskRun \notin DOMAIN traces
  <2>1. traces' = With(traces, TaskRun, "open") /\ run' = Opened(run, {tree.files})
    BY <1>6 DEF OpenTrace, Continue, Opened
  <2>2. /\ run' \in RunRecord /\ SameTasks(run, run') /\ SameCode(run, run')
        /\ run'.ran = {tree.files} /\ run'.phase = "turns" /\ run'.models = run.models
        /\ run'.opened = TRUE /\ run'.asked = run.asked
    <3>1. {tree.files} \in SUBSET Versions BY DEF HoldsBefore, Shape
    <3> QED BY <1>1, <2>1, <3>1, Running, OpenedSet
  <2>3. Evidence BY DEF HoldsBefore
  <2> DEFINE t == TaskOf(run)
  <2>4. TaskOf(run)' = t BY <2>2 DEF TaskOf, SameTasks, Same
  <2>5. traces' = With(traces, t, "open") /\ t \notin DOMAIN traces
    BY <1>4, <1>6, <2>1
  <2> HIDE DEF t
  <2>6. Evidence' /\ Kept BY <1>2, <2>3, <2>5, TraceWritten
  <2>7. t \in DOMAIN traces' /\ traces'[t] = "open" BY <2>5 DEF With
  <2>8. t \notin DOMAIN episodes' BY <1>2, <2>3, <2>5 DEF Evidence
  <2>9. TraceFits(run)' BY <2>2, <2>4, <2>7, <2>8 DEF TraceFits
  <2>10. PhaseFits(run') BY <1>3, <2>2 DEF PhaseFits, SameTasks
  <2>11. CacheFits(run', server'.cached) BY <1>2, <1>3, <2>2 DEF CacheFits
  <2> QED BY <1>1, <1>2, <2>2, <2>6, <2>9, <2>10, <2>11, RunContinues
<1> QED BY <1>5, <1>6

\* Another session of the task runs what the files are now.
LEMMA NewSessionHolds ==
  ASSUME HoldsBefore, UNCHANGED script, NewSession
  PROVE  HoldsAfter
<1>1. run # NoRun /\ run.phase = "turns" BY DEF NewSession, In, Alive
<1>2. run' = Ran(run, run.ran \cup {tree.files}) BY DEF NewSession, Continue, Ran
<1>3. UNCHANGED <<server, tree, disk>> BY DEF NewSession
<1>4. /\ run' \in RunRecord /\ SameTasks(run, run') /\ SameCode(run, run')
      /\ run'.ran = run.ran \cup {tree.files} /\ run'.phase = run.phase
      /\ run'.models = run.models /\ run'.opened = run.opened
      /\ run'.asked = run.asked /\ run'.cold = run.cold
  <2>1. run.ran \cup {tree.files} \in SUBSET Versions
    BY <1>1, Running DEF HoldsBefore, Shape
  <2> QED BY <1>1, <1>2, <2>1, Running, RanSet
<1>5. Evidence' /\ Kept /\ UNCHANGED documents
  BY <1>3, DiskUnchanged DEF HoldsBefore, disk
<1>6. PhaseFits(run) /\ CacheFits(run, server.cached) /\ TraceFits(run) BY <1>1, Running
<1>7. PhaseFits(run') BY <1>4, <1>6 DEF PhaseFits, SameTasks, Same
<1>8. CacheFits(run', server'.cached) BY <1>3, <1>4, <1>6 DEF CacheFits
<1>9. TraceFits(run)'
  <2>1. TaskOf(run)' = TaskOf(run) BY <1>4 DEF TaskOf, SameTasks, Same
  <2> QED BY <1>3, <1>4, <1>6, <2>1 DEF TraceFits, disk
<1> QED BY <1>1, <1>3, <1>4, <1>5, <1>7, <1>8, <1>9, RunContinues

\* A request that is answered.  The run as the action leaves it, but for the model.
LEMMA AnsweredHolds ==
  ASSUME HoldsBefore, UNCHANGED script, run # NoRun, NEW served \in Served,
         NEW next \in RunRecord, Answered(served, next),
         SameTasks(run, next), SameCode(run, next), next.ran = run.ran,
         next.models = run.models, next.opened = run.opened,
         PhaseFits(next), CacheFits(next, TRUE), next.phase # "save", run.phase # "save"
  PROVE  HoldsAfter
<1>1. PICK m \in SUBSET Served : run.models \subseteq m /\ run' = ModelsOf(next, m)
  <2>1. next.models \in SUBSET Served BY DEF RunRecord
  <2>2. run' = ModelsOf(next, IF run.kind = "upstream" THEN next.models
                              ELSE next.models \cup {served})
    BY DEF Answered, Continue, ModelsOf
  <2> QED BY <2>1, <2>2
<1>2. /\ run' \in RunRecord /\ SameTasks(next, run') /\ SameCode(next, run')
      /\ run'.ran = next.ran
      /\ run'.phase = next.phase /\ run'.models = m /\ run'.opened = next.opened
      /\ run'.asked = next.asked /\ run'.cold = next.cold
  BY <1>1, ModelsSet
<1>3. server'.cached = TRUE BY DEF Answered, HoldsBefore, Shape
<1>4. Evidence' /\ Kept /\ UNCHANGED <<disk, tree>>
  BY DiskUnchanged DEF HoldsBefore, Answered
<1>5. SameTasks(run, run') /\ SameCode(run, run')
  BY <1>2 DEF SameTasks, Same, SameCode
<1>6. PhaseFits(run') BY <1>2 DEF PhaseFits, SameTasks, Same
<1>7. CacheFits(run', server'.cached) BY <1>2, <1>3 DEF CacheFits
<1>8. TraceFits(run)'
  <2>1. TaskOf(run)' = TaskOf(run) BY <1>5 DEF TaskOf, SameTasks, Same
  <2>2. run'.opened = run.opened /\ run'.phase # "save" BY <1>2
  <2>3. TraceFits(run) BY Running
  <2> QED BY <1>4, <2>1, <2>2, <2>3 DEF TraceFits, disk
<1>9. run.models \subseteq run'.models /\ UNCHANGED documents BY <1>1, <1>2, <1>4 DEF disk
<1> QED BY <1>2, <1>4, <1>5, <1>6, <1>7, <1>8, <1>9, RunContinues
-----------------------------------------------------------------------------
LEMMA InferFormatHolds ==
  ASSUME HoldsBefore, UNCHANGED script, NEW served \in Served, InferFormat(served)
  PROVE  HoldsAfter
<1>1. run # NoRun /\ run.phase = "infer" BY DEF InferFormat, In, Alive
<1> DEFINE next == InPhase(run, "reset")
<1>2. Answered(served, next) BY DEF InferFormat, InPhase
<1>3. /\ next \in RunRecord /\ SameTasks(run, next)
      /\ SameCode(run, next) /\ next.ran = run.ran
      /\ next.phase = "reset" /\ next.models = run.models
      /\ next.opened = run.opened /\ next.asked = run.asked
  BY <1>1, Running, PhaseSet DEF Phases
<1> HIDE DEF next
<1>4. ~run.opened /\ run.asked = 0 /\ run.todo # <<>> BY <1>1, Running DEF PhaseFits
<1>5. PhaseFits(next) /\ CacheFits(next, TRUE)
  BY <1>3, <1>4 DEF PhaseFits, CacheFits, SameTasks, Same
<1> QED BY <1>1, <1>2, <1>3, <1>5, AnsweredHolds

LEMMA RootTurnHolds ==
  ASSUME HoldsBefore, UNCHANGED script, NEW served \in Served, RootTurn(served)
  PROVE  HoldsAfter
<1>1. run # NoRun /\ run.phase = "turns" /\ run.asked < MaxRequests
  BY DEF RootTurn, In, Alive
<1> DEFINE a == run.asked + 1
           c == IF run.asked = 0 THEN ~server.cached ELSE run.cold
           next == AskedFirst(run, a, c)
<1>2. Answered(served, next) BY DEF RootTurn, AskedFirst
<1>3. run.asked \in 0 .. MaxRequests /\ MaxRequests \in Nat
  BY <1>1, Running, MeasuredAssumption
<1>4. a \in 0 .. MaxRequests /\ a # 0 BY <1>1, <1>3
<1>5. c = TRUE
  <2>1. IF run.asked = 0 THEN ~server.cached ELSE run.cold
    BY <1>1, Running DEF CacheFits
  <2>2. run.cold \in BOOLEAN /\ server.cached \in BOOLEAN
    BY <1>1, Running DEF HoldsBefore, Shape
  <2> QED BY <2>1, <2>2
<1> HIDE DEF a, c
<1>6. /\ next \in RunRecord /\ SameTasks(run, next)
      /\ SameCode(run, next) /\ next.ran = run.ran
      /\ next.phase = "turns" /\ next.models = run.models
      /\ next.opened = run.opened /\ next.asked = a /\ next.cold = c
  BY <1>1, <1>4, <1>5, Running, FirstAskedSet
<1> HIDE DEF next
<1>7. PhaseFits(run) BY <1>1, Running
<1>8. PhaseFits(next)
  BY <1>1, <1>6, <1>7 DEF PhaseFits, SameTasks, Same
<1>9. CacheFits(next, TRUE) BY <1>4, <1>5, <1>6 DEF CacheFits
<1> QED BY <1>1, <1>2, <1>6, <1>8, <1>9, AnsweredHolds

LEMMA SubCallHolds ==
  ASSUME HoldsBefore, UNCHANGED script, NEW served \in Served, SubCall(served)
  PROVE  HoldsAfter
<1>1. run # NoRun /\ run.phase = "turns" /\ run.asked \in 1 .. MaxRequests - 1
  BY DEF SubCall, In, Alive
<1> DEFINE a == run.asked + 1
           next == Asked(run, a)
<1>2. Answered(served, next) BY DEF SubCall, Asked
<1>3. a \in 0 .. MaxRequests /\ a # 0 /\ run.asked # 0 BY <1>1, MeasuredAssumption
<1>4. run.cold BY <1>1, <1>3, Running DEF CacheFits
<1> HIDE DEF a
<1>5. /\ next \in RunRecord /\ SameTasks(run, next)
      /\ SameCode(run, next) /\ next.ran = run.ran
      /\ next.phase = "turns" /\ next.models = run.models
      /\ next.opened = run.opened /\ next.asked = a /\ next.cold = run.cold
  BY <1>1, <1>3, Running, AskedSet
<1> HIDE DEF next
<1>6. PhaseFits(run) BY <1>1, Running
<1>7. PhaseFits(next) BY <1>1, <1>5, <1>6 DEF PhaseFits, SameTasks, Same
<1>8. CacheFits(next, TRUE) BY <1>3, <1>4, <1>5 DEF CacheFits
<1> QED BY <1>1, <1>2, <1>5, <1>7, <1>8, AnsweredHolds

LEMMA ErrorStatusHolds ==
  ASSUME HoldsBefore, UNCHANGED script, ErrorStatus
  PROVE  HoldsAfter
<1>1. run # NoRun /\ run.phase \in {"infer", "turns"} BY DEF ErrorStatus, In, Alive
<1>2. Raised("infrastructure_invalid") BY DEF ErrorStatus
<1> QED BY <1>1, <1>2, RaisedHolds DEF Failures

LEMMA DroppedHolds ==
  ASSUME HoldsBefore, UNCHANGED script, Dropped
  PROVE  HoldsAfter
<1>1. run # NoRun /\ run.phase \in {"infer", "turns"} BY DEF Dropped, In, Alive
<1>2. UNCHANGED <<server, tree, disk>> BY DEF Dropped
<1>3. Evidence' /\ Kept /\ UNCHANGED documents
  BY <1>2, DiskUnchanged DEF HoldsBefore, disk
<1>4. CASE run' = NoRun BY <1>3, <1>4, RunGone
<1>5. CASE run' # NoRun
  <2>1. PICK d \in Losses : run' = Lost(run, d)
    BY <1>5 DEF Dropped, Crash, Continue, Lost, Losses
  <2>2. /\ run' \in RunRecord /\ SameTasks(run, run') /\ SameCode(run, run')
        /\ run'.ran = run.ran
        /\ run'.phase = "probe" /\ run'.models = run.models
        /\ run'.opened = run.opened
    BY <1>1, <2>1, Running, LostSet
  <2>3. run.todo # <<>> BY <1>1, Running DEF PhaseFits
  <2>4. PhaseFits(run') BY <2>2, <2>3 DEF PhaseFits, SameTasks
  <2>5. CacheFits(run', server'.cached) BY <2>2 DEF CacheFits
  <2>6. TraceFits(run)'
    <3>1. TaskOf(run)' = TaskOf(run) BY <2>2 DEF TaskOf, SameTasks, Same
    <3>2. TraceFits(run) BY <1>1, Running
    <3> QED BY <1>1, <1>2, <2>2, <3>1, <3>2 DEF TraceFits, disk
  <2> QED BY <1>1, <1>2, <1>3, <2>2, <2>4, <2>5, <2>6, RunContinues
<1> QED BY <1>4, <1>5

LEMMA ProbeHolds ==
  ASSUME HoldsBefore, UNCHANGED script, Probe
  PROVE  HoldsAfter
<1>1. run # NoRun /\ run.phase = "probe" BY DEF Probe, In, Alive
<1>2. PICK status \in Failures : Raised(status) BY DEF Probe, Failures
<1> QED BY <1>1, <1>2, RaisedHolds

\* The trace of the episode is closed.
LEMMA FinishHolds ==
  ASSUME HoldsBefore, UNCHANGED script, Finish
  PROVE  HoldsAfter
<1>1. run # NoRun /\ run.phase = "turns" /\ run.asked > 0 BY DEF Finish, In, Alive
<1>2. UNCHANGED <<server, tree, episodes, documents>> BY DEF Finish
<1>3. run' = InPhase(run, "save") BY DEF Finish, Continue, InPhase
<1>4. /\ run' \in RunRecord /\ SameTasks(run, run') /\ SameCode(run, run')
      /\ run'.ran = run.ran
      /\ run'.phase = "save" /\ run'.models = run.models
      /\ run'.opened = run.opened /\ run'.cold = run.cold
  BY <1>1, <1>3, Running, PhaseSet DEF Phases
<1>5. run.todo # <<>> BY <1>1, Running DEF PhaseFits
<1>6. run.cold
  <2>1. run.asked # 0
    <3>1. run.asked \in 0 .. MaxRequests BY <1>1, Running
    <3> QED BY <3>1, <1>1
  <2> QED BY <2>1, <1>1, Running DEF CacheFits
<1>7. PhaseFits(run')
  <2>1. PhaseFits(run) BY <1>1, Running
  <2> QED BY <1>1, <1>4, <1>5, <2>1 DEF PhaseFits, SameTasks, Same
<1>8. CacheFits(run', server'.cached) BY <1>4, <1>6 DEF CacheFits
<1> DEFINE t == TaskOf(run)
<1>9. TaskOf(run)' = t /\ TaskRun = t
  BY <1>1, <1>4, <1>5, TaskTyped DEF TaskOf, SameTasks, Same
<1>10. Evidence /\ TraceFits(run) BY <1>1, Running DEF HoldsBefore
<1>11. CASE run.opened
  <2>1. t \in DOMAIN traces /\ traces[t] = "open" /\ t \notin DOMAIN episodes
    BY <1>1, <1>10, <1>11 DEF TraceFits
  <2>2. traces' = With(traces, t, "done") BY <1>9, <1>11 DEF Finish
  <2> HIDE DEF t
  <2>3. Evidence' /\ Kept BY <1>2, <1>10, <2>1, <2>2, TraceWritten
  <2>4. t \in DOMAIN traces' /\ traces'[t] = "done" BY <2>2 DEF With
  <2>5. TraceFits(run)' BY <1>2, <1>4, <1>9, <2>1, <2>4 DEF TraceFits
  <2> QED BY <1>1, <1>2, <1>4, <1>7, <1>8, <2>3, <2>5, RunContinues
<1>12. CASE ~run.opened
  <2>1. UNCHANGED disk BY <1>2, <1>12 DEF Finish, disk
  <2>2. Evidence' /\ Kept BY <1>10, <2>1, DiskUnchanged
  <2>3. TraceFits(run)' BY <1>4, <1>12 DEF TraceFits
  <2> QED BY <1>1, <1>2, <1>4, <1>7, <1>8, <2>2, <2>3, RunContinues
<1> QED BY <1>11, <1>12

\* The episode is written behind its closed trace, and its result recorded.
LEMMA SaveHolds ==
  ASSUME HoldsBefore, UNCHANGED script, Save
  PROVE  HoldsAfter
<1>1. run # NoRun /\ run.phase = "save" BY DEF Save, In, Alive
<1>2. UNCHANGED <<traces, tree, documents>> BY DEF Save
<1>3. /\ run.todo # <<>> /\ run.cold /\ run.models \subseteq Served
      /\ run.version \in Versions /\ run.ran \subseteq Versions
  BY <1>1, Running DEF PhaseFits, CacheFits, RunRecord
<1> DEFINE t == TaskOf(run)
<1>4. TaskRun = t /\ t \in Ids /\ Head(run.todo) \in ToSet(Tasks)
  BY <1>1, <1>3, TaskTyped
<1>5. Evidence /\ TraceFits(run) /\ (run.kind # "upstream" => run.opened)
  BY <1>1, Running DEF HoldsBefore, PhaseFits
<1>6. /\ Episode \in EpisodeRecord /\ Episode.cold /\ Episode.host = run.version
      /\ Episode.models = run.models
      /\ ~run.edited => Episode.workers \subseteq {run.version}
  <2>1. run.cold = TRUE BY <1>1, <1>3, Running
  <2>2. ~run.edited => run.ran \subseteq {run.version} BY <1>1, Running DEF CodeFits
  <2> QED BY <2>1, <2>2, <1>3 DEF Episode, EpisodeRecord
<1>7. /\ Completed \in Result /\ Completed.task = Head(run.todo)
      /\ Completed.status = "completed" /\ Completed.run = t
      /\ Completed.episode = Episode
  BY <1>4, <1>6 DEF Completed, Result, Complete
<1>8. Recorded(Completed, Tail(run.todo)) BY DEF Save
<1> HIDE DEF t
<1>9. /\ Evidence' /\ Kept
      /\ run.opened => OnDisk(episodes', traces', Completed)
  <2>1. CASE run.opened
    <3>1. t \in DOMAIN traces /\ t \notin DOMAIN episodes /\ traces[t] = "done"
      BY <1>1, <1>5, <2>1 DEF TraceFits, t
    <3>2. episodes' = With(episodes, t, Episode) BY <1>4, <2>1 DEF Save
    <3>3. /\ DOMAIN episodes' = DOMAIN episodes \cup {t}
          /\ episodes'[t] = Episode
          /\ \A y \in DOMAIN episodes : y # t => episodes'[y] = episodes[y]
      BY <3>2 DEF With
    <3>4. Evidence' BY <1>2, <1>5, <1>6, <3>1, <3>3 DEF Evidence
    <3>5. Kept BY <1>2, <3>1, <3>3 DEF Kept
    <3>6. OnDisk(episodes', traces', Completed)
      BY <1>2, <1>7, <3>1, <3>3 DEF OnDisk
    <3> QED BY <3>4, <3>5, <3>6
  <2>2. CASE ~run.opened
    <3>1. UNCHANGED disk BY <1>2, <2>2 DEF Save, disk
    <3> QED BY <1>5, <3>1, <2>2, DiskUnchanged
  <2> QED BY <2>1, <2>2
<1>10. ResultFits(episodes', traces', run, Completed)
  BY <1>5, <1>6, <1>7, <1>9 DEF ResultFits
<1> HIDE DEF Completed
<1> QED BY <1>1, <1>2, <1>3, <1>7, <1>8, <1>9, <1>10, TaskEnds
-----------------------------------------------------------------------------
\* Every inhabited set of naturals has a least member.
LEMMA Least ==
  ASSUME NEW T, T \subseteq Nat, T # {}
  PROVE  \E x \in T : \A y \in T : ~(y < x)
<1> DEFINE R == {p \in Nat \X Nat : p[1] < p[2]}
<1>1. IsWellFoundedOn(R, Nat)
  BY NatLessThanWellFounded DEF OpToRel
<1>2. \E x \in T : \A y \in T : <<y, x>> \notin R
  <2> HIDE DEF R
  <2>1. QED
    BY <1>1, WFMin
<1>3. QED
  BY <1>2

\* Induction over the naturals, for a set of those that have a property.
LEMMA Induction ==
  ASSUME NEW P, 0 \in P, \A n \in P \cap Nat : n + 1 \in P
  PROVE  Nat \subseteq P
<1> SUFFICES ASSUME Nat \ P # {} PROVE FALSE
  OBVIOUS
<1>1. PICK x \in Nat \ P : \A y \in Nat \ P : ~(y < x)
  BY Least
<1>2. x # 0 /\ x - 1 \in Nat
  BY <1>1
<1>3. x - 1 \in P
  BY <1>1, <1>2
<1>4. (x - 1) + 1 \in P
  BY <1>2, <1>3
<1>5. QED
  BY <1>1, <1>2, <1>4

\* FlattenSeq's recursive function: the first i sequences, one after another.
Flattens(f, seqs, n) ==
  f = [i \in 1 .. n |-> IF i = 1 THEN seqs[i] ELSE f[i - 1] \o seqs[i]]

LEMMA FlattenExists ==
  ASSUME NEW n \in Nat, NEW seqs
  PROVE  \E f : Flattens(f, seqs, n)
<1> DEFINE P == {k \in Nat : \E f : Flattens(f, seqs, k)}
<1>1. 0 \in P
  <2>1. Flattens([i \in 1 .. 0 |-> 0], seqs, 0) BY DEF Flattens
  <2> QED BY <2>1
<1>2. ASSUME NEW k \in P \cap Nat PROVE k + 1 \in P
  <2>1. PICK f : Flattens(f, seqs, k) OBVIOUS
  <2> DEFINE last == IF k + 1 = 1 THEN seqs[k + 1] ELSE f[k] \o seqs[k + 1]
             g == [i \in 1 .. k + 1 |-> IF i <= k THEN f[i] ELSE last]
  <2>2. \A i \in 1 .. k :
          g[i] = IF i = 1 THEN seqs[i] ELSE f[i - 1] \o seqs[i]
    <3> SUFFICES ASSUME NEW i \in 1 .. k
                 PROVE  g[i] = IF i = 1 THEN seqs[i] ELSE f[i - 1] \o seqs[i]
      OBVIOUS
    <3>1. g[i] = f[i] OBVIOUS
    <3>2. f[i] = IF i = 1 THEN seqs[i] ELSE f[i - 1] \o seqs[i]
      BY <2>1 DEF Flattens
    <3> QED BY <3>1, <3>2
  <2>3. \A i \in 1 .. k : i # 1 => g[i - 1] = f[i - 1] OBVIOUS
  <2>4. g[k + 1] = last /\ (k + 1 # 1 => g[k] = f[k]) OBVIOUS
  <2>5. DOMAIN g = 1 .. k + 1 /\ g = [i \in 1 .. k + 1 |-> g[i]] OBVIOUS
  <2> HIDE DEF g
  <2>6. \A i \in 1 .. k + 1 :
          g[i] = IF i = 1 THEN seqs[i] ELSE g[i - 1] \o seqs[i]
    <3> SUFFICES ASSUME NEW i \in 1 .. k + 1
                 PROVE  g[i] = IF i = 1 THEN seqs[i] ELSE g[i - 1] \o seqs[i]
      OBVIOUS
    <3>1. CASE i = k + 1
      <4>1. (k + 1) - 1 = k OBVIOUS
      <4> QED BY <2>4, <3>1, <4>1
    <3>2. CASE i # k + 1
      <4>1. i \in 1 .. k BY <3>2
      <4> QED BY <2>2, <2>3, <4>1
    <3> QED BY <3>1, <3>2
  <2>7. Flattens(g, seqs, k + 1) BY <2>5, <2>6 DEF Flattens
  <2> QED BY <2>7
<1> HIDE DEF P
<1>3. Nat \subseteq P BY <1>1, <1>2, Induction
<1> QED BY <1>3 DEF P

\* A sequence over S each element of which is one of the n sequences'.
Gathers(flat, seqs, n, S) ==
  /\ flat \in Seq(S)
  /\ \A i \in 1 .. Len(flat) :
       \E j \in 1 .. n : \E k \in 1 .. Len(seqs[j]) : flat[i] = seqs[j][k]

\* Every element of the flattened sequence is one of the sequences'.
LEMMA FlattenGathers ==
  ASSUME NEW S, NEW n \in Nat \ {0}, NEW seqs \in [1 .. n -> Seq(S)]
  PROVE  Gathers(FlattenSeq(seqs), seqs, n, S)
<1>1. Len(seqs) = n
  BY SeqDef
<1> DEFINE f == CHOOSE g : Flattens(g, seqs, n)
<1>2. Flattens(f, seqs, n) BY FlattenExists
<1>3. FlattenSeq(seqs) = f[n] BY <1>1 DEF FlattenSeq, Flattens
<1> HIDE DEF f
<1> DEFINE Part(s) == /\ s \in Seq(S)
                      /\ \A i \in 1 .. Len(s) :
                           \E j \in 1 .. n : \E k \in 1 .. Len(seqs[j]) : s[i] = seqs[j][k]
           P == {k \in Nat : k + 1 <= n => Part(f[k + 1])}
<1>4. \A j \in 1 .. n : seqs[j] \in Seq(S) /\ Part(seqs[j]) OBVIOUS
<1>5. f[1] = seqs[1] /\ \A i \in 1 .. n : i # 1 => f[i] = f[i - 1] \o seqs[i]
  <2>1. 1 \in 1 .. n OBVIOUS
  <2>2. \A i \in 1 .. n : f[i] = IF i = 1 THEN seqs[i] ELSE f[i - 1] \o seqs[i]
    BY <1>2 DEF Flattens
  <2> QED BY <2>1, <2>2
<1>6. 0 \in P
  <2>1. Part(f[1]) BY <1>4, <1>5
  <2> HIDE DEF Part
  <2> QED BY <2>1
<1>7. ASSUME NEW k \in P \cap Nat PROVE k + 1 \in P
  <2> SUFFICES ASSUME (k + 1) + 1 <= n PROVE Part(f[(k + 1) + 1]) OBVIOUS
  <2> DEFINE s == f[k + 1]
             t == seqs[k + 2]
  <2>1. Part(s)
    <3> HIDE DEF Part
    <3>1. k + 1 <= n OBVIOUS
    <3> QED BY <3>1
  <2>2. k + 2 \in 1 .. n /\ (k + 1) + 1 = k + 2 /\ k + 2 # 1 /\ (k + 2) - 1 = k + 1
    OBVIOUS
  <2>3. f[k + 2] = s \o t BY <1>5, <2>2
  <2>4. t \in Seq(S) /\ Part(t) BY <1>4, <2>2
  <2> HIDE DEF s, t
  <2>5. s \in Seq(S) BY <2>1
  <2>6. /\ s \o t \in Seq(S)
        /\ Len(s \o t) = Len(s) + Len(t)
        /\ \A i \in 1 .. Len(s) + Len(t) :
             (s \o t)[i] = IF i <= Len(s) THEN s[i] ELSE t[i - Len(s)]
    BY <2>4, <2>5, ConcatProperties
  <2>7. PICK a \in Nat, b \in Nat : a = Len(s) /\ b = Len(t)
    BY <2>4, <2>5, LenProperties
  <2> DEFINE u == s \o t
  <2> HIDE DEF u
  <2>8. ASSUME NEW i \in 1 .. Len(u)
        PROVE  \E j \in 1 .. n : \E l \in 1 .. Len(seqs[j]) : u[i] = seqs[j][l]
    <3>1. i \in 1 .. a + b BY <2>6, <2>7 DEF u
    <3>2. CASE i <= a
      <4>1. i \in 1 .. Len(s) /\ u[i] = s[i] BY <2>6, <2>7, <3>1, <3>2 DEF u
      <4> QED BY <2>1, <4>1
    <3>3. CASE ~(i <= a)
      <4>1. PICK q \in 1 .. Len(t) : u[i] = t[q]
        <5>1. i - a \in 1 .. Len(t) /\ u[i] = t[i - a]
          BY <2>6, <2>7, <3>1, <3>3 DEF u
        <5> QED BY <5>1
      <4>2. \E j \in 1 .. n : \E l \in 1 .. Len(seqs[j]) : t[q] = seqs[j][l] BY <2>4
      <4> QED BY <4>1, <4>2
    <3> QED BY <3>2, <3>3
  <2>9. Part(u) BY <2>6, <2>8 DEF u
  <2> HIDE DEF Part
  <2> QED BY <2>2, <2>3, <2>9 DEF u
<1> HIDE DEF P
<1>8. Nat \subseteq P BY <1>6, <1>7, Induction
<1>9. Part(f[n])
  <2> HIDE DEF Part
  <2>1. n - 1 \in P /\ (n - 1) + 1 = n BY <1>8
  <2> QED BY <2>1 DEF P
<1> QED BY <1>3, <1>9 DEF Gathers
-----------------------------------------------------------------------------
\* The tasks, as a sequence without a repetition.
LEMMA TasksAre ==
  /\ Tasks \in Seq(ToSet(Tasks)) /\ Len(Tasks) \in Nat /\ Len(Tasks) > 0
  /\ DOMAIN Tasks = 1 .. Len(Tasks)
  /\ \A i, j \in 1 .. Len(Tasks) : Tasks[i] = Tasks[j] => i = j
<1>1. Tasks \in Seq(Nat \ {0}) /\ Tasks # <<>> /\ IsInjective(Tasks)
  BY MeasuredAssumption
<1>2. PICK n \in Nat : n = Len(Tasks) /\ DOMAIN Tasks = 1 .. n
  BY <1>1, LenProperties
<1>3. n # 0 BY <1>1, <1>2, EmptySeq
<1>4. ToSet(Tasks) = {Tasks[i] : i \in 1 .. n} BY <1>2 DEF ToSet
<1>5. Tasks \in [1 .. n -> ToSet(Tasks)]
  <2>1. Tasks \in [1 .. n -> Nat \ {0}] BY <1>1, <1>2, LenProperties
  <2> QED BY <2>1, <1>4
<1>6. Tasks \in Seq(ToSet(Tasks)) BY <1>5, SeqDef
<1>7. \A i, j \in 1 .. n : Tasks[i] = Tasks[j] => i = j
  BY <1>1, <1>2 DEF IsInjective
<1> QED BY <1>2, <1>3, <1>6, <1>7

\* A sequence that has each task once is as long as the tasks: both count them.
LEMMA OnceEach ==
  ASSUME NEW rs, NEW n \in Nat, DOMAIN rs = 1 .. n, EachTaskOnce(rs)
  PROVE  n = Len(Tasks)
<1> DEFINE T == ToSet(Tasks)
           f == [i \in 1 .. n |-> rs[i].task]
<1>1. /\ \A i, j \in 1 .. n : rs[i].task = rs[j].task => i = j
      /\ {rs[i].task : i \in 1 .. n} = T
  BY DEF EachTaskOnce
<1>2. PICK m \in Nat : m = Len(Tasks) /\ DOMAIN Tasks = 1 .. m BY TasksAre
<1>3. T = {Tasks[i] : i \in 1 .. m} BY <1>2 DEF ToSet
<1> HIDE DEF T
<1>4. f \in Bijection(1 .. n, T)
  BY <1>1 DEF Bijection, Injection, Surjection, IsInjective
<1>5. Tasks \in Bijection(1 .. m, T)
  <2>1. Tasks \in [1 .. m -> T]
    <3>1. Tasks \in [1 .. m -> ToSet(Tasks)] BY <1>2, TasksAre, LenProperties
    <3> QED BY <3>1 DEF T
  <2>2. \A i, j \in 1 .. m : Tasks[i] = Tasks[j] => i = j BY <1>2, TasksAre
  <2> QED BY <1>3, <2>1, <2>2 DEF Bijection, Injection, Surjection, IsInjective
<1>6. ExistsBijection(1 .. n, T) /\ ExistsBijection(1 .. m, T)
  <2> HIDE DEF f
  <2> QED BY <1>4, <1>5 DEF ExistsBijection
<1>7. Cardinality(T) = n BY <1>6, FS_CountingElements
<1>8. Cardinality(T) = m BY <1>6, FS_CountingElements
<1> QED BY <1>2, <1>7, <1>8

\* What the contract hashes see of two versions.
LEMMA ContractsTyped ==
  ASSUME NEW v \in Versions, NEW w \in Versions
  PROVE  Contracts(v, w) \in Nat \X Nat /\ Contracts(v, w)[1] = Surface[v]
<1>1. Surface \in [Versions -> Nat] BY MeasuredAssumption
<1> QED BY <1>1 DEF Contracts

\* A run as a start makes it.
LEMMA StartTyped ==
  ASSUME NEW kind \in Kinds, NEW s \in Nat, NEW version \in Versions,
         NEW commit \in Versions, NEW contracts \in Nat \X Nat,
         NEW config \in Config, NEW todo \in Seq(ToSet(Tasks))
  PROVE  [kind |-> kind, second |-> s, phase |-> "load",
          version |-> version, edited |-> FALSE,
          commit |-> commit, dirty |-> "unknown", files |-> version,
          contracts |-> contracts,
          argv |-> FALSE, config |-> config, given |-> todo, todo |-> todo,
          results |-> <<>>, models |-> {}, asked |-> 0, cold |-> FALSE,
          opened |-> FALSE, ran |-> {}, dropped |-> "no"] \in RunRecord
<1>1. 0 \in 0 .. MaxRequests BY MeasuredAssumption
<1>2. <<>> \in Seq(Result) BY EmptySeq
<1>3. {} \in SUBSET Served /\ {} \in SUBSET Versions OBVIOUS
<1>4. "load" \in Phases /\ "unknown" \in Answers /\ "no" \in Losses
  BY DEF Phases, Answers, Losses
<1> QED BY <1>1, <1>2, <1>3, <1>4 DEF RunRecord

\* The tasks a command line may give.
LEMMA SelectionsTyped == Selections \subseteq Seq(ToSet(Tasks))
<1>1. Tasks \in Seq(ToSet(Tasks)) /\ Pickings \subseteq Seq(ToSet(Tasks))
  BY TasksAre, MeasuredAssumption
<1>2. <<>> \in Seq(ToSet(Tasks)) BY EmptySeq
<1>3. \A t \in ToSet(Tasks) : <<t>> \in Seq(ToSet(Tasks)) OBVIOUS
<1> QED BY <1>1, <1>2, <1>3 DEF Selections

\* A fresh run: nothing done, all tasks to do.
LEMMA StartHolds ==
  ASSUME HoldsBefore, UNCHANGED script, NEW todo \in Selections,
         NEW config \in Options, Start(todo, config)
  PROVE  HoldsAfter
<1>1. script \in Kinds /\ second \in Nat /\ tree.files \in Versions /\ tree.commit \in Versions
  BY MeasuredAssumption DEF HoldsBefore, Shape
<1>2. config \in Config
  <2>1. Configs \subseteq Config BY MeasuredAssumption DEF Config
  <2>2. [mode |-> "raw", infer |-> FALSE] \in Config BY DEF Config
  <2> QED BY <2>1, <2>2 DEF Options
<1>3. todo \in Seq(ToSet(Tasks)) BY SelectionsTyped
<1> DEFINE k == Contracts(tree.files, tree.files)
<1>4. k \in Nat \X Nat /\ k[1] = Surface[tree.files] BY <1>1, ContractsTyped
<1> HIDE DEF k
<1>5. run' = [kind |-> script, second |-> second, phase |-> "load",
              version |-> tree.files, edited |-> FALSE,
              commit |-> tree.commit, dirty |-> "unknown", files |-> tree.files,
              contracts |-> k,
              argv |-> FALSE, config |-> config, given |-> todo, todo |-> todo,
              results |-> <<>>, models |-> {}, asked |-> 0, cold |-> FALSE,
              opened |-> FALSE, ran |-> {}, dropped |-> "no"]
  BY DEF Start, k
<1>6. run' \in RunRecord BY <1>1, <1>2, <1>3, <1>4, <1>5, StartTyped
<1>7. /\ run'.kind = script /\ run'.phase = "load" /\ run'.version = tree.files
      /\ run'.dirty = "unknown" /\ run'.contracts = k /\ run'.ran = {}
      /\ run'.given = todo /\ run'.todo = todo
      /\ run'.results = <<>> /\ run'.opened = FALSE
  BY <1>5
<1>8. UNCHANGED <<disk, tree, documents>> BY DEF Start, disk
<1>9. Evidence' /\ Kept BY <1>8, DiskUnchanged DEF HoldsBefore
<1>10. DocumentsFit' BY <1>8, <1>9, DocumentsKept DEF HoldsBefore
<1>11. RunTyped' BY <1>6, <1>7 DEF RunTyped
<1>12. CodeFits(run)' BY <1>4, <1>7, <1>8 DEF CodeFits
<1>13. PhaseFits(run') /\ CacheFits(run', server'.cached) /\ TraceFits(run)'
  BY <1>7 DEF PhaseFits, CacheFits, TraceFits
<1>14. Phased' BY <1>12, <1>13 DEF Phased, TraceFits, CodeFits
<1>15. Len(<<>>) = 0 OBVIOUS
<1>16. TasksFit(script, todo, <<>>, todo)
  <2>1. PICK n \in Nat : n = Len(todo) BY <1>3, LenProperties
  <2>2. \A i \in 1 .. n : todo[i] = todo[0 + i] OBVIOUS
  <2> QED BY <1>15, <2>1, <2>2 DEF TasksFit
<1>17. ResultsFit(episodes', traces', run') BY <1>7, <1>15 DEF ResultsFit
<1>18. RunFits' BY <1>7, <1>16, <1>17 DEF RunFits
<1> QED BY <1>9, <1>10, <1>11, <1>14, <1>18 DEF HoldsAfter

\* A manifest that reads a clean tree, of files that are still those that were
\* loaded, tells the version that was loaded.
LEMMA ManifestHolds ==
  ASSUME HoldsBefore, UNCHANGED script, NEW dirty \in {CodeDirty, "unknown"},
         NEW allowDirty \in BOOLEAN, Manifest(dirty, allowDirty)
  PROVE  HoldsAfter
<1>1. run # NoRun /\ run.phase = "load" BY DEF Manifest, In, Alive
<1>2. UNCHANGED <<server, tree, episodes, documents>> BY DEF Manifest
<1>3. CASE ~(MayRun(dirty, allowDirty) /\ Directory \notin DOMAIN traces)
  <2>1. run' = NoRun /\ UNCHANGED disk BY <1>2, <1>3 DEF Manifest, Crash, disk
  <2>2. Evidence' /\ Kept BY <2>1, DiskUnchanged DEF HoldsBefore
  <2> QED BY <1>2, <2>1, <2>2, RunGone
<1>4. CASE MayRun(dirty, allowDirty) /\ Directory \notin DOMAIN traces
  <2>1. run \in RunRecord /\ run.version \in Versions BY <1>1, Running DEF RunRecord
  <2>2. tree.files \in Versions /\ tree.commit \in Versions /\ server.up \in BOOLEAN
    BY DEF HoldsBefore, Shape
  <2>3. dirty \in Answers /\ (dirty = "clean" => tree.files = tree.commit)
    BY DEF CodeDirty, Answers
  <2> DEFINE k == Contracts(run.version, tree.files)
  <2>4. k \in Nat \X Nat /\ k[1] = Surface[run.version] BY <2>1, <2>2, ContractsTyped
  <2>5. run' = Manifested(run, tree.commit, dirty, tree.files, k, server.up)
    BY <1>4 DEF Manifest, Continue, Manifested
  <2> HIDE DEF k
  <2>6. /\ run' \in RunRecord /\ SameTasks(run, run')
        /\ run'.edited = run.edited /\ run'.commit = tree.commit /\ run'.dirty = dirty
        /\ run'.contracts = k /\ run'.ran = run.ran /\ run'.phase = "next"
        /\ run'.models = run.models /\ run'.opened = run.opened
    BY <2>1, <2>2, <2>3, <2>4, <2>5, ManifestSet
  <2>7. Evidence' /\ Kept
    <3>1. CASE run.kind = "upstream"
      <4>1. Directory \notin DOMAIN traces /\ traces' = With(traces, Directory, "done")
        BY <1>4, <3>1 DEF Manifest, MakesDirectory
      <4>2. Evidence BY DEF HoldsBefore
      <4> HIDE DEF Directory
      <4> QED BY <1>2, <4>1, <4>2, TraceWritten
    <3>2. CASE run.kind # "upstream"
      <4>1. UNCHANGED disk BY <1>2, <1>4, <3>2 DEF Manifest, MakesDirectory, disk
      <4> QED BY <4>1, DiskUnchanged DEF HoldsBefore
    <3> QED BY <3>1, <3>2
  <2>8. CodeFits(run) /\ ~run.opened BY <1>1, Running DEF PhaseFits
  <2>9. CodeFits(run)'
    BY <1>2, <2>3, <2>4, <2>6, <2>8 DEF CodeFits, SameTasks, Same
  <2>10. PhaseFits(run') /\ CacheFits(run', server'.cached) /\ TraceFits(run)'
    BY <2>6, <2>8 DEF PhaseFits, CacheFits, TraceFits
  <2> QED BY <1>1, <1>2, <2>6, <2>7, <2>9, <2>10, RunMoves
<1> QED BY <1>3, <1>4

\* An edit: of the code of a running script nothing more is known but its host's.
LEMMA EditHolds ==
  ASSUME HoldsBefore, UNCHANGED script, Edit
  PROVE  HoldsAfter
<1>1. UNCHANGED <<server, disk, documents>> BY DEF Edit, disk
<1>2. CASE run = NoRun
  <2>1. run' = run BY <1>2 DEF Edit, Alive
  <2> QED BY <1>1, <1>2, <2>1, RunStays
<1>3. CASE run # NoRun
  <2>1. run' = Edited(run) BY <1>3 DEF Edit, Alive, Edited
  <2>2. /\ run' \in RunRecord /\ SameTasks(run, run')
        /\ run'.edited = TRUE /\ run'.contracts = run.contracts
        /\ run'.phase = run.phase /\ run'.models = run.models
        /\ run'.opened = run.opened /\ run'.asked = run.asked /\ run'.cold = run.cold
    BY <1>3, <2>1, Running, EditedSet
  <2>3. /\ PhaseFits(run) /\ CacheFits(run, server.cached) /\ TraceFits(run)
        /\ CodeFits(run)
    BY <1>3, Running
  <2>4. PhaseFits(run') BY <2>2, <2>3 DEF PhaseFits, SameTasks, Same
  <2>5. CacheFits(run', server'.cached) BY <1>1, <2>2, <2>3 DEF CacheFits
  <2>6. TraceFits(run)'
    <3>1. TaskOf(run)' = TaskOf(run) BY <2>2 DEF TaskOf, SameTasks, Same
    <3> QED BY <1>1, <2>2, <2>3, <3>1 DEF TraceFits, disk
  <2>7. CodeFits(run)' BY <2>2, <2>3 DEF CodeFits, SameTasks, Same
  <2>8. Evidence' /\ Kept BY <1>1, DiskUnchanged DEF HoldsBefore
  <2> QED BY <1>1, <1>3, <2>2, <2>4, <2>5, <2>6, <2>7, <2>8, RunMoves
<1> QED BY <1>2, <1>3

\* The document takes over what holds of the run.
LEMMA WriteHolds ==
  ASSUME HoldsBefore, UNCHANGED script, Write
  PROVE  HoldsAfter
<1>1. run # NoRun /\ run.todo = <<>> BY DEF Write, In, Alive
<1>2. run' = NoRun /\ UNCHANGED <<traces, episodes>> BY DEF Write
<1>3. documents' = With(documents, Path, Document) BY DEF Write
<1>4. /\ Document.kind = run.kind /\ Document.results = run.results
      /\ Document.given = run.given /\ Document.version = run.version
      /\ Document.edited = run.edited /\ Document.commit = run.commit
      /\ Document.dirty = run.dirty /\ Document.contracts = run.contracts
      /\ Document.models = run.models
      /\ Document.counts => "other" \notin run.models
  BY DEF Document, StayedPut
<1>5. DocumentFits(Document)
  <2>1. run.results \in Seq(Result) /\ run.given \in Seq(ToSet(Tasks))
    BY <1>1, Running DEF RunRecord
  <2>2. TasksFit(run.kind, run.given, run.results, <<>>) /\ CodeFits(run)
    BY <1>1, Running DEF HoldsBefore, RunFits
  <2> HIDE DEF Document
  <2> QED BY <1>4, <2>1, <2>2 DEF DocumentFits, CodeFits
<1>6. ResultsFit(episodes, traces, Document)
  <2>1. ResultsFit(episodes, traces, run) BY <1>1 DEF HoldsBefore, RunFits
  <2> HIDE DEF Document
  <2> QED BY <1>4, <2>1 DEF ResultsFit, ResultFits
<1> HIDE DEF Document, Path
<1>7. Evidence' /\ Kept BY <1>2 DEF HoldsBefore, Evidence, Kept
<1>8. DocumentsFit'
  <2> SUFFICES ASSUME NEW p \in DOMAIN documents'
               PROVE  /\ DocumentFits(documents'[p])
                      /\ ResultsFit(episodes, traces, documents'[p])
    BY <1>2 DEF DocumentsFit
  <2>1. CASE p = Path BY <1>3, <1>5, <1>6, <2>1 DEF With
  <2>2. CASE p # Path
    <3>1. p \in DOMAIN documents /\ documents'[p] = documents[p]
      BY <1>3, <2>2 DEF With
    <3> QED BY <3>1 DEF HoldsBefore, DocumentsFit
  <2> QED BY <2>1, <2>2
<1> QED BY <1>2, <1>7, <1>8 DEF HoldsAfter, RunTyped, Phased, RunFits
-----------------------------------------------------------------------------
\* Each step of a script.
LEMMA ScriptHolds ==
  ASSUME HoldsBefore, UNCHANGED script, Script
  PROVE  HoldsAfter
BY ManifestHolds, BeginTaskHolds, ResetHolds, ResetFailsHolds, OpenTraceHolds,
   NewSessionHolds, InferFormatHolds, RootTurnHolds, SubCallHolds, ErrorStatusHolds,
   DroppedHolds, ProbeHolds, FinishHolds, SaveHolds, WriteHolds DEF Script

\* The steps around a run, and a consolidation, leave the run and its files.
LEMMA AroundHolds ==
  ASSUME HoldsBefore, UNCHANGED script,
         \/ ServerDies \/ ServerRestarts \/ Tick \/ Commit \/ UNCHANGED vars
         \/ \E paths \in SeqOf(Shards, MaxRuns + 1) : Consolidate(paths)
  PROVE  HoldsAfter
<1>1. UNCHANGED <<run, disk>>
  BY DEF ServerDies, ServerRestarts, Tick, Commit, vars, disk, Consolidate
<1>2. server'.cached = server.cached \/ server'.cached = FALSE
  <2>1. \/ UNCHANGED server
        \/ server' = [up |-> FALSE, cached |-> FALSE]
        \/ server' = [server EXCEPT !.up = TRUE]
    BY DEF ServerDies, ServerRestarts, Tick, Commit, vars, Consolidate
  <2>2. server \in [up : BOOLEAN, cached : BOOLEAN] BY DEF HoldsBefore, Shape
  <2>3. ASSUME server' = [server EXCEPT !.up = TRUE] PROVE server'.cached = server.cached
    BY <2>2, <2>3
  <2>4. ASSUME server' = [up |-> FALSE, cached |-> FALSE] PROVE server'.cached = FALSE
    BY <2>4
  <2> QED BY <2>1, <2>3, <2>4
<1>3. UNCHANGED documents BY <1>1 DEF disk
<1>4. tree'.files = tree.files
  <2>1. UNCHANGED tree \/ tree' = [tree EXCEPT !.commit = tree.files]
    BY DEF ServerDies, ServerRestarts, Tick, Commit, vars, Consolidate
  <2>2. tree \in [commit : Versions, files : Versions] BY DEF HoldsBefore, Shape
  <2> QED BY <2>1, <2>2
<1> QED BY <1>1, <1>2, <1>3, <1>4, RunStays

LEMMA KilledHolds ==
  ASSUME HoldsBefore, UNCHANGED script, Killed
  PROVE  HoldsAfter
<1>1. Evidence' /\ Kept BY DiskUnchanged DEF HoldsBefore, Killed
<1>2. run' = NoRun /\ UNCHANGED documents BY DEF Killed, disk
<1> QED BY <1>1, <1>2, RunGone

\* What a consolidation takes in.
LEMMA ConsolidateWhole ==
  ASSUME HoldsBefore, NEW paths \in SeqOf(Shards, MaxRuns + 1), paths # <<>>, Consolidate(paths)
  PROVE  ConsolidatedIsWhole'
<1> DEFINE shards == [i \in DOMAIN paths |-> documents[paths[i]]]
           rs == Results(shards)
           Seqs == [i \in DOMAIN shards |-> shards[i].results]
<1>1. PICK n \in Nat : paths \in [1 .. n -> Shards] BY DEF SeqOf
<1>2. n # 0
  <2> SUFFICES ASSUME n = 0 PROVE FALSE OBVIOUS
  <2>1. paths \in Seq(Shards) /\ Len(paths) = 0 BY <1>1, SeqDef
  <2> QED BY <2>1, EmptySeq
<1>3. DOMAIN shards = 1 .. n /\ \A i \in 1 .. n : shards[i] = documents[paths[i]]
  BY <1>1
<1>4. \A i \in 1 .. n :
        /\ DocumentFits(shards[i]) /\ ResultsFit(episodes, traces, shards[i])
        /\ shards[i].kind = "pilot"
  BY <1>1, <1>3 DEF HoldsBefore, DocumentsFit, Shards
<1>5. /\ Comparable(shards) /\ EachTaskOnce(rs)
      /\ \A i \in DOMAIN rs : Verified(rs[i])
      /\ combined'.results = rs /\ UNCHANGED <<traces, episodes>>
  BY DEF Consolidate, disk
<1>6. Seqs \in [1 .. n -> Seq(Result)] BY <1>3, <1>4 DEF DocumentFits
<1>7. rs = FlattenSeq(Seqs) BY DEF Results
<1>8. \A i \in 1 .. n : Seqs[i] = shards[i].results BY <1>3
<1> HIDE DEF shards, rs, Seqs
<1>9. /\ rs \in Seq(Result)
      /\ \A i \in 1 .. Len(rs) :
           \E j \in 1 .. n : \E k \in 1 .. Len(Seqs[j]) : rs[i] = Seqs[j][k]
  <2>1. n \in Nat \ {0} BY <1>2
  <2>2. Gathers(FlattenSeq(Seqs), Seqs, n, Result) BY <1>6, <2>1, FlattenGathers
  <2> QED BY <1>7, <2>2 DEF Gathers
<1>10. PICK m \in Nat : m = Len(rs) /\ DOMAIN rs = 1 .. m BY <1>9, LenProperties
<1>11. m = Len(Tasks) /\ {rs[i].task : i \in DOMAIN rs} = ToSet(Tasks)
  BY <1>5, <1>10, OnceEach DEF EachTaskOnce
<1>12. Evidence BY DEF HoldsBefore
<1>13. \A i, j \in 1 .. n : Surface[shards[i].version] = Surface[shards[j].version]
  <2>1. \A i, j \in 1 .. n : shards[i].contracts = shards[j].contracts
    BY <1>3, <1>5 DEF Comparable, Signature
  <2>2. \A i \in 1 .. n : shards[i].contracts[1] = Surface[shards[i].version]
    BY <1>4 DEF DocumentFits
  <2> QED BY <2>1, <2>2
<1>14. \A i \in 1 .. n : "other" \notin shards[i].models
  BY <1>3, <1>5 DEF Comparable, StayedPut
<1>15. ASSUME NEW i \in 1 .. m
       PROVE  /\ rs[i].status = "completed" /\ rs[i].episode.cold
              /\ rs[i].run \in DOMAIN episodes /\ traces[rs[i].run] = "done"
              /\ \E j \in 1 .. n : /\ rs[i].episode.host = shards[j].version
                                   /\ rs[i].episode.models \subseteq shards[j].models
  <2>1. PICK j \in 1 .. n : \E k \in 1 .. Len(shards[j].results) :
          rs[i] = shards[j].results[k]
    <3>1. PICK j \in 1 .. n : \E k \in 1 .. Len(Seqs[j]) : rs[i] = Seqs[j][k]
      BY <1>9, <1>10
    <3> QED BY <1>8, <3>1
  <2>2. Verified(rs[i]) BY <1>5, <1>10
  <2>3. rs[i].status = "completed" /\ rs[i].run \in DOMAIN episodes
    BY <2>2 DEF Verified
  <2>4. ResultFits(episodes, traces, shards[j], rs[i])
    BY <1>4, <2>1 DEF ResultsFit
  <2> QED BY <1>12, <2>3, <2>4 DEF ResultFits, Evidence
<1>16. \A i \in 1 .. m : "other" \notin rs[i].episode.models BY <1>14, <1>15
<1>17. \A i \in 1 .. m :
         Surface[rs[i].episode.host] = Surface[rs[1].episode.host]
  <2>1. 1 \in 1 .. m BY <1>11, TasksAre
  <2> SUFFICES ASSUME NEW i \in 1 .. m
               PROVE  Surface[rs[i].episode.host] = Surface[rs[1].episode.host]
    OBVIOUS
  <2>2. PICK j \in 1 .. n : rs[i].episode.host = shards[j].version BY <1>15
  <2>3. PICK l \in 1 .. n : rs[1].episode.host = shards[l].version BY <1>15, <2>1
  <2> QED BY <1>13, <2>2, <2>3
<1>18. \A i \in DOMAIN rs :
         /\ rs[i].status = "completed" /\ rs[i].episode.cold
         /\ "other" \notin rs[i].episode.models
         /\ rs[i].run \in DOMAIN episodes' /\ traces'[rs[i].run] = "done"
         /\ Surface[rs[i].episode.host] = Surface[rs[1].episode.host]
  BY <1>5, <1>10, <1>15, <1>16, <1>17
<1>19. Len(rs) = Len(Tasks) BY <1>10, <1>11
<1>20. combined'.results = rs BY <1>5
<1> QED BY <1>11, <1>18, <1>19, <1>20 DEF ConsolidatedIsWhole

\* The types of what is not a run, a document or a file.
LEMMA ShapeKept ==
  ASSUME Shape, [Next]_vars
  PROVE  Shape'
<1> USE DEF Shape
<1>a. MaxRuns \in Nat /\ MaxEvents \in Nat BY MeasuredAssumption
<1>1. server' \in [up : BOOLEAN, cached : BOOLEAN]
  <2>1. \/ UNCHANGED server
        \/ server' = [server EXCEPT !.cached = FALSE]
        \/ server' = [server EXCEPT !.cached = TRUE]
        \/ server' = [up |-> FALSE, cached |-> FALSE]
        \/ server' = [server EXCEPT !.up = TRUE]
    BY DEF Next, vars, Start, Script, Manifest, NewSession, BeginTask, Reset, ResetFails, OpenTrace,
           InferFormat, RootTurn, SubCall, Answered, ErrorStatus, Dropped, Probe,
           Finish, Save, Write, ServerDies, ServerRestarts, Killed, Tick, Edit, Commit,
           Consolidate
  <2>2. ASSUME server' = [server EXCEPT !.cached = FALSE]
        PROVE  server' \in [up : BOOLEAN, cached : BOOLEAN]
    BY <2>2
  <2>3. ASSUME server' = [server EXCEPT !.cached = TRUE]
        PROVE  server' \in [up : BOOLEAN, cached : BOOLEAN]
    BY <2>3
  <2>4. ASSUME server' = [up |-> FALSE, cached |-> FALSE]
        PROVE  server' \in [up : BOOLEAN, cached : BOOLEAN]
    BY <2>4
  <2>5. ASSUME server' = [server EXCEPT !.up = TRUE]
        PROVE  server' \in [up : BOOLEAN, cached : BOOLEAN]
    BY <2>5
  <2> QED BY <2>1, <2>2, <2>3, <2>4, <2>5
<1>2. tree' \in [commit : Versions, files : Versions]
  <2>1. \/ UNCHANGED tree
        \/ \E v \in Versions : tree' = [tree EXCEPT !.files = v]
        \/ tree' = [tree EXCEPT !.commit = tree.files]
    BY DEF Next, vars, Start, Script, Manifest, NewSession, BeginTask, Reset, ResetFails, OpenTrace,
           InferFormat, RootTurn, SubCall, Answered, ErrorStatus, Dropped, Probe, Raised,
           Finish, Save, Write, ServerDies, ServerRestarts, Killed, Tick, Edit, Commit,
           Consolidate
  <2> QED BY <2>1
<1>3. script' = script BY DEF Next, vars
<1>4. second' \in 1 .. MaxSecond
  <2>1. UNCHANGED second \/ (second < MaxSecond /\ second' = second + 1)
    BY DEF Next, vars, Start, Script, Manifest, NewSession, BeginTask, Reset, ResetFails, OpenTrace,
           InferFormat, RootTurn, SubCall, Answered, ErrorStatus, Dropped, Probe, Raised,
           Finish, Save, Write, ServerDies, ServerRestarts, Killed, Tick, Edit, Commit,
           Consolidate
  <2> QED BY <2>1, MeasuredAssumption
<1>5. runs' \in 0 .. MaxRuns
  <2>1. UNCHANGED runs \/ (runs < MaxRuns /\ runs' = runs + 1)
    BY DEF Next, vars, Start, Script, Manifest, NewSession, BeginTask, Reset, ResetFails, OpenTrace,
           InferFormat, RootTurn, SubCall, Answered, ErrorStatus, Dropped, Probe, Raised,
           Finish, Save, Write, ServerDies, ServerRestarts, Killed, Tick, Edit, Commit,
           Consolidate, BetweenRuns
  <2> QED BY <2>1, <1>a
<1>6. events' \in 0 .. MaxEvents
  <2>1. UNCHANGED events \/ (events < MaxEvents /\ events' = events + 1)
    BY DEF Next, vars, Start, Script, Manifest, NewSession, BeginTask, Reset, ResetFails, OpenTrace,
           InferFormat, RootTurn, SubCall, Answered, ErrorStatus, Dropped, Probe,
           Finish, Save, Write, ServerDies, ServerRestarts, Killed, Tick, Edit, Commit,
           Consolidate, Event, GitAnswers
  <2> QED BY <2>1, <1>a
<1> QED BY <1>1, <1>2, <1>3, <1>4, <1>5, <1>6
-----------------------------------------------------------------------------
\* Each step keeps the invariant's part about the run and the disk.
LEMMA StepHolds ==
  ASSUME HoldsBefore, [Next]_vars
  PROVE  HoldsAfter
<1>1. UNCHANGED script BY DEF Next, vars
<1>2. ASSUME NEW todo \in Selections, NEW config \in Options, Start(todo, config)
      PROVE  HoldsAfter
  BY <1>1, <1>2, StartHolds
<1>3. ASSUME Script PROVE HoldsAfter BY <1>1, <1>3, ScriptHolds
<1>4. ASSUME Killed PROVE HoldsAfter BY <1>1, <1>4, KilledHolds
<1>5. ASSUME Edit PROVE HoldsAfter BY <1>1, <1>5, EditHolds
<1>6. ASSUME \/ ServerDies \/ ServerRestarts \/ Tick \/ Commit \/ UNCHANGED vars
             \/ \E paths \in SeqOf(Shards, MaxRuns + 1) : Consolidate(paths)
      PROVE  HoldsAfter
  BY <1>1, <1>6, AroundHolds
<1> QED BY <1>2, <1>3, <1>4, <1>5, <1>6 DEF Next

\* A consolidation is whole when it is made, and its evidence stays.
LEMMA Consolidated ==
  ASSUME HoldsBefore, ConsolidatedIsWhole, HoldsAfter, [Next]_vars
  PROVE  ConsolidatedIsWhole'
<1>1. ASSUME NEW paths \in SeqOf(Shards, MaxRuns + 1), paths # <<>>, Consolidate(paths)
      PROVE  ConsolidatedIsWhole'
  BY <1>1, ConsolidateWhole
<1>2. ASSUME UNCHANGED combined PROVE ConsolidatedIsWhole'
  BY <1>2, ConsolidatedKept DEF HoldsBefore, HoldsAfter
<1>3. \/ UNCHANGED combined
      \/ \E paths \in SeqOf(Shards, MaxRuns + 1) : paths # <<>> /\ Consolidate(paths)
  BY DEF Next, vars, Start, Script, Manifest, NewSession, BeginTask, Reset, ResetFails, OpenTrace,
         InferFormat, RootTurn, SubCall, Answered, ErrorStatus, Dropped, Probe, Raised,
         Finish, Save, Write, ServerDies, ServerRestarts, Killed, Tick, Edit, Commit
<1> QED BY <1>1, <1>2, <1>3

\* The invariant holds at the start and through every step, which keeps the disk.
LEMMA InitInv == Init => IInv
<1> SUFFICES ASSUME Init PROVE IInv OBVIOUS
<1>1. Shape
  <2>1. 1 \in 1 .. MaxSecond /\ 0 \in 0 .. MaxRuns /\ 0 \in 0 .. MaxEvents
    BY MeasuredAssumption
  <2> QED BY <2>1 DEF Init, Shape
<1>2. run = NoRun /\ combined = NoRun BY DEF Init
<1>3. DOMAIN traces = {} /\ DOMAIN episodes = {} /\ DOMAIN documents = {} BY DEF Init
<1> QED BY <1>1, <1>2, <1>3
        DEF IInv, RunTyped, Phased, RunFits, DocumentsFit, Evidence, ConsolidatedIsWhole

LEMMA StepInv == IInv /\ [Next]_vars => IInv' /\ Kept
<1> SUFFICES ASSUME IInv, [Next]_vars PROVE IInv' /\ Kept OBVIOUS
<1>1. HoldsBefore /\ ConsolidatedIsWhole BY DEF IInv, HoldsBefore
<1>2. HoldsAfter BY <1>1, StepHolds
<1>3. ConsolidatedIsWhole' BY <1>1, <1>2, Consolidated
<1>4. Shape' BY <1>1, ShapeKept DEF HoldsBefore
<1> QED BY <1>2, <1>3, <1>4 DEF IInv, HoldsAfter

LEMMA Inductive == Spec => []IInv
<1>1. Init => IInv BY InitInv
<1>2. IInv /\ [Next]_vars => IInv' BY StepInv
<1> QED BY <1>1, <1>2, PTL DEF Spec

\* Every variable has its type: above all, a running script is at a phase it has
\* and its tasks are tasks of the suite (scripts/run_suite.py and the others).
THEOREM TypeCorrect == Spec => []TypeOK
<1>1. IInv => TypeOK
  <2> SUFFICES ASSUME IInv PROVE TypeOK OBVIOUS
  <2>1. Shape BY DEF IInv
  <2>2. ASSUME run # NoRun
        PROVE  /\ run.kind = script /\ run.version \in Versions /\ run.commit \in Versions
               /\ run.files \in Versions /\ run.ran \subseteq Versions
               /\ run.dirty \in {"clean", "dirty", "unknown"}
               /\ ToSet(run.todo) \subseteq ToSet(Tasks) /\ run.asked \in 0 .. MaxRequests
               /\ run.models \subseteq Served
               /\ run.phase \in {"load", "next", "format", "infer", "reset", "open",
                                   "turns", "probe", "save"}
               /\ run.phase \notin {"load", "next"} => run.todo # <<>>
               /\ \A i \in DOMAIN run.results : run.results[i].status \in Statuses
    <3>1. run \in RunRecord /\ run.kind = script BY <2>2 DEF IInv, RunTyped
    <3>2. /\ run.version \in Versions /\ run.commit \in Versions
          /\ run.asked \in 0 .. MaxRequests /\ run.models \subseteq Served
          /\ run.phase \in Phases /\ run.todo \in Seq(ToSet(Tasks))
          /\ run.results \in Seq(Result)
          /\ run.files \in Versions /\ run.ran \subseteq Versions /\ run.dirty \in Answers
      BY <3>1 DEF RunRecord
    <3>3. ToSet(run.todo) \subseteq ToSet(Tasks)
      <4>1. DOMAIN run.todo = 1 .. Len(run.todo) BY <3>2, LenProperties
      <4>2. \A i \in 1 .. Len(run.todo) : run.todo[i] \in ToSet(Tasks)
        BY <3>2, ElementOfSeq
      <4>3. \A x : x \in ToSet(run.todo) => \E i \in DOMAIN run.todo : x = run.todo[i]
        BY DEF ToSet
      <4> QED BY <4>1, <4>2, <4>3
    <3>4. \A i \in DOMAIN run.results : run.results[i].status \in Statuses
      <4>1. DOMAIN run.results = 1 .. Len(run.results) BY <3>2, LenProperties
      <4>2. \A i \in 1 .. Len(run.results) : run.results[i] \in Result
        BY <3>2, ElementOfSeq
      <4>3. \A r \in Result : r.status \in Statuses
        BY DEF Result, Failed, Complete, Failures, Statuses
      <4> QED BY <4>1, <4>2, <4>3
    <3>5. run.phase \notin {"load", "next"} => run.todo # <<>>
      BY <2>2 DEF IInv, Phased, PhaseFits
    <3> QED BY <3>1, <3>2, <3>3, <3>4, <3>5 DEF Phases, Answers
  <2>3. /\ \A id \in DOMAIN traces : traces[id] \in {"open", "exception", "done"}
        /\ DOMAIN episodes \subseteq DOMAIN traces
    BY DEF IInv, Evidence
  <2> QED BY <2>1, <2>2, <2>3 DEF TypeOK, Shape
<1> QED BY <1>1, Inductive, PTL

\* Every episode on disk and every completed record of a document started from an
\* empty prompt cache, through every failure, probe and death of the server
\* (MLXPromptCacheIsolation.before_episode).
THEOREM CleanStartCorrect == Spec => []CleanStart
<1>1. IInv => CleanStart
  <2> SUFFICES ASSUME IInv PROVE CleanStart OBVIOUS
  <2>1. \A id \in DOMAIN episodes : episodes[id].cold BY DEF IInv, Evidence
  <2>2. ASSUME NEW p \in DOMAIN documents, NEW i \in DOMAIN documents[p].results,
               documents[p].results[i].status = "completed"
        PROVE  documents[p].results[i].episode.cold
    <3>1. DocumentFits(documents[p]) /\ ResultsFit(episodes, traces, documents[p])
      BY DEF IInv, DocumentsFit
    <3>2. i \in 1 .. Len(documents[p].results)
      BY <3>1, LenProperties DEF DocumentFits
    <3> QED BY <2>2, <3>1, <3>2 DEF ResultsFit, ResultFits
  <2> QED BY <2>1, <2>2 DEF CleanStart
<1> QED BY <1>1, Inductive, PTL

\* Every document that was written accounts for the tasks it was given, in order: all
\* of them, but for a shard that stopped at a failure, its last record.  A completed
\* record is the episode on disk behind a closed trace, and no other model answered in
\* what counts as a decision.  Host and workers ran the recorded commit if the manifest
\* read a clean tree and nobody edited it since the script was loaded: no more can be
\* proved, for DecisionIsClean and DecisionRanCommit are refuted (run_suite.py,
\* run_pairs_pilot.py).
THEOREM DocumentCorrect == Spec => []DocumentIsWhole
<1>1. IInv => DocumentIsWhole
  <2> SUFFICES ASSUME IInv, NEW d, DocumentFits(d), ResultsFit(episodes, traces, d)
               PROVE
        /\ Len(d.results) <= Len(d.given)
        /\ Len(d.results) < Len(d.given) =>
             d.kind = "pilot" /\ d.results # <<>> /\ Last(d.results).status # "completed"
        /\ \A i \in DOMAIN d.results :
             /\ d.results[i].task = d.given[i]
             /\ d.kind = "pilot" /\ d.results[i].status # "completed"
                  => i = Len(d.results)
             /\ d.results[i].status = "completed" =>
                  /\ d.kind # "upstream" =>
                       Verified(d.results[i]) /\ traces[d.results[i].run] = "done"
                  /\ d.counts => "other" \notin d.results[i].episode.models
                  /\ d.dirty = "clean" /\ ~d.edited =>
                       /\ d.results[i].episode.host = d.commit
                       /\ d.results[i].episode.workers \subseteq {d.commit}
    BY DEF IInv, DocumentsFit, DocumentIsWhole
  <2>1. PICK n \in Nat : n = Len(d.results) /\ DOMAIN d.results = 1 .. n
    BY LenProperties DEF DocumentFits
  <2>2. TasksFit(d.kind, d.given, d.results, <<>>) BY DEF DocumentFits
  <2>3. Len(<<>>) = 0 OBVIOUS
  <2>4. PICK g \in Nat : g = Len(d.given) BY LenProperties DEF DocumentFits
  <2>5. n <= g BY <2>1, <2>2, <2>3, <2>4 DEF TasksFit
  <2>6. ASSUME n < g
        PROVE  d.kind = "pilot" /\ d.results # <<>> /\ Last(d.results).status # "completed"
    <3>1. d.kind = "pilot" /\ n > 0 /\ d.results[n].status # "completed"
      BY <2>1, <2>2, <2>3, <2>4, <2>6 DEF TasksFit
    <3>2. d.results # <<>> BY <2>1, <2>3, <3>1
    <3>3. Last(d.results) = d.results[n] BY <2>1 DEF Last
    <3> QED BY <3>1, <3>2, <3>3
  <2>7. ASSUME NEW i \in 1 .. n
        PROVE  /\ d.results[i].task = d.given[i]
               /\ d.kind = "pilot" /\ d.results[i].status # "completed" => i = n
    BY <2>1, <2>2 DEF TasksFit
  <2>8. ASSUME NEW i \in 1 .. n, d.results[i].status = "completed"
        PROVE  /\ d.kind # "upstream" =>
                    Verified(d.results[i]) /\ traces[d.results[i].run] = "done"
               /\ d.counts => "other" \notin d.results[i].episode.models
               /\ d.dirty = "clean" /\ ~d.edited =>
                    /\ d.results[i].episode.host = d.commit
                    /\ d.results[i].episode.workers \subseteq {d.commit}
    <3>1. ResultFits(episodes, traces, d, d.results[i]) BY <2>1 DEF ResultsFit
    <3>2. d.kind # "upstream" =>
            Verified(d.results[i]) /\ traces[d.results[i].run] = "done"
      BY <2>8, <3>1 DEF ResultFits, OnDisk, Verified
    <3>3. d.counts => "other" \notin d.results[i].episode.models
      BY <2>8, <3>1 DEF ResultFits, DocumentFits
    <3>4. d.dirty = "clean" /\ ~d.edited =>
            /\ d.results[i].episode.host = d.commit
            /\ d.results[i].episode.workers \subseteq {d.commit}
      BY <2>8, <3>1 DEF ResultFits, DocumentFits
    <3> QED BY <3>2, <3>3, <3>4
  <2> QED BY <2>1, <2>4, <2>5, <2>6, <2>7, <2>8
<1> QED BY <1>1, Inductive, PTL

\* A consolidation that was accepted has each task once, each from a verified cold
\* episode of the model asked for, under one contract (consolidate.py).
THEOREM ConsolidatedCorrect == Spec => []ConsolidatedIsWhole
<1>1. IInv => ConsolidatedIsWhole BY DEF IInv
<1> QED BY <1>1, Inductive, PTL

\* No step rewrites an episode.json or a trace that was closed (Trace opens with
\* "x", tracing.py), whatever scripts run under the same name.
THEOREM EvidenceCorrect == Spec => EvidenceStays
<1>1. IInv /\ [Next]_vars => [Kept]_vars BY StepInv
<1>2. Spec => [][Kept]_vars BY <1>1, Inductive, PTL DEF Spec
<1> QED BY <1>2 DEF EvidenceStays, Kept
-----------------------------------------------------------------------------
(***************************************************************************)
(* PairsScoring: what the answers of the pairs script score and what its   *)
(* audits find, for every sample, every set of texts, of rows and of       *)
(* calls.  The invariant: a text that is no longer the first one is valid  *)
(* for the value, and a result is what its value and its texts say it is.  *)
(***************************************************************************)
Presented == texts.final # texts.initial => Valid(value, texts.final)
ResultOf(answer, initial, final, at) ==
  [kind |-> "result", raw |-> ScoreAll(initial), final |-> ScoreAll(final),
   content |-> TypedPairs(answer),
   validated |-> Valid(answer, final),
   status |-> TaskStatus(initial, OfficialContext, Gold(OfficialContext, Specs[at]))]
Delivered == value \in Values \cup {NoValue}
Scored == result # None => result = ResultOf(value, texts.initial, texts.final, task)
Texts == [initial : Values \cup Candidates \cup {NoValue},
          final : Values \cup Candidates \cup {NoValue}]
ScoringInv == ScoringTypeOK /\ Delivered /\ texts \in Texts /\ Presented /\ Scored

\* The least and the largest of some positions of a sequence.
LEMMA MinIsMember ==
  ASSUME NEW T, T \subseteq Nat, T # {}
  PROVE  Min(T) \in T
<1>1. PICK x \in T : \A y \in T : ~(y < x)
  BY Least
<1>2. \A y \in T : x =< y
  BY <1>1
<1> QED BY <1>2 DEF Min

LEMMA MaxIsMember ==
  ASSUME NEW n \in Nat, NEW T, T \subseteq 1 .. n, T # {}
  PROVE  Max(T) \in T
<1> DEFINE Above == {n - x : x \in T}
<1>1. Above \subseteq Nat /\ Above # {}
  <2>1. \A x \in T : x \in Nat /\ x <= n
    OBVIOUS
  <2>2. \A x \in T : n - x \in Nat
    BY <2>1
  <2> QED BY <2>2
<1>2. PICK d \in Above : \A y \in Above : ~(y < d)
  BY <1>1, Least
<1>3. PICK x \in T : d = n - x
  OBVIOUS
<1>4. \A y \in T : x >= y
  <2> SUFFICES ASSUME NEW y \in T PROVE x >= y OBVIOUS
  <2>1. n - y \in Above OBVIOUS
  <2>2. ~(n - y < n - x) BY <1>2, <1>3, <2>1
  <2> QED BY <2>2
<1> QED BY <1>4 DEF Max

\* The last row about a record gives it a label, one of LABELS.
LEMMA RowsPredict ==
  ASSUME NEW window, NEW artifact \in RowTables
  PROVE  LET predicted == PredictionsFromRows(window, artifact.rows)
         IN  /\ DOMAIN predicted \subseteq DOMAIN Entries(window)
             /\ \A k \in DOMAIN predicted : predicted[k] \in Labels
<1> DEFINE table == artifact.rows
           credited == CreditedRows(window, table)
           predicted == PredictionsFromRows(window, table)
           About(k) == {c[2] : c \in {d \in credited : d[1] = k}}
<1>1. Len(table) \in Nat /\ DOMAIN table = 1 .. Len(table)
  BY ScoringAssumption
<1>2. \A c \in credited : /\ c[1] \in DOMAIN Entries(window) /\ c[2] \in DOMAIN table
                          /\ table[c[2]].value \in Labels
  BY DEF CreditedRows
<1>3. /\ DOMAIN predicted = {c[1] : c \in credited}
      /\ \A k \in DOMAIN predicted : predicted[k] = table[Max(About(k))].value
  BY DEF PredictionsFromRows
<1>4. ASSUME NEW k \in DOMAIN predicted
      PROVE  predicted[k] \in Labels
  <2> HIDE DEF credited, predicted, table
  <2>1. About(k) # {} BY <1>3
  <2>2. About(k) \subseteq 1 .. Len(table) BY <1>1, <1>2
  <2> DEFINE m == Max(About(k))
  <2>3. m \in About(k) BY <1>1, <2>1, <2>2, MaxIsMember
  <2>4. PICK c \in credited : c[2] = m BY <2>3
  <2> QED BY <1>2, <1>3, <2>4
<1>5. DOMAIN predicted \subseteq DOMAIN Entries(window)
  BY <1>2, <1>3
<1> HIDE DEF table
<1> QED BY <1>4, <1>5 DEF table

\* Nothing is scored or audited at first.
LEMMA ScoringStarts == ScoringInit => ScoringInv
<1> SUFFICES ASSUME ScoringInit PROVE ScoringInv OBVIOUS
<1>1. texts \in Texts BY DEF ScoringInit, Texts
<1>2. ScoringTypeOK BY DEF ScoringInit, ScoringTypeOK
<1>3. Presented /\ Scored /\ Delivered BY DEF ScoringInit, Presented, Scored, Delivered
<1> QED BY <1>1, <1>2, <1>3 DEF ScoringInv

\* What the audit of a run reports is about its records and in its labels.
Audited ==
  /\ report # None
  /\ report.measured \subseteq DOMAIN report.predicted
  /\ DOMAIN report.predicted \subseteq DOMAIN Entries(AuditedWindow)
  /\ \A k \in DOMAIN report.predicted : report.predicted[k] \in Labels

\* Of a run with a sweep, and of one with single-label calls.
LEMMA AuditRowsReports ==
  ASSUME NEW artifact \in RowTables, AuditRows(artifact)
  PROVE  Audited'
<1> DEFINE predicted == IF artifact.scope = "context" /\ artifact.intact
                        THEN PredictionsFromRows(AuditedWindow, artifact.rows) ELSE <<>>
<1>1. report' = [kind |-> "rows", predicted |-> predicted, measured |-> DOMAIN predicted]
  BY DEF AuditRows
<1>2. /\ DOMAIN predicted \subseteq DOMAIN Entries(AuditedWindow)
      /\ \A k \in DOMAIN predicted : predicted[k] \in Labels
  BY RowsPredict
<1>3. AuditedWindow' = AuditedWindow
  BY DEF AuditRows, AuditedWindow
<1> HIDE DEF predicted
<1> QED BY <1>1, <1>2, <1>3 DEF Audited, None

LEMMA AuditCallsReports ==
  ASSUME NEW calls \in CallLists, AuditCalls(calls)
  PROVE  Audited'
<1> DEFINE said(k) == {c \in DOMAIN calls : k \in AskedIn(AuditedWindow, calls[c])
                                              /\ Normalised(calls[c])}
           reached == {k \in DOMAIN Entries(AuditedWindow) : said(k) # {}}
           predicted == [k \in reached |-> calls[Min(said(k))].says]
           measured == {k \in reached : \E c \in said(k) :
                          AskedIn(AuditedWindow, calls[c]) = {k}}
<1>1. report' = [kind |-> "calls", predicted |-> predicted, measured |-> measured]
  BY DEF AuditCalls
<1>2. DOMAIN calls \subseteq Nat
  BY ScoringAssumption
<1>3. ASSUME NEW k \in reached PROVE predicted[k] \in Labels
  <2>1. said(k) # {} /\ said(k) \subseteq Nat BY <1>2
  <2>2. Min(said(k)) \in said(k) 
    <3> HIDE DEF said
    <3> QED BY <2>1, MinIsMember
  <2>3. Normalised(calls[Min(said(k))]) BY <2>2
  <2> QED BY <2>3 DEF Normalised
<1>4. /\ DOMAIN predicted = reached /\ reached \subseteq DOMAIN Entries(AuditedWindow)
      /\ measured \subseteq reached
  OBVIOUS
<1>5. AuditedWindow' = AuditedWindow
  BY DEF AuditCalls, AuditedWindow
<1> HIDE DEF predicted, reached, measured
<1> QED BY <1>1, <1>3, <1>4, <1>5 DEF Audited, None


\* The audit writes nothing but its report.
LEMMA AuditStep ==
  ASSUME ScoringInv,
         \/ \E artifact \in RowTables : AuditRows(artifact)
         \/ \E calls \in CallLists : AuditCalls(calls)
  PROVE  ScoringInv'
<1>1. Audited'
  BY AuditRowsReports, AuditCallsReports
<1>2. /\ phase = "begun" /\ phase' = "audited"
      /\ UNCHANGED <<task, value, texts, result>>
  BY DEF AuditRows, AuditCalls
<1>3. ScoringTypeOK'
  BY <1>1, <1>2 DEF ScoringInv, ScoringTypeOK, Audited
<1>4. Presented' /\ Scored' /\ Delivered' /\ (texts \in Texts)'
  BY <1>2 DEF ScoringInv, Presented, Scored, Delivered
<1> QED BY <1>3, <1>4 DEF ScoringInv

\* A first text is presented, with its value or without one.
LEMMA DeliverStep ==
  ASSUME ScoringInv, NEW answer \in Values, NEW text \in {answer} \cup Candidates,
         Deliver(answer, text) \/ EndWithout(answer)
  PROVE  ScoringInv'
<1>1. /\ phase = "begun" /\ phase' = "delivered" /\ UNCHANGED <<task, result, report>>
      /\ value' \in {value, answer}
      /\ \E t \in Values \cup Candidates : texts' = [initial |-> t, final |-> t]
  BY DEF Deliver, EndWithout
<1>2. result = None /\ report = None
  BY <1>1 DEF ScoringInv, ScoringTypeOK
<1>3. (texts \in Texts)'
  BY <1>1 DEF Texts
<1>4. texts'.initial = texts'.final /\ {texts'.initial, texts'.final} \subseteq Values \cup Candidates
  BY <1>1
<1>5. ScoringTypeOK'
  BY <1>1, <1>2, <1>4 DEF ScoringInv, ScoringTypeOK
<1>6. Presented' /\ Scored' /\ Delivered'
  BY <1>1, <1>2, <1>4 DEF ScoringInv, Presented, Scored, Delivered
<1> QED BY <1>3, <1>5, <1>6 DEF ScoringInv

\* A candidate is promoted when it is valid for the value that stays.
LEMMA RepairStep ==
  ASSUME ScoringInv, NEW candidate \in Candidates, Repair(candidate)
  PROVE  ScoringInv'
<1>1. /\ phase = "delivered" /\ phase' = "repaired"
      /\ UNCHANGED <<task, value, result, report>>
      /\ texts' = [texts EXCEPT !.final = IF Valid(value, candidate) THEN candidate ELSE @]
  BY DEF Repair
<1>2. result = None /\ report = None
  BY <1>1 DEF ScoringInv, ScoringTypeOK
<1>3. /\ texts' \in Texts /\ texts'.initial = texts.initial
      /\ texts'.final = IF Valid(value, candidate) THEN candidate ELSE texts.final
  BY <1>1 DEF ScoringInv, Texts
<1>4. ScoringTypeOK'
  BY <1>1, <1>2, <1>3 DEF ScoringInv, ScoringTypeOK, Texts
<1>5. Presented'
  <2>1. CASE Valid(value, candidate)
    <3>1. texts'.final = candidate BY <1>3, <2>1
    <3>2. Valid(value, texts.final)' BY <1>1, <2>1, <3>1 DEF Valid, Equivalent, Committable, Committed
    <3> QED BY <3>2 DEF Presented
  <2>2. CASE ~Valid(value, candidate)
    <3>1. texts' = texts BY <1>3, <2>2 DEF ScoringInv, Texts
    <3> QED BY <1>1, <3>1 DEF ScoringInv, Presented
  <2> QED BY <2>1, <2>2
<1>6. Scored' /\ Delivered' BY <1>1, <1>2 DEF ScoringInv, Scored, Delivered
<1> QED BY <1>3, <1>4, <1>5, <1>6 DEF ScoringInv

\* The result is computed from what is there.
LEMMA ScoreStep ==
  ASSUME ScoringInv, Score
  PROVE  ScoringInv'
<1>1. /\ phase \in {"delivered", "repaired"} /\ phase' = "scored"
      /\ UNCHANGED <<task, value, texts, report>>
      /\ result' = ResultOf(value, texts.initial, texts.final, task)
  BY DEF Score, ResultOf
<1>2. report = None /\ result' # None
  BY <1>1 DEF ScoringInv, ScoringTypeOK, ResultOf, None
<1>3. ScoringTypeOK'
  BY <1>1, <1>2 DEF ScoringInv, ScoringTypeOK
<1>4. Presented' /\ Delivered' /\ (texts \in Texts)'
  BY <1>1 DEF ScoringInv, Presented, Delivered
<1>5. Scored' BY <1>1 DEF Scored
<1> QED BY <1>3, <1>4, <1>5 DEF ScoringInv

\* Every action keeps the invariant.
LEMMA ScoringStep == ScoringInv /\ [ScoringNext]_scoringVars => ScoringInv'
<1> SUFFICES ASSUME ScoringInv, [ScoringNext]_scoringVars PROVE ScoringInv' OBVIOUS
<1>1. CASE \E answer \in Values :
             \/ \E text \in {answer} \cup Candidates : Deliver(answer, text)
             \/ EndWithout(answer)
  <2>1. PICK answer \in Values :
             \/ \E text \in {answer} \cup Candidates : Deliver(answer, text)
             \/ EndWithout(answer)
    BY <1>1
  <2>2. \E text \in {answer} \cup Candidates : Deliver(answer, text) \/ EndWithout(answer)
    BY <2>1
  <2> QED BY <2>2, DeliverStep
<1>2. CASE \E candidate \in Candidates : Repair(candidate)
  BY <1>2, RepairStep
<1>3. CASE Score
  BY <1>3, ScoreStep
<1>4. CASE \/ \E artifact \in RowTables : AuditRows(artifact)
           \/ \E calls \in CallLists : AuditCalls(calls)
  BY <1>4, AuditStep
<1>5. CASE UNCHANGED scoringVars
  BY <1>5 DEF scoringVars, ScoringInv, ScoringTypeOK, Delivered, Presented, Scored,
               AuditedWindow
<1> QED BY <1>1, <1>2, <1>3, <1>4, <1>5 DEF ScoringNext

LEMMA ScoringInvCorrect == ScoringSpec => []ScoringInv
  BY ScoringStarts, ScoringStep, PTL DEF ScoringSpec

(***************************************************************************)
(* The types of the scoring and of the audit: a measured record has a      *)
(* prediction, every prediction is of a record of the window, and what a   *)
(* call or a row said is credited only when it is a label.                 *)
(***************************************************************************)
THEOREM ScoringTypeCorrect == ScoringSpec => []ScoringTypeOK
<1>1. ScoringInv => ScoringTypeOK BY DEF ScoringInv
<1> QED BY <1>1, ScoringInvCorrect, PTL
-----------------------------------------------------------------------------
\* The parsers widen each other.
LEMMA ParsersWiden ==
  ASSUME NEW text
  PROVE  /\ ParseAnswer(text) \subseteq ParseAnswerRepl(text)
         /\ ParseAnswerRepl(text) \subseteq ParseAnswerLoose(text)
<1>1. PairsIn(text, {"paper", "quoted"}) \subseteq PairsIn(text, {"paper", "quoted", "repl"})
  BY DEF PairsIn
<1>2. ParseAnswer(text) \subseteq ParseAnswerRepl(text)
  BY <1>1 DEF ParseAnswer, ParseAnswerRepl
<1> QED BY <1>2 DEF ParseAnswerLoose

\* What a set of items names, whichever id is written first.
LEMMA OrderedNames ==
  ASSUME NEW items, NEW S
  PROVE  {{p[1], p[2]} : p \in {Ordered(items[i].l, items[i].r) : i \in S}}
           = {{items[i].l, items[i].r} : i \in S}
<1>1. \A a, b : {Ordered(a, b)[1], Ordered(a, b)[2]} = {a, b}
  <2> SUFFICES ASSUME NEW a, NEW b PROVE {Ordered(a, b)[1], Ordered(a, b)[2]} = {a, b}
    OBVIOUS
  <2>1. CASE a < b BY <2>1 DEF Ordered
  <2>2. CASE ~(a < b) BY <2>2 DEF Ordered
  <2> QED BY <2>1, <2>2
<1> DEFINE o(i) == Ordered(items[i].l, items[i].r)
           L == {{p[1], p[2]} : p \in {o(i) : i \in S}}
           R == {{items[i].l, items[i].r} : i \in S}
<1>2. \A i \in S : {o(i)[1], o(i)[2]} = {items[i].l, items[i].r} BY <1>1
<1> HIDE DEF o
<1>3. L \subseteq R BY <1>2
<1>4. R \subseteq L BY <1>2
<1>5. L = R BY <1>3, <1>4
<1> QED BY <1>5 DEF o

\* The code's reading of a value it can commit is what the value says: through the
\* loose parser for text, the pattern of one pair for strings, and the types for pairs.
LEMMA CommittedIsSaid ==
  ASSUME NEW answer \in Values, answer.form # "none", Committable(answer)
  PROVE  {{p[1], p[2]} : p \in Committed(answer)} = Said(answer)
<1> DEFINE items == answer.items
           Of(shapes) == {j \in DOMAIN items : items[j].shape \in shapes}
           Named == {j \in DOMAIN items : items[j].shape \notin {"single", "prose"}}
<1>1. /\ answer.form \in Forms /\ \A i \in DOMAIN items : items[i] \in Item
      /\ answer.form = "pairs" => \A i \in DOMAIN items : items[i].shape = "repl"
  BY ScoringAssumption
<1>2. Committed(answer) = {Ordered(items[i].l, items[i].r) : i \in Named}
  <2>1. CASE answer.form = "lines"
    <3>1. Committed(answer) = PairsIn(answer, {"paper", "quoted", "repl"})
                                \cup PairsIn(answer, {"bare", "spaced"})
      BY <2>1 DEF Committed, ParseAnswerLoose, ParseAnswerRepl
    <3>2. Named = Of({"paper", "quoted", "repl"}) \cup Of({"bare", "spaced"})
      BY <1>1 DEF Item, Shapes
    <3> QED BY <3>1, <3>2 DEF PairsIn
  <2>2. CASE answer.form = "pairs"
    <3>1. Typed(answer) BY <2>2 DEF Committable
    <3>2. Committed(answer) = {Ordered(items[i].l, items[i].r) : i \in DOMAIN items}
      BY <2>2, <3>1 DEF Committed, TypedPairs
    <3>3. Named = DOMAIN items BY <1>1, <2>2
    <3> QED BY <3>2, <3>3
  <2>3. CASE answer.form = "strings"
    <3>1. \A i \in DOMAIN items : items[i].shape \in {"paper", "bare", "spaced"}
      BY <2>3 DEF Committable
    <3>2. Committed(answer) = PairsIn(answer, Shapes) BY <2>3 DEF Committed
    <3>3. Named = DOMAIN items /\ Of(Shapes) = DOMAIN items BY <3>1 DEF Shapes
    <3> QED BY <3>2, <3>3 DEF PairsIn
  <2> QED BY <1>1, <2>1, <2>2, <2>3 DEF Forms
<1> HIDE DEF Named, items
<1>3. {{p[1], p[2]} : p \in Committed(answer)} = {{items[i].l, items[i].r} : i \in Named}
  BY <1>2, OrderedNames
<1> QED BY <1>3 DEF Said, Named, items

\* The three parsers agree about a text of the contract's grammar.
LEMMA GrammarParsesAlike ==
  ASSUME NEW text, ValidateOutput(text)
  PROVE  /\ ParseAnswerRepl(text) = ParseAnswer(text)
         /\ ParseAnswerLoose(text) = ParseAnswer(text)
         /\ \A p \in ParseAnswer(text) : p[1] < p[2]
<1> DEFINE Of(shapes) == {j \in DOMAIN text.items : text.items[j].shape \in shapes}
<1>1. /\ text.form = "lines"
      /\ \A i \in DOMAIN text.items :
           text.items[i].shape = "paper" /\ text.items[i].l < text.items[i].r
  BY DEF ValidateOutput
<1>2. /\ Of({"paper", "quoted"}) = DOMAIN text.items
      /\ Of({"paper", "quoted", "repl"}) = DOMAIN text.items
      /\ Of({"bare", "spaced"}) = {}
  BY <1>1
<1>3. PairsIn(text, {"paper", "quoted", "repl"}) = PairsIn(text, {"paper", "quoted"})
  BY <1>2 DEF PairsIn
<1>4. PairsIn(text, {"bare", "spaced"}) = {} BY <1>2 DEF PairsIn
<1>5. ParseAnswer(text) = PairsIn(text, {"paper", "quoted"}) BY <1>1 DEF ParseAnswer
<1>6. ParseAnswerRepl(text) = ParseAnswer(text)
  BY <1>1, <1>3, <1>5 DEF ParseAnswerRepl
<1>7. ParseAnswerLoose(text) = ParseAnswer(text)
  BY <1>1, <1>4, <1>6 DEF ParseAnswerLoose
<1>8. \A p \in ParseAnswer(text) : p[1] < p[2]
  BY <1>1, <1>5 DEF PairsIn, Ordered
<1> QED BY <1>6, <1>7, <1>8

(***************************************************************************)
(* An answer whose presentation the output contract accepts scores, for    *)
(* each of the three parsers and for the typed content, the pairs that the *)
(* delivered value names, lower id first: for texts of any length and      *)
(* shape.  The reading of the value (Said) is none of the code's.          *)
(***************************************************************************)
THEOREM AcceptedCorrect == ScoringSpec => []AcceptedMeansSame
<1>1. ScoringInv => AcceptedMeansSame
  <2> SUFFICES ASSUME ScoringInv, result # None, value.form # "none", result.validated
               PROVE  /\ {{p[1], p[2]} : p \in result.final.paper} = Said(value)
                      /\ \A p \in result.final.paper : p[1] < p[2]
                      /\ result.final.repl = result.final.paper
                      /\ result.final.loose = result.final.paper
                      /\ \A pairs \in result.content : pairs = result.final.paper
    BY DEF AcceptedMeansSame
  <2>1. result = ResultOf(value, texts.initial, texts.final, task)
    BY DEF ScoringInv, Scored
  <2>2. /\ result.final.paper = ParseAnswer(texts.final)
        /\ result.final.repl = ParseAnswerRepl(texts.final)
        /\ result.final.loose = ParseAnswerLoose(texts.final)
        /\ result.validated = Valid(value, texts.final)
        /\ result.content = TypedPairs(value)
    BY <2>1 DEF ResultOf, ScoreAll
  <2>3. /\ ValidateOutput(texts.final) /\ Committable(value)
        /\ Committed(value) = ParseAnswer(texts.final)
    BY <2>2 DEF Valid, Equivalent
  <2>4. value \in Values
    BY DEF ScoringInv, Delivered, NoValue
  <2>5. {{p[1], p[2]} : p \in ParseAnswer(texts.final)} = Said(value)
    BY <2>3, <2>4, CommittedIsSaid
  <2>6. /\ ParseAnswerRepl(texts.final) = ParseAnswer(texts.final)
        /\ ParseAnswerLoose(texts.final) = ParseAnswer(texts.final)
        /\ \A p \in ParseAnswer(texts.final) : p[1] < p[2]
    BY <2>3, GrammarParsesAlike
  <2>7. \A pairs \in result.content : pairs = Committed(value)
    BY <2>2 DEF TypedPairs, Typed, Committed
  <2> QED BY <2>2, <2>3, <2>5, <2>6, <2>7
<1> QED BY <1>1, ScoringInvCorrect, PTL

(***************************************************************************)
(* Each parser reads what the stricter one reads, and a repair adds no     *)
(* pair that was neither in the first text nor delivered.                  *)
(***************************************************************************)
THEOREM FormatCorrect == ScoringSpec => []FormatGainsNoContent
<1>1. ScoringInv => FormatGainsNoContent
  <2> SUFFICES ASSUME ScoringInv, result # None
               PROVE  /\ result.raw.paper \subseteq result.raw.repl
                      /\ result.raw.repl \subseteq result.raw.loose
                      /\ value.form # "none" =>
                           result.final.paper \subseteq result.raw.loose \cup Committed(value)
    BY DEF FormatGainsNoContent
  <2>1. result = ResultOf(value, texts.initial, texts.final, task)
    BY DEF ScoringInv, Scored
  <2>2. /\ result.final.paper = ParseAnswer(texts.final)
        /\ result.raw = ScoreAll(texts.initial)
    BY <2>1 DEF ResultOf, ScoreAll
  <2>3. /\ result.raw.paper = ParseAnswer(texts.initial)
        /\ result.raw.repl = ParseAnswerRepl(texts.initial)
        /\ result.raw.loose = ParseAnswerLoose(texts.initial)
    BY <2>2 DEF ScoreAll
  <2>4. /\ ParseAnswer(texts.initial) \subseteq ParseAnswerRepl(texts.initial)
        /\ ParseAnswerRepl(texts.initial) \subseteq ParseAnswerLoose(texts.initial)
    BY ParsersWiden
  <2>5. texts.final = texts.initial \/ Valid(value, texts.final)
    BY DEF ScoringInv, Presented
  <2>6. value.form # "none" /\ Valid(value, texts.final) =>
          ParseAnswer(texts.final) = Committed(value)
    BY DEF Valid, Equivalent
  <2> QED BY <2>2, <2>3, <2>4, <2>5, <2>6
<1> QED BY <1>1, ScoringInvCorrect, PTL
-----------------------------------------------------------------------------
(***************************************************************************)
(* The audit.                                                              *)
(***************************************************************************)
\* The k-th of a finite set of numbers exists.
LEMMA KthExists ==
  ASSUME NEW S, S \subseteq Nat, IsFiniteSet(S), NEW k \in 1 .. Cardinality(S)
  PROVE  \E i \in S : Cardinality({j \in S : j <= i}) = k
<1> DEFINE UpTo(i) == {j \in S : j <= i}
           P == {n \in Nat : n \in 1 .. Cardinality(S) =>
                               \E i \in S : Cardinality(UpTo(i)) = n}
<1>1. Cardinality(S) \in Nat /\ \A i \in S : IsFiniteSet(UpTo(i)) /\ Cardinality(UpTo(i)) \in Nat
  BY FS_Subset, FS_CardinalityType
<1>2. 0 \in P
  OBVIOUS
<1>3. ASSUME NEW n \in P PROVE n + 1 \in P
  <2> SUFFICES ASSUME n + 1 \in 1 .. Cardinality(S)
               PROVE  \E i \in S : Cardinality(UpTo(i)) = n + 1
    OBVIOUS
  <2> DEFINE Below == {j \in S : \E i \in S : Cardinality(UpTo(i)) = n /\ j <= i}
  <2>1. IsFiniteSet(Below) /\ Cardinality(Below) = n
    <3>1. CASE n = 0
      <4>1. \A i \in S : UpTo(i) # {} BY <1>1
      <4>2. \A i \in S : Cardinality(UpTo(i)) # 0 BY <1>1, <4>1, FS_EmptySet
      <4>3. Below = {} BY <3>1, <4>2
      <4> QED BY <3>1, <4>3, FS_EmptySet
    <3>2. CASE n # 0
      <4>1. PICK i \in S : Cardinality(UpTo(i)) = n BY <1>1, <3>2
      <4>2. ASSUME NEW h \in S, Cardinality(UpTo(h)) = n PROVE h <= i
        <5> SUFFICES ASSUME i < h PROVE FALSE BY <4>1, <4>2
        <5>1. UpTo(i) \subseteq UpTo(h) \ {h}
          <6>1. \A j \in S : j <= i => j <= h /\ j # h BY <4>1, <4>2
          <6> QED BY <6>1
        <5>2. /\ IsFiniteSet(UpTo(h) \ {h})
              /\ Cardinality(UpTo(h) \ {h}) = Cardinality(UpTo(h)) - 1
          <6>1. h \in UpTo(h) /\ IsFiniteSet(UpTo(h)) BY <1>1, <4>2
          <6> HIDE DEF UpTo
          <6> QED BY <6>1, FS_RemoveElement
        <5>3. Cardinality(UpTo(i)) <= Cardinality(UpTo(h) \ {h}) BY <5>1, <5>2, FS_Subset
        <5> QED BY <4>1, <4>2, <5>2, <5>3
      <4>3. Below = UpTo(i)
        <5>1. \A j, h \in S : Cardinality(UpTo(h)) = n /\ j <= h => j <= i
          <6> SUFFICES ASSUME NEW j \in S, NEW h \in S, Cardinality(UpTo(h)) = n, j <= h
                       PROVE  j <= i
            OBVIOUS
          <6>1. h <= i BY <4>2
          <6>2. j \in Nat /\ h \in Nat /\ i \in Nat BY <4>1
          <6> QED BY <6>1, <6>2
        <5>2. Below \subseteq UpTo(i) BY <5>1
        <5>3. UpTo(i) \subseteq Below BY <4>1
        <5> QED BY <5>2, <5>3
      <4> QED BY <1>1, <4>1, <4>3
    <3> QED BY <3>1, <3>2
  <2>2. S \ Below # {}
    <3>1. Below \subseteq S OBVIOUS
    <3> HIDE DEF Below
    <3> SUFFICES ASSUME S = Below PROVE FALSE BY <3>1
    <3> QED BY <2>1, <1>1
  <2>3. PICK m \in S \ Below : \A y \in S \ Below : ~(y < m)
    <3>1. S \ Below \subseteq Nat OBVIOUS
    <3> HIDE DEF Below
    <3> QED BY <2>2, <3>1, Least
  <2>4. UpTo(m) = Below \cup {m}
    <3>1. \A j \in Below : j <= m
      <4> SUFFICES ASSUME NEW j \in Below, m < j PROVE FALSE OBVIOUS
      <4>1. PICK i \in S : Cardinality(UpTo(i)) = n /\ j <= i OBVIOUS
      <4>2. m \in Below BY <4>1, <2>3
      <4> QED BY <4>2, <2>3
    <3>2. \A j \in S : j <= m /\ j # m => j \in Below
      <4> SUFFICES ASSUME NEW j \in S, j <= m, j # m, j \notin Below PROVE FALSE OBVIOUS
      <4>1. j < m OBVIOUS
      <4> HIDE DEF Below
      <4> QED BY <2>3, <4>1
    <3>3. m \in S /\ m <= m /\ Below \subseteq S BY <2>3
    <3> HIDE DEF Below
    <3> QED BY <3>1, <3>2, <3>3
  <2>5. Cardinality(UpTo(m)) = n + 1
    <3> HIDE DEF Below
    <3> QED BY <2>1, <2>3, <2>4, FS_AddElement
  <2> HIDE DEF UpTo
  <2> QED BY <2>3, <2>5
<1>4. k \in P
  <2>1. k \in Nat BY <1>1
  <2> HIDE DEF P
  <2> QED BY <1>2, <1>3, <2>1, Induction
<1> QED BY <1>4

\* The entries of a window are records.
LEMMA EntriesAreRecords ==
  ASSUME NEW window \in Seq(Line)
  PROVE  \E n \in Nat : Entries(window) \in [1 .. n -> Line]
<1>1. DOMAIN window = 1 .. Len(window) /\ Len(window) \in Nat
  OBVIOUS
<1>2. Records(window) \subseteq 1 .. Len(window)
  BY <1>1 DEF Records
<1>3. IsFiniteSet(Records(window)) /\ Records(window) \subseteq Nat
  <2>1. IsFiniteSet(1 .. Len(window)) BY <1>1, FS_Interval
  <2> QED BY <1>2, <2>1, FS_Subset
<1> DEFINE n == Cardinality(Records(window))
<1>4. n \in Nat BY <1>3, FS_CardinalityType
<1>5. ASSUME NEW k \in 1 .. n PROVE Lines(window)[k] \in Records(window)
  <2>1. \E i \in Records(window) : Cardinality({j \in Records(window) : j <= i}) = k
    BY <1>3, KthExists
  <2> QED BY <2>1 DEF Lines
<1>6. DOMAIN Lines(window) = 1 .. n BY DEF Lines
<1>7. Entries(window) = [k \in 1 .. n |-> window[Lines(window)[k]]]
  BY <1>6 DEF Entries
<1>8. \A k \in 1 .. n : window[Lines(window)[k]] \in Line
  BY <1>1, <1>2, <1>5
<1> HIDE DEF n
<1> QED BY <1>4, <1>7, <1>8

\* What a labelling leaves alone, and what it changes.
LEMMA RelabelledFields ==
  ASSUME NEW n \in Nat, NEW rows \in [1 .. n -> Line], NEW predicted
  PROVE  /\ DOMAIN Relabelled(rows, predicted) = 1 .. n /\ DOMAIN rows = 1 .. n
         /\ \A k \in 1 .. n :
              /\ Relabelled(rows, predicted)[k].user = rows[k].user
              /\ Relabelled(rows, predicted)[k].date = rows[k].date
              /\ k \in DOMAIN predicted =>
                   Relabelled(rows, predicted)[k].label = predicted[k]
              /\ (k \in DOMAIN predicted => predicted[k] \in STRING) =>
                   Relabelled(rows, predicted)[k] \in Line
<1> DEFINE new == Relabelled(rows, predicted)
           Label(k) == IF k \in DOMAIN predicted THEN predicted[k] ELSE rows[k].label
<1>1. new = [k \in 1 .. n |-> [rows[k] EXCEPT !.label = Label(k)]]
  BY DEF Relabelled
<1>2. ASSUME NEW k \in 1 .. n
      PROVE  /\ new[k].user = rows[k].user /\ new[k].date = rows[k].date
             /\ new[k].label = Label(k)
             /\ Label(k) \in STRING => new[k] \in Line
  <2>1. new[k] = [rows[k] EXCEPT !.label = Label(k)] BY <1>1
  <2> HIDE DEF new, Label
  <2> QED BY <2>1 DEF Line
<1>3. \A k \in 1 .. n : rows[k].label \in STRING
  BY DEF Line
<1> HIDE DEF new
<1> QED BY <1>1, <1>2, <1>3 DEF new

\* A labelling with the labels that are there is none.
LEMMA RelabelledSame ==
  ASSUME NEW n \in Nat, NEW rows \in [1 .. n -> Line], NEW predicted,
         \A k \in DOMAIN predicted : predicted[k] = rows[k].label
  PROVE  Relabelled(rows, predicted) = rows
<1>1. ASSUME NEW k \in 1 .. n
      PROVE  [rows[k] EXCEPT !.label = rows[k].label] = rows[k]
  BY DEF Line
<1>2. \A k \in 1 .. n : Relabelled(rows, predicted)[k] = rows[k]
  BY <1>1 DEF Relabelled
<1>3. Relabelled(rows, predicted) = [k \in 1 .. n |-> Relabelled(rows, predicted)[k]]
  BY DEF Relabelled
<1> QED BY <1>2, <1>3

\* Rows agree about users when they say the same about every row of theirs.
Agree(r, s, users) ==
  /\ DOMAIN r = DOMAIN s
  /\ \A i \in DOMAIN r : r[i].user = s[i].user
  /\ \A i \in DOMAIN r : r[i].user \in users =>
       r[i].label = s[i].label /\ r[i].date = s[i].date

\* ... and then they have the same answer.
LEMMA AnswerOfAgreeing ==
  ASSUME NEW r, NEW s, NEW users, NEW spec, Agree(r, s, users)
  PROVE  Answer(r, users, spec) = Answer(s, users, spec)
<1>1. \A u : Mine(r, u) = Mine(s, u)
  BY DEF Agree, Mine
<1>2. \A u \in users : \A i \in Mine(r, u) :
        r[i].label = s[i].label /\ r[i].date = s[i].date
  BY DEF Agree, Mine
<1>3. \A rule : \A u \in users : Dated(r, u, rule) = Dated(s, u, rule)
  <2> SUFFICES ASSUME NEW u \in users, NEW rule PROVE Dated(r, u, rule) = Dated(s, u, rule)
    OBVIOUS
  <2>1. \A i \in Mine(r, u) : r[i].label = s[i].label /\ r[i].date = s[i].date
    BY <1>2
  <2>2. Dated(r, u, rule) <=> Dated(s, u, rule)
    BY <1>1, <2>1 DEF Dated
  <2> QED BY <2>2, Zenon DEF Dated
<1>4. Qualified(r, users, spec) = Qualified(s, users, spec)
  BY <1>1, <1>2, <1>3 DEF Qualified
<1>5. \A label : \A u \in users : Count(r, u, label) = Count(s, u, label)
  <2> SUFFICES ASSUME NEW u \in users, NEW label
               PROVE  Count(r, u, label) = Count(s, u, label)
    OBVIOUS
  <2>1. {i \in Mine(r, u) : r[i].label = label} = {i \in Mine(s, u) : s[i].label = label}
    BY <1>1, <1>2
  <2> QED BY <2>1 DEF Count
<1>6. \A conditions : Side(r, users, conditions) = Side(s, users, conditions)
  BY <1>5 DEF Side
<1> QED BY <1>4, <1>6 DEF Answer

\* More users, more pairs.
LEMMA AnswerGrows ==
  ASSUME NEW rows, NEW users, NEW more, users \subseteq more, NEW spec
  PROVE  Answer(rows, users, spec) \subseteq Answer(rows, more, spec)
<1>1. Qualified(rows, users, spec) \subseteq Qualified(rows, more, spec)
  BY DEF Qualified
<1>2. \A conditions : Side(rows, users, conditions) \subseteq Side(rows, more, conditions)
  BY DEF Side
<1>3. PairsOf(Qualified(rows, users, spec)) \subseteq PairsOf(Qualified(rows, more, spec))
  BY <1>1 DEF PairsOf
<1>4. Cross(Side(rows, users, spec.a), Side(rows, users, spec.b))
        \subseteq Cross(Side(rows, more, spec.a), Side(rows, more, spec.b))
  BY <1>2 DEF Cross
<1> QED BY <1>3, <1>4 DEF Answer

\* The pairs of complete users, whatever the other records are labelled.
LEMMA CompleteBorrowsNothing ==
  ASSUME NEW n \in Nat, NEW rows \in [1 .. n -> Line], NEW predicted, NEW spec,
         NEW other \in [DOMAIN rows \ DOMAIN predicted -> Labels]
  PROVE  FromCompleteUsers(rows, spec, predicted) =
           FromCompleteUsers(Relabelled(rows, other), spec, predicted)
<1> DEFINE new == Relabelled(rows, other)
           users == CompleteUsers(rows, predicted)
           here == Relabelled(rows, predicted)
           there == Relabelled(new, predicted)
<1>1. /\ DOMAIN new = 1 .. n /\ DOMAIN rows = 1 .. n
      /\ \A k \in 1 .. n : /\ new[k].user = rows[k].user /\ new[k].date = rows[k].date
                           /\ new[k] \in Line
  <2>1. \A k \in DOMAIN other : other[k] \in STRING
    BY ScoringAssumption
  <2> QED BY <2>1, RelabelledFields
<1>2. new \in [1 .. n -> Line]
  BY <1>1 DEF Relabelled
<1>3. CompleteUsers(new, predicted) = users
  <2>1. UsersOf(new) = UsersOf(rows)
    BY <1>1 DEF UsersOf
  <2>2. \A u : Mine(new, u) = Mine(rows, u)
    BY <1>1 DEF Mine
  <2> HIDE DEF new
  <2> QED BY <2>1, <2>2 DEF CompleteUsers
<1>4. /\ DOMAIN here = 1 .. n
      /\ \A k \in 1 .. n : /\ here[k].user = rows[k].user /\ here[k].date = rows[k].date
                           /\ k \in DOMAIN predicted => here[k].label = predicted[k]
  BY RelabelledFields
<1>5. /\ DOMAIN there = 1 .. n
      /\ \A k \in 1 .. n : /\ there[k].user = new[k].user /\ there[k].date = new[k].date
                           /\ k \in DOMAIN predicted => there[k].label = predicted[k]
  <2> HIDE DEF new
  <2> QED BY <1>2, RelabelledFields
<1>6. \A k \in 1 .. n : rows[k].user \in users => k \in DOMAIN predicted
  BY <1>1 DEF CompleteUsers, Mine
<1> HIDE DEF new, users, here, there
<1>7. Agree(here, there, users)
  BY <1>1, <1>4, <1>5, <1>6 DEF Agree
<1> QED BY <1>3, <1>7, AnswerOfAgreeing DEF FromCompleteUsers, new, users, here, there

\* Right labels: true pairs, and the truth when the data fills in the rest.
LEMMA RightLabelsAreTrue ==
  ASSUME NEW window, NEW n \in Nat, Entries(window) \in [1 .. n -> Line],
         NEW predicted, NEW spec,
         \A k \in DOMAIN predicted : predicted[k] = Entries(window)[k].label
  PROVE  /\ FromCompleteUsers(Entries(window), spec, predicted) \subseteq Gold(window, spec)
         /\ Ceiling(Entries(window), spec, predicted) = Gold(window, spec)
<1> DEFINE rows == Entries(window)
<1>1. Relabelled(rows, predicted) = rows
  BY RelabelledSame
<1>2. CompleteUsers(rows, predicted) \subseteq UsersOf(rows)
  BY DEF CompleteUsers
<1>3. Answer(rows, CompleteUsers(rows, predicted), spec) \subseteq Answer(rows, UsersOf(rows), spec)
  BY <1>2, AnswerGrows
<1> QED BY <1>1, <1>3 DEF FromCompleteUsers, Ceiling, Gold

(***************************************************************************)
(* The pairs an audit credits to complete users do not depend on the       *)
(* labels of the data, and with right labels they are true and the ceiling *)
(* is the truth (pairs_from_labels), for every window and every task.      *)
(***************************************************************************)
THEOREM AuditCorrect == ScoringSpec => []AuditBorrowsNothing
<1>1. ScoringInv => AuditBorrowsNothing
  <2> SUFFICES ASSUME ScoringInv, report # None PROVE AuditBorrowsNothing
    BY DEF AuditBorrowsNothing
  <2> DEFINE rows == Entries(AuditedWindow)
             spec == Specs[task]
             predicted == report.predicted
  <2>1. AuditedWindow \in Seq(Line)
    <3>1. task \in DOMAIN Sample BY ScoringAssumption DEF ScoringInv, ScoringTypeOK
    <3>2. Sample \in Seq(Seq(Line)) BY ScoringAssumption
    <3> QED BY <3>1, <3>2 DEF AuditedWindow
  <2>2. PICK n \in Nat : rows \in [1 .. n -> Line]
    BY <2>1, EntriesAreRecords
  <2>3. \A other \in [DOMAIN rows \ DOMAIN predicted -> Labels] :
          FromCompleteUsers(rows, spec, predicted) =
            FromCompleteUsers(Relabelled(rows, other), spec, predicted)
    <3> HIDE DEF rows, spec, predicted
    <3> QED BY <2>2, CompleteBorrowsNothing
  <2>4. (\A k \in DOMAIN predicted : predicted[k] = rows[k].label) =>
          /\ FromCompleteUsers(rows, spec, predicted) \subseteq Gold(AuditedWindow, spec)
          /\ Ceiling(rows, spec, predicted) = Gold(AuditedWindow, spec)
    <3> HIDE DEF spec, predicted
    <3> QED BY <2>2, RightLabelsAreTrue
  <2> QED BY <2>3, <2>4 DEF AuditBorrowsNothing
<1> QED BY <1>1, ScoringInvCorrect, PTL
=============================================================================
