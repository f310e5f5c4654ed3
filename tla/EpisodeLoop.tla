---------------------------- MODULE EpisodeLoop ----------------------------
(***************************************************************************)
(* One episode: NativeLoop.run and _commit (native_loop.py) over a session *)
(* that holds the delivery (Session._submit and execute in repl/worker.py, *)
(* read_submission in engine.py).                                          *)
(*                                                                         *)
(* The loop asks the model, runs the block it wrote, reads what the        *)
(* session delivered, and counts errors, truncations and repeats apart;    *)
(* when a budget is spent or a counter reaches its limit it grants a few   *)
(* turns to commit.  A block offers values with submit(); the offer is     *)
(* committed when the block ends without raising.  A reply is the kind of  *)
(* turn it is, a value a model value, a block the steps it takes.          *)
(***************************************************************************)
EXTENDS Naturals

CONSTANTS
  MaxTurns,       \* Budget.max_turns of this node
  MaxErrors,      \* Budget.max_consecutive_errors, 0 for None
  MaxTruncations, \* Budget.max_consecutive_truncations
  MaxDuplicates,  \* Budget.max_consecutive_duplicates
  MaxCommits,     \* TerminalPolicy.max_commit_attempts
  MaxRecoveries,  \* TerminalPolicy.max_partial_recovery_attempts
  MaxSubmits,     \* bound: calls of submit() in one block
  Values,         \* values the model may submit
  Dangling,       \* those that name an artifact nobody wrote
  NoValue         \* nothing submitted

ASSUME LoopAssumption ==
  /\ {MaxTurns, MaxErrors, MaxTruncations, MaxDuplicates, MaxCommits,
      MaxRecoveries, MaxSubmits} \subseteq Nat
  /\ MaxTruncations > 0 /\ MaxDuplicates > 0 /\ MaxRecoveries <= 1
  /\ Dangling \subseteq Values
  /\ NoValue \notin Values

VARIABLES
  stage,      \* "run", "commit" or "done"
  at,         \* "ask", "block" (the session runs one) or "observed"
  turns,      \* Budget.turns_here
  asked,      \* history: requests sent to the model on this node
  errs,       \* consecutive_errors
  truncs,     \* consecutive_truncations
  dups,       \* consecutive_duplicates
  ran,        \* has CallLedger seen a block?
  spent,      \* is a limit of the shared ledger reached?
  partial,    \* is pending_partial (later `partial`) set?
  attempt,    \* commit attempts made
  allowed,    \* allowed_attempts
  cut,        \* last_was_truncated
  barren,     \* history: turns in a row without a block that got anywhere
  obs,        \* what the observation of the current turn says
  outcome,    \* how the episode ended: "open" until it does
  answer,     \* LoopResult.answer_value
  submitted,  \* Session._submitted
  offer,      \* Session._pending
  submits,    \* history: submit() calls of the current or last block
  sweep,      \* does the session hold a partial sweep to retry?
  clean       \* history: values offered by blocks that did not raise

counters == <<errs, truncs, dups, barren>>
budget   == <<turns, spent>>
commit   == <<attempt, allowed, cut>>
session  == <<submitted, offer, submits, sweep>>
result   == <<outcome, answer>>
vars == <<stage, at, asked, budget, counters, ran, partial, commit, obs, result,
          session, clean>>

Nothing ==
  [ok |-> FALSE, progress |-> FALSE, repeat |-> FALSE, sweep |-> "none"]

\* Budget.exhausted
Exhausted == turns >= MaxTurns \/ spent

\* Mutant: truncations do not stall an episode.
StalledByErrorsOnly ==
  \/ MaxErrors > 0 /\ errs >= MaxErrors
  \/ dups >= MaxDuplicates

\* run: the three counters, each with a limit of its own.
Stalled ==
  \/ MaxErrors > 0 /\ errs >= MaxErrors
  \/ truncs >= MaxTruncations
  \/ dups >= MaxDuplicates
-----------------------------------------------------------------------------
Init ==
  /\ stage = "run" /\ at = "ask"
  /\ turns = 0 /\ asked = 0
  /\ errs = 0 /\ truncs = 0 /\ dups = 0
  /\ ran = FALSE
  /\ spent = FALSE
  /\ barren = 0
  /\ partial = FALSE
  /\ attempt = 0 /\ allowed = 0 /\ cut = FALSE
  /\ obs = Nothing
  /\ outcome = "open" /\ answer = NoValue
  /\ submitted = NoValue /\ offer = NoValue /\ submits = 0
  /\ sweep = FALSE
  /\ clean = {}

Finish(how, value) ==
  /\ stage' = "done"
  /\ at' = "ask"
  /\ outcome' = how
  /\ answer' = value

\* The clock, the tokens of a reply, the subcalls of a block.
Spends == spent' \in {spent, TRUE}

(***************************************************************************)
(* run: a turn of the ordinary loop is charged, and the model is asked.    *)
(* The reply is named by what the loop does with it.                       *)
(***************************************************************************)
AskRun ==
  /\ stage = "run" /\ at = "ask"
  /\ ~Exhausted /\ ~Stalled
  /\ turns' = turns + 1
  /\ asked' = asked + 1
  /\ Spends

\* An <answer> tag, or prose without a call: the episode ends on its text.
RunText ==
  /\ AskRun
  /\ Finish("text", NoValue)
  /\ UNCHANGED <<counters, ran, partial, commit, obs, session, clean>>

\* Neither content nor a call.
RunEmpty ==
  /\ AskRun
  /\ Finish("nothing", NoValue)
  /\ UNCHANGED <<counters, ran, partial, commit, obs, session, clean>>

\* Cut at max_tokens: whatever call it carries is not dispatched.
RunTruncated ==
  /\ AskRun
  /\ truncs' = truncs + 1
  /\ barren' = barren + 1
  /\ UNCHANGED <<stage, at, errs, dups, ran, partial, commit, obs, result,
                 session, clean>>

\* XML of a tool call in the content.
RunMalformed ==
  /\ AskRun
  /\ errs' = errs + 1
  /\ barren' = barren + 1
  /\ UNCHANGED <<stage, at, truncs, dups, ran, partial, commit, obs, result,
                 session, clean>>

\* _dispatch without a block to run: an unknown tool, or no code.
RunNoBlock ==
  /\ AskRun
  /\ at' = "observed"
  /\ obs' = Nothing
  /\ UNCHANGED <<stage, counters, ran, partial, commit, result, session, clean>>

\* Session.execute begins: "each block offers afresh".
Begin(repeat) ==
  /\ at' = "block"
  /\ offer' = NoValue
  /\ submits' = 0
  /\ obs' = [Nothing EXCEPT !.repeat = repeat]
  /\ ran' = TRUE

\* _run: the block is executed, whether or not its text has run before.
RunBlock ==
  /\ AskRun
  /\ \E repeat \in BOOLEAN : (repeat => ran) /\ Begin(repeat)
  /\ UNCHANGED <<stage, counters, partial, commit, result, submitted, sweep,
                 clean>>
-----------------------------------------------------------------------------
(***************************************************************************)
(* submit(): refused when an answer is committed or one is offered in this *)
(* block.  The refusal raises in the model's code, which may catch it.     *)
(***************************************************************************)
BlockSubmits ==
  /\ at = "block"
  /\ submits < MaxSubmits
  /\ submits' = submits + 1
  /\ \E v \in Values :
       offer' = IF submitted = NoValue /\ offer = NoValue THEN v ELSE offer
  /\ UNCHANGED <<stage, at, asked, budget, counters, ran, partial, commit, obs,
                 result, submitted, sweep, clean>>

(***************************************************************************)
(* A host or semantic operation succeeds inside the block: progress, and   *)
(* perhaps a sweep that is complete, or partial and registered for retry.  *)
(***************************************************************************)
BlockWorks ==
  /\ at = "block"
  /\ ~obs.progress
  /\ \E s \in {"none", "complete", "partial"} :
       /\ obs' = [obs EXCEPT !.progress = TRUE, !.sweep = s]
       /\ sweep' = IF s = "none" THEN sweep ELSE s = "partial"
  /\ Spends
  /\ UNCHANGED <<stage, at, asked, turns, counters, ran, partial, commit,
                 result, submitted, offer, submits, clean>>

\* Mutant: an offer is committed although its block raised.
EndBlockAnyway(ok) ==
  /\ at = "block"
  /\ at' = "observed"
  /\ obs' = [obs EXCEPT !.ok = ok]
  /\ submitted' = IF offer # NoValue THEN offer ELSE submitted
  /\ clean' = IF ok /\ offer # NoValue THEN clean \cup {offer} ELSE clean
  /\ offer' = NoValue
  /\ UNCHANGED <<stage, asked, budget, counters, ran, partial, commit, result,
                 submits, sweep>>

\* Session.execute ends: "delivery commits here and only here".
EndBlock(ok) ==
  /\ at = "block"
  /\ at' = "observed"
  /\ obs' = [obs EXCEPT !.ok = ok]
  /\ submitted' = IF ok /\ offer # NoValue THEN offer ELSE submitted
  /\ clean' = IF ok /\ offer # NoValue THEN clean \cup {offer} ELSE clean
  /\ offer' = NoValue
  /\ UNCHANGED <<stage, asked, budget, counters, ran, partial, commit, result,
                 submits, sweep>>

\* The block ran over its time: a new, empty session and an error observation.
BlockTimesOut ==
  /\ at = "block"
  /\ at' = "observed"
  /\ obs' = [Nothing EXCEPT !.repeat = obs.repeat]
  /\ submitted' = NoValue
  /\ offer' = NoValue
  /\ sweep' = FALSE
  /\ Spends
  /\ UNCHANGED <<stage, asked, turns, counters, ran, partial, commit, result,
                 submits, clean>>

\* A ReplError, or the model server's own: the engine records it and raises.
EpisodeFails ==
  /\ stage # "done"
  /\ Finish("error", NoValue)
  /\ submitted' = NoValue
  /\ offer' = NoValue
  /\ sweep' = FALSE
  /\ UNCHANGED <<asked, budget, counters, ran, partial, commit, obs, submits,
                 clean>>
-----------------------------------------------------------------------------
\* An operation_result replaces pending_partial, no result leaves it alone.
NextPartial ==
  CASE obs.sweep = "partial"  -> TRUE
    [] obs.sweep = "complete" -> FALSE
    [] OTHER                  -> partial

\* read_submission: a value that cannot be resolved is voided.
Void == submitted \in Dangling /\ submitted' = NoValue

Absent == submitted = NoValue /\ submitted' = NoValue

\* Mutant: a block that failed clears the truncations as well.
CountTruncsForgotten ==
  /\ dups' = IF obs.repeat THEN dups + 1 ELSE 0
  /\ truncs' = 0
  /\ errs' = IF obs.ok \/ obs.progress THEN 0 ELSE errs + 1
  /\ barren' = IF obs.ok \/ obs.progress THEN 0 ELSE barren + 1

\* run: repeats are counted apart from success, progress clears the others.
Count ==
  /\ dups' = IF obs.repeat THEN dups + 1 ELSE 0
  /\ truncs' = IF obs.ok \/ obs.progress THEN 0 ELSE truncs
  /\ errs' = IF obs.ok \/ obs.progress THEN 0 ELSE errs + 1
  /\ barren' = IF obs.ok \/ obs.progress THEN 0 ELSE barren + 1

\* run, after the dispatch: nothing usable was delivered, the loop goes on.
RunGoesOn ==
  /\ stage = "run" /\ at = "observed"
  /\ Absent \/ Void
  /\ at' = "ask"
  /\ partial' = NextPartial
  /\ Count
  /\ obs' = Nothing
  /\ UNCHANGED <<stage, asked, budget, ran, commit, result, offer, submits,
                 sweep, clean>>

\* run and _commit: a delivered value ends the episode.
Deliver ==
  /\ at = "observed"
  /\ submitted \in Values \ Dangling
  /\ Finish("value", submitted)
  /\ partial' = NextPartial
  /\ UNCHANGED <<asked, budget, counters, ran, commit, obs, session, clean>>
-----------------------------------------------------------------------------
\* run: the budget or a stall; _commit begins.
StartCommit ==
  /\ stage = "run" /\ at = "ask"
  /\ Exhausted \/ Stalled
  /\ stage' = "commit"
  /\ attempt' = 0
  /\ allowed' = MaxCommits + (IF partial THEN MaxRecoveries ELSE 0)
  /\ cut' = FALSE
  /\ UNCHANGED <<at, asked, budget, counters, ran, partial, obs, result,
                 session, clean>>

\* _commit: one more request, on nobody's budget.
AskCommit ==
  /\ stage = "commit" /\ at = "ask"
  /\ attempt < allowed
  /\ attempt' = attempt + 1
  /\ asked' = asked + 1
  /\ allowed' = allowed
  /\ Spends
  /\ turns' = turns

CommitText ==
  /\ AskCommit
  /\ cut' = FALSE
  /\ Finish("text", NoValue)
  /\ UNCHANGED <<counters, ran, partial, obs, session, clean>>

\* Truncated: nothing is read, not even a tag.
CommitTruncated ==
  /\ AskCommit
  /\ cut' = TRUE
  /\ UNCHANGED <<stage, at, counters, ran, partial, obs, result, session, clean>>

\* Prose, an unknown tool, no code, or a fresh sweep refused by its AST.
CommitNoBlock ==
  /\ AskCommit
  /\ cut' = FALSE
  /\ at' = "observed"
  /\ obs' = Nothing
  /\ UNCHANGED <<stage, counters, ran, partial, result, session, clean>>

CommitBlock ==
  /\ AskCommit
  /\ cut' = FALSE
  /\ \E repeat \in BOOLEAN : (repeat => ran) /\ Begin(repeat)
  /\ UNCHANGED <<stage, counters, partial, result, submitted, sweep, clean>>

\* _commit, after an attempt that delivered nothing.
CommitGoesOn ==
  /\ stage = "commit" /\ at = "observed"
  /\ Absent \/ Void
  /\ at' = "ask"
  /\ partial' = NextPartial
  /\ obs' = Nothing
  /\ UNCHANGED <<stage, asked, budget, counters, ran, commit, result, offer,
                 submits, sweep, clean>>

\* Mutant: the loop waits for an attempt past the last one.
CommitEndsLate ==
  /\ stage = "commit" /\ at = "ask"
  /\ attempt > allowed
  /\ Finish("nothing", NoValue)
  /\ UNCHANGED <<asked, budget, counters, ran, partial, commit, obs, session,
                 clean>>

\* _commit gives up: the episode has no answer.
CommitEnds ==
  /\ stage = "commit" /\ at = "ask"
  /\ attempt = allowed
  /\ Finish("nothing", NoValue)
  /\ UNCHANGED <<asked, budget, counters, ran, partial, commit, obs, session,
                 clean>>
-----------------------------------------------------------------------------
Model ==
  \/ RunText \/ RunEmpty \/ RunTruncated \/ RunMalformed
  \/ RunNoBlock \/ RunBlock
  \/ CommitText \/ CommitTruncated \/ CommitNoBlock \/ CommitBlock

Block ==
  \/ BlockSubmits \/ BlockWorks \/ (\E ok \in BOOLEAN : EndBlock(ok))
  \/ BlockTimesOut

Harness == RunGoesOn \/ Deliver \/ StartCommit \/ CommitGoesOn \/ CommitEnds

Over == stage = "done" /\ UNCHANGED vars

Next == Model \/ Block \/ Harness \/ EpisodeFails \/ Over

Spec == Init /\ [][Next]_vars

\* A request is answered, execute comes back (ReplSession!ExecuteReturns).
FairSpec == Spec /\ WF_vars(Model) /\ WF_vars(Block) /\ WF_vars(Harness)
-----------------------------------------------------------------------------
\* TypeOK: the types; a limit of the ordinary loop is passed by nobody.
TypeOK ==
  /\ stage \in {"run", "commit", "done"}
  /\ at \in {"ask", "block", "observed"}
  /\ turns \in 0 .. MaxTurns
  /\ asked \in Nat
  /\ errs \in Nat
  /\ truncs \in 0 .. MaxTruncations /\ dups \in 0 .. MaxDuplicates
  /\ ran \in BOOLEAN /\ partial \in BOOLEAN /\ cut \in BOOLEAN
  /\ spent \in BOOLEAN
  /\ barren \in 0 .. MaxTurns
  /\ attempt \in 0 .. allowed
  /\ allowed \in 0 .. MaxCommits + MaxRecoveries
  /\ obs \in [ok : BOOLEAN, progress : BOOLEAN, repeat : BOOLEAN,
              sweep : {"none", "partial", "complete"}]
  /\ outcome \in {"open", "value", "text", "nothing", "error"}
  /\ answer \in Values \cup {NoValue}
  /\ {submitted, offer} \subseteq Values \cup {NoValue}
  /\ submits \in 0 .. MaxSubmits
  /\ sweep \in BOOLEAN
  /\ clean \subseteq Values

(***************************************************************************)
(* Errors and truncations are counted apart, and each may stay below its   *)
(* limit while the other grows; still no episode goes on through more      *)
(* turns in a row without progress than both limits allow together, since  *)
(* every such turn counts once and only progress clears a count.  (With    *)
(* the errors uncounted, max_turns is the bound.)                          *)
(***************************************************************************)
StallIsCaught == MaxErrors > 0 => barren < MaxErrors + MaxTruncations

(***************************************************************************)
(* However it ends, an episode sends at most max_turns requests and the    *)
(* commit attempts its policy allows, the extra one only for a partial     *)
(* sweep; the commit phase spends no turn of the budget.  (The requests of *)
(* _repair_presentation come after the answer: PresentationRepair.)        *)
(***************************************************************************)
RequestsAreBounded == asked <= MaxTurns + MaxCommits + MaxRecoveries

(***************************************************************************)
(* An episode that gets nowhere stops, and none asks without end (run and  *)
(* _commit of NativeLoop).                                                 *)
(***************************************************************************)
EffortIsBounded == StallIsCaught /\ RequestsAreBounded

\* Every episode ends, whatever the model replies and its blocks do.
EpisodeEnds == <>(stage = "done")

(***************************************************************************)
(* The episode implements its contract: DeliveryContract forgets the two   *)
(* phases, the budgets and counters, and what a block does before it ends. *)
(* Only a block that finished leaves a value ("half-finished work must      *)
(* never be published"), a usable one is the answer of that very turn, no   *)
(* block runs while one is held, and nothing follows the end (run, _commit *)
(* and _submission of NativeLoop, read_submission).                        *)
(***************************************************************************)
DC == INSTANCE DeliveryContract WITH
        Limit <- MaxTurns + MaxCommits + MaxRecoveries,
        at <- IF stage = "done" THEN "over" ELSE at,
        held <- submitted

Contract == DC!Spec
-----------------------------------------------------------------------------
(***************************************************************************)
(* The comment in Session.execute: "a block delivers if and only if it     *)
(* called submit() exactly once and completed without raising".  A block   *)
(* that catches the refusal of its second call delivers its first value.   *)
(***************************************************************************)
DeliversOnceOnly == at = "observed" /\ submitted # NoValue => submits = 1

(***************************************************************************)
(* COMMIT_PARTIAL tells the model that the sweep's "one targeted retry is  *)
(* still available": the session should still hold that sweep.  A session  *)
(* that timed out in between has lost it, and the loop has not noticed.    *)
(***************************************************************************)
PartialIsRetriable ==
  stage = "commit" /\ at = "ask" /\ attempt = 0 /\ partial => sweep
=============================================================================
