------------------------- MODULE PresentationRepair -------------------------
(***************************************************************************)
(* The presentation of an answer that is already committed:                *)
(* NativeLoop._repair_presentation and the end of _finish_output           *)
(* (native_loop.py) over the presentation window of the session            *)
(* (open_presentation, _submit and execute in repl/worker.py).             *)
(*                                                                         *)
(* The loop asks the model for a better text, opens a window for the block *)
(* it replies with, reads the candidate the block submitted and validates  *)
(* it.  A text is a model value, and whether it satisfies the contract and *)
(* its binding to the answer is fixed.  The preflight of a block looks at  *)
(* its text, and a call it requires may stand where it is never reached:   *)
(* it decides whether the block runs, not what the block submits.          *)
(***************************************************************************)
EXTENDS Naturals, FiniteSets

CONSTANTS
  MaxAttempts,  \* TerminalPolicy.max_presentation_attempts
  MaxProtocol,  \* TerminalPolicy.max_protocol_retries
  MaxBuilds,    \* TerminalPolicy.max_presentation_build_turns
  MaxReserve,   \* TerminalPolicy.max_presentation_commit_reserve
  Texts,        \* the texts a block may print or submit
  Valid,        \* those that satisfy the contract and its binding
  NoText        \* None, _UNSET

ASSUME PolicyAssumption ==
  /\ MaxAttempts \in Nat \ {0}
  /\ MaxProtocol \in Nat /\ MaxBuilds \in Nat
  /\ MaxReserve \in {0, 1}

ASSUME TextAssumption == Valid \subseteq Texts /\ NoText \notin Texts

VARIABLES
  at,         \* "ask", "call", "block", "observed", "judged" or "done"
  asked,      \* attempt_index + 1, the requests sent
  attempt,    \* the record of the current attempt
  obs,        \* what the observations of the attempt say
  count,      \* candidate_attempts
  rejected,   \* candidate_hashes
  printed,    \* draft_hashes
  draft,      \* draft_text
  origin,     \* draft_origin
  ready,      \* draft_ready
  builds,     \* clean_build_turns
  commitOnly, \* commit_required
  earned,     \* commit_reserve_earned
  last,       \* last_candidate
  open,       \* Session._presentation_open
  pending,    \* Session._pending_presentation
  candidate,  \* Session._presentation_candidate
  fresh,      \* history: what the attempt's block submitted and ended with
  outcome,    \* how the repair ended
  final       \* the text promoted, NoText for the initial one

drafts  == <<printed, draft, origin, ready>>
tally   == <<count, rejected, last>>
policy  == <<builds, commitOnly, earned>>
session == <<open, pending, candidate>>
result  == <<outcome, final>>
vars == <<at, asked, attempt, obs, tally, drafts, policy, session, fresh, result>>

NewAttempt == [progress |-> FALSE, fault |-> FALSE, committed |-> FALSE]
NoObs == [ok |-> TRUE, progress |-> FALSE, stdout |-> NoText]
FailedObs == [ok |-> FALSE, progress |-> FALSE, stdout |-> NoText]

Ordinary == MaxAttempts + MaxProtocol
-----------------------------------------------------------------------------
(***************************************************************************)
(* _finish_output enters the repair with an initial text that does not     *)
(* validate, in mode "validate_repair", before any hard limit.             *)
(***************************************************************************)
Init ==
  /\ at = "ask"
  /\ asked = 0
  /\ attempt = NewAttempt
  /\ obs = NoObs
  /\ count = 0 /\ rejected = {} /\ last = NoText
  /\ printed = {} /\ draft = NoText /\ origin = "none" /\ ready = FALSE
  /\ builds = 0
  /\ commitOnly = (MaxBuilds = 0)
  /\ earned = FALSE
  /\ open = FALSE /\ pending = NoText /\ candidate = NoText
  /\ fresh = NoText
  /\ outcome = "open" /\ final = NoText

End(reason) ==
  /\ at' = "done"
  /\ outcome' = reason

\* A reply cut off, or without a tool call: nothing is opened or run.
ReplyWithoutCall ==
  /\ at = "ask"
  /\ asked' = asked + 1
  /\ attempt' = [NewAttempt EXCEPT !.fault = TRUE]
  /\ obs' = NoObs
  /\ fresh' = NoText
  /\ at' = "judged"
  /\ UNCHANGED <<tally, drafts, policy, session, result>>

\* Mutant: the candidate of an earlier window is not discarded.
OpenKeeps == open' = TRUE /\ pending' = NoText /\ UNCHANGED candidate

\* Session.open_presentation
Open == open' = TRUE /\ pending' = NoText /\ candidate' = NoText

\* A reply with a tool call opens a window for it.
ReplyWithCall ==
  /\ at = "ask"
  /\ ~open
  /\ asked' = asked + 1
  /\ attempt' = NewAttempt
  /\ obs' = NoObs
  /\ fresh' = NoText
  /\ Open
  /\ at' = "call"
  /\ UNCHANGED <<tally, drafts, policy, result>>

(***************************************************************************)
(* The window of an earlier attempt is still open, because its call ran    *)
(* nothing: the session refuses, and the repair is over without a          *)
(* candidate.                                                              *)
(***************************************************************************)
OpenFails ==
  /\ at = "ask"
  /\ open
  /\ asked' = asked + 1
  /\ attempt' = [NewAttempt EXCEPT !.fault = TRUE]
  /\ End("open_failed")
  /\ UNCHANGED <<obs, tally, drafts, policy, session, fresh, final>>
-----------------------------------------------------------------------------
\* _dispatch of a call to an unknown tool or without code: nothing runs.
NothingRuns ==
  /\ at = "call"
  /\ obs' = FailedObs
  /\ at' = "observed"
  /\ UNCHANGED <<asked, attempt, tally, drafts, policy, session, fresh, result>>

\* Session.execute: a syntax error, or a preflight that refuses the block.
BlockRefused ==
  /\ at = "call"
  /\ open' = FALSE
  /\ pending' = NoText
  /\ obs' = FailedObs
  /\ at' = "observed"
  /\ UNCHANGED <<asked, attempt, tally, drafts, policy, candidate, fresh, result>>

BlockStarts ==
  /\ at = "call"
  /\ pending' = NoText
  /\ at' = "block"
  /\ UNCHANGED <<asked, attempt, obs, tally, drafts, policy, open, candidate,
                 fresh, result>>

(***************************************************************************)
(* _submit in a window.  What it refuses (a second text, a changed value,  *)
(* a text that is none) it raises, and the block may catch it: a step that *)
(* changes nothing here.                                                   *)
(***************************************************************************)
BlockSubmits(text) ==
  /\ at = "block"
  /\ pending = NoText
  /\ pending' = text
  /\ UNCHANGED <<at, asked, attempt, obs, tally, drafts, policy, open,
                 candidate, fresh, result>>

(***************************************************************************)
(* execute, a block that ended: it prints a text or nothing, and may leave *)
(* other traces (names, a value, a print that was cut).  A further call of *)
(* the same reply is refused, which is an observation that is not ok.      *)
(***************************************************************************)
BlockEnds(stdout, traces, extra) ==
  /\ at = "block"
  /\ open' = FALSE
  /\ candidate' = IF pending # NoText THEN pending ELSE candidate
  /\ pending' = NoText
  /\ fresh' = pending
  /\ obs' = [ok |-> ~extra, progress |-> traces \/ stdout # NoText,
             stdout |-> stdout]
  /\ at' = "observed"
  /\ UNCHANGED <<asked, attempt, tally, drafts, policy, result>>

\* execute, a block that raised: what it submitted is dropped.
BlockRaises ==
  /\ at = "block"
  /\ open' = FALSE
  /\ pending' = NoText
  /\ obs' = FailedObs
  /\ at' = "observed"
  /\ UNCHANGED <<asked, attempt, tally, drafts, policy, candidate, fresh, result>>

\* A timeout replaces the session by one that has no window and no candidate.
BlockTimesOut ==
  /\ at = "block"
  /\ open' = FALSE /\ pending' = NoText /\ candidate' = NoText
  /\ obs' = FailedObs
  /\ at' = "observed"
  /\ UNCHANGED <<asked, attempt, tally, drafts, policy, fresh, result>>

\* The request to the model fails, or the channel breaks: the episode raises.
Fails ==
  /\ at \in {"ask", "call", "block", "observed"}
  /\ End("raised")
  /\ UNCHANGED <<asked, attempt, obs, tally, drafts, policy, session, fresh, final>>
-----------------------------------------------------------------------------
\* read_presentation gives a text that validates: it is promoted.
Promote ==
  /\ at = "observed"
  /\ candidate \in Valid
  /\ final' = candidate
  /\ last' = candidate
  /\ count' = count + 1
  /\ End("promoted")
  /\ UNCHANGED <<asked, attempt, obs, rejected, drafts, policy, session, fresh>>

\* Mutant: one candidate more than allowed.
SpentLate(n) == n > MaxAttempts

\* Are the attempts to submit a candidate used up?
Spent(n) == n >= MaxAttempts

(***************************************************************************)
(* A text that does not validate stays as a draft, to be changed by the    *)
(* next attempt; the same one twice, or too many, end the repair.          *)
(***************************************************************************)
Reject ==
  /\ at = "observed"
  /\ candidate \in Texts \ Valid
  /\ last' = candidate
  /\ count' = count + 1
  /\ draft' = candidate /\ origin' = "candidate" /\ ready' = FALSE
  /\ rejected' = rejected \cup {candidate}
  /\ attempt' = [attempt EXCEPT !.committed = TRUE, !.fault = ~obs.ok]
  /\ IF candidate \in rejected THEN End("repeated")
     ELSE IF Spent(count') THEN End("spent")
     ELSE at' = "judged" /\ UNCHANGED outcome
  /\ UNCHANGED <<asked, obs, printed, policy, session, fresh, final>>

\* An observation that failed, or one that shows no progress.
NoCandidate ==
  /\ at = "observed"
  /\ candidate = NoText
  /\ ~obs.ok \/ ~obs.progress
  /\ attempt' = [attempt EXCEPT !.fault = TRUE]
  /\ at' = "judged"
  /\ UNCHANGED <<asked, obs, tally, drafts, policy, session, fresh, result>>

\* Progress without a text to keep.
Build ==
  /\ at = "observed"
  /\ candidate = NoText
  /\ obs.ok /\ obs.progress /\ obs.stdout = NoText
  /\ builds' = builds + 1
  /\ commitOnly' = (ready \/ builds' >= MaxBuilds)
  /\ attempt' = [attempt EXCEPT !.progress = TRUE]
  /\ at' = "judged"
  /\ UNCHANGED <<asked, obs, tally, drafts, earned, session, fresh, result>>

\* What was printed becomes the draft.
Keep(text) ==
  /\ draft' = text /\ origin' = "stdout"
  /\ ready' = (text \in Valid)

(***************************************************************************)
(* A text that was printed becomes the draft, unless it is worse than a    *)
(* rejected candidate; the same one twice ends the repair.                 *)
(***************************************************************************)
Draft ==
  /\ at = "observed"
  /\ candidate = NoText
  /\ obs.ok /\ obs.stdout # NoText
  /\ builds' = builds + 1
  /\ attempt' = [attempt EXCEPT !.progress = TRUE]
  /\ IF obs.stdout \in printed
     THEN /\ End("repeated_draft")
          /\ UNCHANGED <<drafts, commitOnly>>
     ELSE /\ printed' = printed \cup {obs.stdout}
          /\ IF origin # "candidate" \/ obs.stdout \in Valid
             THEN Keep(obs.stdout)
             ELSE UNCHANGED <<draft, origin, ready>>
          /\ commitOnly' = (ready' \/ builds' >= MaxBuilds)
          /\ at' = "judged" /\ UNCHANGED outcome
  /\ UNCHANGED <<asked, obs, tally, earned, session, fresh, final>>
-----------------------------------------------------------------------------
\* Mutant: the reserve is granted whatever the last attempt did.
EarnsAlways == asked = Ordinary /\ MaxReserve > 0

\* reserve_earned_now
Earns ==
  /\ asked = Ordinary /\ MaxReserve > 0
  /\ attempt.progress /\ ~attempt.fault /\ ~attempt.committed

NextAttempt ==
  /\ at = "judged"
  /\ earned' = (earned \/ Earns)
  /\ commitOnly' = (commitOnly \/ Earns)
  /\ IF asked < Ordinary \/ Earns
     THEN at' = "ask" /\ UNCHANGED outcome
     ELSE End("failed")
  /\ UNCHANGED <<asked, attempt, obs, tally, drafts, builds, session, fresh, final>>

Done == at = "done" /\ UNCHANGED vars

Next ==
  \/ ReplyWithoutCall \/ ReplyWithCall \/ OpenFails
  \/ NothingRuns \/ BlockRefused \/ BlockStarts
  \/ \E text \in Texts : BlockSubmits(text)
  \/ \E stdout \in Texts \cup {NoText}, traces, extra \in BOOLEAN :
       BlockEnds(stdout, traces, extra)
  \/ BlockRaises \/ BlockTimesOut \/ Fails
  \/ Promote \/ Reject \/ NoCandidate \/ Build \/ Draft
  \/ NextAttempt \/ Done

Spec == Init /\ [][Next]_vars
-----------------------------------------------------------------------------
Maybe == Texts \cup {NoText}

\* TypeOK: the types; the attempts to submit a text stay in their bound.
TypeOK ==
  /\ at \in {"ask", "call", "block", "observed", "judged", "done"}
  /\ asked \in 0 .. Ordinary + MaxReserve
  /\ attempt \in [progress : BOOLEAN, fault : BOOLEAN, committed : BOOLEAN]
  /\ obs \in [ok : BOOLEAN, progress : BOOLEAN, stdout : Maybe]
  /\ count \in 0 .. MaxAttempts
  /\ rejected \subseteq Texts /\ printed \subseteq Texts
  /\ draft \in Maybe /\ last \in Maybe /\ final \in Maybe
  /\ pending \in Maybe /\ candidate \in Maybe /\ fresh \in Maybe
  /\ origin \in {"none", "candidate", "stdout"}
  /\ ready \in BOOLEAN /\ open \in BOOLEAN
  /\ commitOnly \in BOOLEAN /\ earned \in BOOLEAN
  /\ builds \in 0 .. asked
  /\ outcome \in {"open", "promoted", "repeated", "repeated_draft", "spent",
                  "failed", "open_failed", "raised"}

(***************************************************************************)
(* The session keeps one candidate for the whole repair, across windows,   *)
(* blocks that raise, refused blocks and restarts; what the loop reads is  *)
(* nevertheless the text that the block of this very attempt submitted and *)
(* ended with, and only such a text, validated, replaces the initial one.  *)
(***************************************************************************)
CandidateIsFresh ==
  /\ at = "observed" => candidate = fresh
  /\ outcome = "promoted" => final = fresh
  /\ final # NoText => final \in Valid /\ outcome = "promoted"

(***************************************************************************)
(* However the attempts mix replies without a call, refused blocks, builds *)
(* and rejected texts, the request beyond the ordinary ones is sent only   *)
(* when the last of those made clean progress and submitted nothing, and   *)
(* then as a commit-only turn.                                             *)
(***************************************************************************)
ReserveIsEarned ==
  asked > Ordinary =>
    /\ asked = Ordinary + 1 /\ earned
    /\ builds > 0
    /\ at \in {"call", "block"} => commitOnly /\ count < MaxAttempts

(***************************************************************************)
(* When the model is told that a validated draft is bound and only needs   *)
(* confirming, the draft is one that validates, after any alternation of   *)
(* printed texts, rejected candidates and restarts of the session.         *)
(***************************************************************************)
ReadyDraftIsValid == ready => draft \in Valid /\ origin = "stdout"

(***************************************************************************)
(* The texts a repair acts on are what they are taken for: the candidate is *)
(* the one of this attempt, the draft called ready validates.              *)
(***************************************************************************)
TextsAreCurrent == CandidateIsFresh /\ ReadyDraftIsValid
=============================================================================
