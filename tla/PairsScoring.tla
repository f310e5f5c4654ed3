---------------------------- MODULE PairsScoring ----------------------------
(***************************************************************************)
(* OOLONG-Pairs: what an answer scores and what a finished run covered     *)
(* (oolong_pairs.py, run_pairs_pilot.py, audit_pairs_run.py).              *)
(*                                                                         *)
(* A window is a sequence of lines, each a preamble or the record of a     *)
(* user; a span counts lines from zero and is half-open.  User ids are     *)
(* numbers in canonical decimal.  A text is lines, or the JSON of a list   *)
(* of pairs or of strings; its items are of the shapes the parsers tell    *)
(* apart.  A metric is the set of pairs it was computed from: f1 is a      *)
(* function of that set and the truth.                                     *)
(* The names say Scoring so that a module can extend MeasuredRun too.      *)
(***************************************************************************)
EXTENDS Integers, SequencesExt, FiniteSetsExt

CONSTANTS
  Sample,     \* the windows of the sample, in order; the first is the official one
  Specs,      \* the gold spec of each task
  Labels,     \* LABELS
  Values,     \* bound: answers, as texts of any form; NoValue for none delivered
  Candidates, \* bound: texts given beside an answer, or offered by a repair
  RowTables,  \* bound: rows artifacts a sweep may have left
  CallLists   \* bound: single-label sub-calls a run may have made

NoValue == [form |-> "none", items |-> <<>>]
Preamble == [user |-> 0, label |-> "none", date |-> 0, asked |-> "none"]
Line == [user : Nat, label : STRING, date : Nat, asked : STRING]
Row == [start : Int, end : Int, value : STRING]
NoRule == [label |-> "none", op |-> "after", when |-> 0]
Shapes == {"paper", "quoted", "repl", "bare", "spaced", "single", "prose"}
Item == [shape : Shapes, l : Nat, r : Nat]
Forms == {"none", "lines", "pairs", "strings"}

ASSUME ScoringAssumption ==
  /\ Sample \in Seq(Seq(Line)) /\ Sample # <<>> /\ DOMAIN Specs = DOMAIN Sample
  /\ Labels \subseteq STRING
  /\ \A artifact \in RowTables : artifact.rows \in Seq(Row)
  /\ \A calls \in CallLists : calls \in Seq([asked : STRING, says : STRING])
  /\ \A text \in Values \cup Candidates :
       text.form \in Forms /\ \A i \in DOMAIN text.items : text.items[i] \in Item
  /\ \A text \in Values : text.form = "strings" => text.items # <<>>
  /\ \A text \in Values : text.form = "pairs" =>
       \A i \in DOMAIN text.items : text.items[i].shape = "repl"
  /\ \A text \in Candidates : text.form = "lines"

VARIABLES
  task,      \* the task a script is at
  phase,     \* what has been done about it
  value,     \* the delivered answer
  texts,     \* initial_final_text and final_text of the episode
  result,    \* the task's record in the document, or None
  report     \* the audit of the task's run, or None

scoringVars == <<task, phase, value, texts, result, report>>
None == [kind |-> "none"]
-----------------------------------------------------------------------------
(***************************************************************************)
(* The truth, from the labels of the data.                                 *)
(***************************************************************************)
\* The lines that hold a record, in order, and the records.
Records(window) == {i \in DOMAIN window : window[i] # Preamble}
Lines(window) ==
  [k \in 1 .. Cardinality(Records(window)) |->
     CHOOSE i \in Records(window) : Cardinality({j \in Records(window) : j <= i}) = k]
Entries(window) == [k \in DOMAIN Lines(window) |-> window[Lines(window)[k]]]
OfficialContext == Sample[1]

Ordered(a, b) == IF a < b THEN <<a, b>> ELSE <<b, a>>
PairsOf(users) == {p \in users \X users : p[1] < p[2]}
Cross(left, right) == {Ordered(p[1], p[2]) : p \in {q \in left \X right : q[1] # q[2]}}

UsersOf(rows) == {rows[i].user : i \in DOMAIN rows}
Mine(rows, user) == {i \in DOMAIN rows : rows[i].user = user}
Count(rows, user, label) == Cardinality({i \in Mine(rows, user) : rows[i].label = label})

\* All of a user's instances of the rule's label are on its side of the date.
Dated(rows, user, rule) ==
  \A i \in Mine(rows, user) :
    rows[i].label = rule.label =>
      IF rule.op = "after" THEN rows[i].date > rule.when ELSE rows[i].date < rule.when

Qualified(rows, users, spec) ==
  {u \in users : /\ \E i \in Mine(rows, u) : rows[i].label \in spec.any
                 /\ Dated(rows, u, spec.rule)}

Side(rows, users, conditions) ==
  {u \in users : \A c \in conditions :
     IF c.op = ">=" THEN Count(rows, u, c.label) >= c.n ELSE Count(rows, u, c.label) = c.n}

Answer(rows, users, spec) ==
  IF spec.kind = "sym" THEN PairsOf(Qualified(rows, users, spec))
  ELSE Cross(Side(rows, users, spec.a), Side(rows, users, spec.b))

Gold(window, spec) == Answer(Entries(window), UsersOf(Entries(window)), spec)
EveryPair(window) == PairsOf(UsersOf(Entries(window)))
-----------------------------------------------------------------------------
(***************************************************************************)
(* The three parsers.                                                      *)
(***************************************************************************)
PairsIn(text, shapes) ==
  {Ordered(text.items[i].l, text.items[i].r) :
     i \in {j \in DOMAIN text.items : text.items[j].shape \in shapes}}

\* "(a, b)" anywhere, in a line of prose and in a string of a JSON list too.
ParseAnswer(text) ==
  IF text.form = "pairs" THEN {} ELSE PairsIn(text, {"paper", "quoted"})

\* Two strings, or the one string "a, b", between the brackets of a JSON list
\* look like a pair.
BracketPair(text) ==
  IF Len(text.items) = 2 /\ \A i \in 1 .. 2 : text.items[i].shape = "single"
  THEN {Ordered(text.items[1].l, text.items[2].l)}
  ELSE IF Len(text.items) = 1 THEN PairsIn(text, {"bare"}) ELSE {}

ParseAnswerRepl(text) ==
  CASE text.form = "pairs" -> PairsIn(text, Shapes)
    [] text.form = "strings" -> PairsIn(text, {"paper", "quoted", "repl"})
                                  \cup BracketPair(text)
    [] OTHER -> PairsIn(text, {"paper", "quoted", "repl"})

ParseAnswerLoose(text) ==
  ParseAnswerRepl(text)
    \cup (IF text.form = "pairs" THEN {} ELSE PairsIn(text, {"bare", "spaced"}))

\* pairs_from_answer_value: a collection of pairs of two different ids, or nothing.
Typed(answer) == answer.form = "pairs" /\ \A i \in DOMAIN answer.items :
                   answer.items[i].l # answer.items[i].r
TypedPairs(answer) ==
  IF Typed(answer)
  THEN {{Ordered(answer.items[i].l, answer.items[i].r) : i \in DOMAIN answer.items}}
  ELSE {}
-----------------------------------------------------------------------------
(***************************************************************************)
(* The output contract: the grammar of a text, and its binding to the      *)
(* value that was delivered.                                               *)
(***************************************************************************)
ValidateOutput(text) ==
  /\ text.form = "lines"
  /\ \A i \in DOMAIN text.items :
       /\ text.items[i].shape = "paper" /\ text.items[i].l < text.items[i].r
       /\ \A j \in DOMAIN text.items : text.items[j] = text.items[i] => j = i

\* Has the value pairs that a text can present, and which.
Committable(answer) ==
  CASE answer.form = "pairs" -> Typed(answer)
    [] answer.form = "lines" -> ParseAnswerLoose(answer) # {} \/ answer.items = <<>>
    [] OTHER -> \A i \in DOMAIN answer.items :
                  answer.items[i].shape \in {"paper", "bare", "spaced"}
\* Mutant: of a list of strings only what the paper's parser sees is committed.
CommittedPaper(answer) ==
  CASE answer.form = "lines" -> ParseAnswerLoose(answer)
    [] answer.form = "pairs" -> UNION TypedPairs(answer)
    [] OTHER                 -> ParseAnswer(answer)
Committed(answer) ==
  CASE answer.form = "lines" -> ParseAnswerLoose(answer)
    [] answer.form = "pairs" -> UNION TypedPairs(answer)
    [] OTHER                 -> PairsIn(answer, Shapes)

Equivalent(answer, text) ==
  Committable(answer) /\ Committed(answer) = ParseAnswer(text)

\* Mutant: a text of the right grammar is not bound to the answer.
ValidStructure(answer, text) == ValidateOutput(text)
Valid(answer, text) ==
  ValidateOutput(text) /\ (answer.form # "none" => Equivalent(answer, text))
-----------------------------------------------------------------------------
(***************************************************************************)
(* Scoring a task.  A delivered answer is presented by the text given      *)
(* beside it, or rendered; one that was not delivered is whatever text the *)
(* last turn ended on, if any.                                             *)
(***************************************************************************)
ScoringInit ==
  /\ task \in DOMAIN Specs /\ phase = "begun"
  /\ value = NoValue /\ texts = [initial |-> NoValue, final |-> NoValue]
  /\ result = None /\ report = None

Deliver(answer, text) ==
  /\ phase = "begun" /\ answer.form # "none" /\ text \in {answer} \cup Candidates
  /\ value' = answer /\ texts' = [initial |-> text, final |-> text]
  /\ phase' = "delivered" /\ UNCHANGED <<task, result, report>>

EndWithout(text) ==
  /\ phase = "begun" /\ text.form \in {"none", "lines"}
  /\ texts' = [initial |-> text, final |-> text]
  /\ phase' = "delivered" /\ UNCHANGED <<task, value, result, report>>

\* An invalid text may be repaired once; the candidate is promoted when it is
\* valid, which without a delivered value is a matter of grammar alone.
Repair(candidate) ==
  /\ phase = "delivered" /\ texts.final.form # "none" /\ ~Valid(value, texts.final)
  /\ texts' = [texts EXCEPT !.final = IF Valid(value, candidate) THEN candidate ELSE @]
  /\ phase' = "repaired" /\ UNCHANGED <<task, value, result, report>>

ScoreAll(text) ==
  [paper |-> ParseAnswer(text), repl |-> ParseAnswerRepl(text),
   loose |-> ParseAnswerLoose(text)]

\* f1(p) > f1(q) against a truth, both rounded alike: 2 hit / (predicted + truth).
Better(p, q, truth) ==
  LET Half(s) == IF s = {} /\ truth = {} THEN <<1, 2>>
                 ELSE <<Cardinality(s \cap truth), Cardinality(s) + Cardinality(truth)>>
  IN Half(p)[1] * Half(q)[2] > Half(q)[1] * Half(p)[2]

\* task_status, from the text as it was before any repair.
TaskStatus(text, window, truth) ==
  IF ParseAnswerLoose(text) = {} THEN "failed"
  ELSE IF Better(ParseAnswer(text), EveryPair(window), truth) THEN "above_floor"
  ELSE IF Better(ParseAnswerLoose(text), EveryPair(window), truth) THEN "invalid_format"
  ELSE "at_or_below_floor"

Score ==
  /\ phase \in {"delivered", "repaired"}
  /\ result' =
       [kind |-> "result", raw |-> ScoreAll(texts.initial), final |-> ScoreAll(texts.final),
        content |-> TypedPairs(value),
        validated |-> Valid(value, texts.final),
        status |-> TaskStatus(texts.initial, OfficialContext,
                              Gold(OfficialContext, Specs[task]))]
  /\ phase' = "scored" /\ UNCHANGED <<task, value, texts, report>>
-----------------------------------------------------------------------------
(***************************************************************************)
(* The audit of a run: which records it measured, and what pairs follow    *)
(* from the labels it gave.  The window is the task's own in the sample.   *)
(***************************************************************************)
AuditedWindow == Sample[task]

Inside(window, row) ==
  {k \in DOMAIN Lines(window) : row.start < Lines(window)[k] /\ Lines(window)[k] <= row.end}

\* A row is evidence of a record when it spans that record and no other.
CreditedRows(window, table) ==
  {c \in (DOMAIN Entries(window)) \X (DOMAIN table) :
     Inside(window, table[c[2]]) = {c[1]} /\ table[c[2]].value \in Labels}

\* The last row about a record decides.
PredictionsFromRows(window, table) ==
  LET credited == CreditedRows(window, table)
  IN [k \in {c[1] : c \in credited} |->
        table[Max({c[2] : c \in {d \in credited : d[1] = k}})].value]

\* Rows count when they are over the context and their digest is what was recorded.
AuditRows(artifact) ==
  /\ phase = "begun"
  /\ LET predicted == IF artifact.scope = "context" /\ artifact.intact
                      THEN PredictionsFromRows(AuditedWindow, artifact.rows) ELSE <<>>
     IN report' = [kind |-> "rows", predicted |-> predicted,
                   measured |-> DOMAIN predicted]
  /\ phase' = "audited" /\ UNCHANGED <<task, value, texts, result>>

\* Without a sweep: one sub-call asks about one instance, by its text, and the
\* first label it names counts for every record with that text.
AskedIn(window, call) == {k \in DOMAIN Entries(window) : Entries(window)[k].asked = call.asked}
\* Mutant: whatever the call said is a label.
NormalisedAny(call) == call.says # ""
Normalised(call) == call.says \in Labels

AuditCalls(calls) ==
  /\ phase = "begun"
  /\ LET said(k) == {c \in DOMAIN calls : k \in AskedIn(AuditedWindow, calls[c])
                                            /\ Normalised(calls[c])}
         reached == {k \in DOMAIN Entries(AuditedWindow) : said(k) # {}}
     IN report' = [kind |-> "calls",
                   predicted |-> [k \in reached |-> calls[Min(said(k))].says],
                   measured |-> {k \in reached : \E c \in said(k) :
                                   AskedIn(AuditedWindow, calls[c]) = {k}}]
  /\ phase' = "audited" /\ UNCHANGED <<task, value, texts, result>>

\* pairs_from_labels: a record without a prediction has the label of the data.
Relabelled(rows, predicted) ==
  [k \in DOMAIN rows |->
     [rows[k] EXCEPT !.label = IF k \in DOMAIN predicted THEN predicted[k] ELSE @]]

\* Mutant: a user one of whose records was reached is complete.
CompleteUsersAny(rows, predicted) ==
  {u \in UsersOf(rows) : Mine(rows, u) \cap DOMAIN predicted # {}}
CompleteUsers(rows, predicted) ==
  {u \in UsersOf(rows) : Mine(rows, u) \subseteq DOMAIN predicted}

FromCompleteUsers(rows, spec, predicted) ==
  Answer(Relabelled(rows, predicted), CompleteUsers(rows, predicted), spec)
Ceiling(rows, spec, predicted) ==
  Answer(Relabelled(rows, predicted), UsersOf(rows), spec)

ScoringNext ==
  \/ \E answer \in Values : \/ \E text \in {answer} \cup Candidates : Deliver(answer, text)
                             \/ EndWithout(answer)
  \/ \E candidate \in Candidates : Repair(candidate)
  \/ Score
  \/ \E artifact \in RowTables : AuditRows(artifact)
  \/ \E calls \in CallLists : AuditCalls(calls)

ScoringSpec == ScoringInit /\ [][ScoringNext]_scoringVars
-----------------------------------------------------------------------------
\* TypeOK: the type invariant of scoring and audit.
ScoringTypeOK ==
  /\ task \in DOMAIN Specs
  /\ phase \in {"begun", "delivered", "repaired", "scored", "audited"}
  /\ {value, texts.initial, texts.final} \subseteq Values \cup Candidates \cup {NoValue}
  /\ (result # None) = (phase = "scored") /\ (report # None) = (phase = "audited")
  /\ report # None =>
       /\ report.measured \subseteq DOMAIN report.predicted
       /\ DOMAIN report.predicted \subseteq DOMAIN Entries(AuditedWindow)
       /\ \A k \in DOMAIN report.predicted : report.predicted[k] \in Labels

\* Two ids an item of a value names, in whatever way a model writes them: this is
\* how one reads the value, not how any of the parsers does.
Said(answer) ==
  {{answer.items[i].l, answer.items[i].r} :
     i \in {j \in DOMAIN answer.items : answer.items[j].shape \notin {"single", "prose"}}}

\* A delivered answer whose presentation passes the contract scores, for each of
\* the three parsers, the pairs the value names, no more and no less and the lower
\* id first, as the truth has them; its typed content, if it has one, scores the
\* same (_pair_presentation_equivalent).
AcceptedMeansSame ==
  result # None /\ value.form # "none" /\ result.validated =>
    /\ {{p[1], p[2]} : p \in result.final.paper} = Said(value)
    /\ \A p \in result.final.paper : p[1] < p[2]
    /\ result.final.repl = result.final.paper /\ result.final.loose = result.final.paper
    /\ \A pairs \in result.content : pairs = result.final.paper

\* The parsers widen each other, and presenting a delivered answer gains format
\* and no content: what its final text scores as the paper reads it was in the
\* first text for the loose parser ("was it computed at all"), or delivered.
FormatGainsNoContent ==
  result # None =>
    /\ result.raw.paper \subseteq result.raw.repl /\ result.raw.repl \subseteq result.raw.loose
    /\ value.form # "none" =>
         result.final.paper \subseteq result.raw.loose \cup Committed(value)

\* The audit's pairs of complete users borrow nothing from the data: they are the
\* same for every labelling of the records the run did not label; and with right
\* labels they are true pairs and the ceiling is the truth (pairs_from_labels).
AuditBorrowsNothing ==
  report # None =>
    LET rows == Entries(AuditedWindow)
        spec == Specs[task]
        rest == DOMAIN rows \ DOMAIN report.predicted
        own == FromCompleteUsers(rows, spec, report.predicted)
    IN /\ \A other \in [rest -> Labels] :
            own = FromCompleteUsers(Relabelled(rows, other), spec, report.predicted)
       /\ (\A k \in DOMAIN report.predicted : report.predicted[k] = rows[k].label) =>
            /\ own \subseteq Gold(AuditedWindow, spec)
            /\ Ceiling(rows, spec, report.predicted) = Gold(AuditedWindow, spec)

\* README.md:398: a candidate of a repair is promoted only after a successful
\* structural and content-binding validation, and the answer is committed and
\* cannot be changed (OUTPUT_REPAIR, native_loop.py:203).
PromotedKeepsContent ==
  result # None => result.final.paper \subseteq result.raw.loose \cup
                     (IF value.form = "none" THEN {} ELSE Committed(value))

\* What official_context says (oolong_pairs.py:69): the audit of a run reads the
\* window the run was about.
AuditReadsTheRunsContext == report # None => AuditedWindow = OfficialContext
=============================================================================
