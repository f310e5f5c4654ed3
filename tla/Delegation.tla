----------------------------- MODULE Delegation -----------------------------
(***************************************************************************)
(* What a run can prove about the context it was given: semantic sweeps    *)
(* and children leave evidence (Session._envelope, RecursiveCaller._credit,*)
(* rlm_map's records), the trace keeps the credited spans, and             *)
(* analyze_large_context (adapters/agents.py) gives its verdict from them. *)
(*                                                                         *)
(* A text is a sequence of cells, its structural units; equal cells are    *)
(* equal stretches of text, so a part may occur more than once.  A digest  *)
(* of a text is the text.  Spans are half-open and count cells from zero;  *)
(* a fraction of a text is taken in characters.  RecursionTree has the     *)
(* budgets of the same tree; here a call may be refused at any time.       *)
(***************************************************************************)
EXTENDS Naturals, SequencesExt, FiniteSetsExt

CONSTANTS
  Contexts,   \* texts a run may be about
  Width,      \* characters of each cell
  Foreign,    \* a text that is no part of any context
  MaxDepth,   \* Budget.max_depth
  MaxNodes,   \* Budget.max_nodes
  Outcomes,   \* bound: operation, scope and items without a value of a sweep
  MaxSweeps   \* bound: sweeps of the nodes at each depth, the root's first

ASSUME DelegationAssumption ==
  /\ MaxDepth \in Nat /\ MaxSweeps \in [1 .. MaxDepth + 1 -> Nat]
  /\ MaxNodes \in Nat \ {0}
  /\ Outcomes \subseteq [op : {"semantic_map", "semantic_search"},
                         scope : {"context", "items"}, missing : {0, 1}]
  /\ Width \in [DOMAIN Width -> Nat \ {0}]
  /\ Contexts \cup {Foreign} \subseteq Seq(DOMAIN Width) \ {<<>>}

Strategies == {"auto", "map", "classify", "recursive"}
Operations == {"semantic_map", "semantic_search", "rlm_map", "rlm_query"}

VARIABLES
  context,   \* the root's text
  stack,     \* the live nodes, the root first
  nodes,     \* Ledger.nodes
  trace,     \* the delegated_span events of the run's trace
  record,    \* the record rlm_map appended in the last step, if it did
  result,    \* what analyze_large_context returns
  returned   \* history: the parts of the children that ended

vars == <<context, stack, nodes, trace, record, result, returned>>

(***************************************************************************)
(* A node: its text, where its caller cut it (history, none of it for a    *)
(* text of the caller's own making), its audit (sweeps and operations) and *)
(* the delegation that one of its blocks is in.                            *)
(***************************************************************************)
NewNode(text, cut) ==
  [text |-> text, cut |-> cut, sweeps |-> <<>>, ops |-> {}, call |-> "none"]

Top == stack[Len(stack)]
Caller == stack[Len(stack) - 1]
Update(node) == stack' = [stack EXCEPT ![Len(stack)] = node]
Running == result.status = "running"
-----------------------------------------------------------------------------
(***************************************************************************)
(* Spans: what `_recursive_certificate`, `covered` and Certificate share.  *)
(***************************************************************************)
Larger(a, b) == IF a > b THEN a ELSE b
Before(s, t) == s[1] < t[1] \/ (s[1] = t[1] /\ s[2] < t[2])

\* sorted(spans).
InOrder(spans) ==
  CHOOSE f \in [1 .. Cardinality(spans) -> spans] :
    \A i, j \in 1 .. Cardinality(spans) : i < j => Before(f[i], f[j])

\* Mutant: a span that lies inside the one before it shortens it.
JoinShort(merged, s) ==
  IF merged # <<>> /\ s[1] <= Last(merged)[2]
  THEN [merged EXCEPT ![Len(merged)][2] = s[2]] ELSE Append(merged, s)

\* The loop over the sorted spans that joins those that meet.
Join(merged, s) ==
  IF merged # <<>> /\ s[1] <= Last(merged)[2]
  THEN [merged EXCEPT ![Len(merged)][2] = Larger(@, s[2])] ELSE Append(merged, s)
Merged(spans) == FoldLeft(Join, <<>>, InOrder(spans))

\* What the merged spans leave, with the cursor that walks over them.
Walk(w, s) ==
  [cursor |-> Larger(w.cursor, s[2]),
   gaps |-> IF s[1] > w.cursor THEN Append(w.gaps, <<w.cursor, s[1]>>) ELSE w.gaps]
Gaps(spans, size) ==
  LET walk == FoldLeft(Walk, [cursor |-> 0, gaps |-> <<>>], Merged(spans))
  IN  IF walk.cursor < size
      THEN Append(walk.gaps, <<walk.cursor, size>>) ELSE walk.gaps

CellsOf(spans) == UNION {s[1] + 1 .. s[2] : s \in spans}
Chars(text, cells) == MapThenSumSet(LAMBDA i : Width[text[i]], cells)
\* tracing.covered, and the 98 per cent both certificates ask for.
Reached(text, spans) == Chars(text, CellsOf(ToSet(Merged(spans))))
EnoughOf(text, chars) == 100 * chars >= 98 * Chars(text, DOMAIN text)

\* str.find, again and again: where a part begins.
Occurrences(part, text) ==
  {at \in 0 .. Len(text) - Len(part) :
     \A i \in DOMAIN part : text[at + i] = part[i]}
-----------------------------------------------------------------------------
(***************************************************************************)
(* A sweep as the audit keeps it (_fragments, _envelope): over the units   *)
(* of the context, or over items the model supplied, which earn coverage   *)
(* of themselves and say nothing of the context.                           *)
(***************************************************************************)
Complete(sweep) == sweep.total > 0 /\ Cardinality(sweep.valid) = sweep.total
ContextComplete(sweep) == sweep.scope = "context" /\ Complete(sweep)
Swept(node) == \E i \in DOMAIN node.sweeps : ContextComplete(node.sweeps[i])

\* certificate.from_run and Certificate.covers for a sweep of a context.
SweepCertificate(text, sweep) ==
  LET spans == {<<i - 1, i>> : i \in sweep.valid}
  IN  [complete |-> /\ Cardinality(sweep.valid) = sweep.total
                    /\ EnoughOf(text, Reached(text, spans)),
       gaps |-> Gaps(spans, Len(text))]

NoRecord == [status |-> "none", usable |-> FALSE, swept |-> FALSE]

Init ==
  /\ context \in Contexts
  /\ stack = <<NewNode(context, <<0, Len(context)>>)>>
  /\ nodes = 1
  /\ trace = {}
  /\ record = NoRecord
  /\ result = [status |-> "running", strategy |-> "auto", satisfied |-> "none", gaps |-> {},
               certified |-> FALSE]
  /\ returned = {}

\* semantic_map or semantic_search, with or without items; some of its items,
\* the last ones, may have failed.
Sweep(o) ==
  /\ Running /\ Top.call = "none"
  /\ Len(Top.sweeps) < MaxSweeps[Len(stack)]
  /\ LET total == IF o.scope = "context" THEN Len(Top.text) ELSE 1
     IN  Update([Top EXCEPT
           !.sweeps = Append(@, [op |-> o.op, scope |-> o.scope, total |-> total,
                                 valid |-> 1 .. total - o.missing]),
           !.ops = @ \cup {o.op}])
  /\ record' = NoRecord
  /\ UNCHANGED <<context, nodes, trace, result, returned>>

\* A part of the caller's text, or a text of its own that is none.
Cuts ==
  {s \in (0 .. Len(Top.text)) \X (0 .. Len(Top.text)) : s[1] < s[2]}
    \cup (IF Occurrences(Foreign, Top.text) = {} THEN {<<>>} ELSE {})
PartAt(cut) == IF cut = <<>> THEN Foreign ELSE SubSeq(Top.text, cut[1] + 1, cut[2])

Spawn(call, cut) ==
  /\ Len(stack) - 1 < MaxDepth /\ nodes < MaxNodes
  /\ nodes' = nodes + 1
  /\ stack' = Append([stack EXCEPT ![Len(stack)].call = call],
                     NewNode(PartAt(cut), cut))
  /\ record' = NoRecord
  /\ UNCHANGED <<context, trace, result, returned>>

\* rlm_query of a block.
Query == Running /\ Top.call = "none" /\ \E cut \in Cuts : Spawn("query", cut)

\* rlm_map, after the refusal of a string and of too many parts.
Map ==
  /\ Running /\ Top.call = "none"
  /\ Update([Top EXCEPT !.call = "map"])
  /\ record' = NoRecord
  /\ UNCHANGED <<context, nodes, trace, result, returned>>

MapChild == Running /\ Top.call = "map" /\ \E cut \in Cuts : Spawn("map", cut)

ErrorRecord == [status |-> "error", usable |-> FALSE, swept |-> FALSE]
Mapped(node) == [node EXCEPT !.call = "none", !.ops = @ \cup {"rlm_map"}]

\* The parts are used up; rlm_map_recorded notes that the map ran.
MapEnds ==
  /\ Running /\ Top.call = "map"
  /\ Update(Mapped(Top))
  /\ record' = NoRecord
  /\ UNCHANGED <<context, nodes, trace, result, returned>>

\* A part that is no text or blank, or a child that is refused.
MapStops ==
  /\ Running /\ Top.call = "map"
  /\ Update(Mapped(Top))
  /\ record' = ErrorRecord
  /\ UNCHANGED <<context, nodes, trace, result, returned>>
-----------------------------------------------------------------------------
\* Mutant: the first place the part is found at.
PlacedFirst(part, text) ==
  LET starts == Occurrences(part, text)
  IN  {<<at, at + Len(part)>> : at \in {a \in starts : \A b \in starts : a <= b}}

\* Mutant: the end of the part is one too far.
PlacedPast(part, text) ==
  LET starts == Occurrences(part, text)
  IN  IF Cardinality(starts) = 1
      THEN {<<at, at + Len(part) + 1>> : at \in starts} ELSE {}

\* _credit and certificate.place: content places a part only when it is unique.
Placed(part, text) ==
  LET starts == Occurrences(part, text)
  IN  IF Cardinality(starts) = 1
      THEN {<<at, at + Len(part)>> : at \in starts} ELSE {}

\* RecursiveCaller._credit, from the child's last sweep.
Credit(child, caller) ==
  IF child.sweeps # <<>> /\ ContextComplete(Last(child.sweeps))
  THEN {[of |-> caller.text, span |-> s] : s \in Placed(child.text, caller.text)}
  ELSE {}

\* rlm_map's record of a child that ended.
RecordOf(child, answered, clean) ==
  LET last == Last(child.sweeps)
      ok == answered /\ clean
      validated == last.op = "semantic_search" \/ last.valid # {}
      evidence == child.sweeps # <<>> /\ validated /\ Complete(last)
  IN  [status |-> IF ok THEN "ok" ELSE IF answered THEN "budget" ELSE "empty",
       usable |-> ok \/ evidence,
       swept |-> Swept(child)]

(***************************************************************************)
(* A child ends, with an answer or without, on its own or on the budget:   *)
(* _credit, then the record of a map or the operation of a query.          *)
(***************************************************************************)
Return(answered, clean) ==
  /\ Running /\ Len(stack) > 1 /\ Top.call = "none"
  /\ LET caller == IF Caller.call = "query"
                   THEN [Caller EXCEPT !.call = "none",
                                       !.ops = @ \cup {"rlm_query"}]
                   ELSE Caller
     IN  /\ stack' = Append(SubSeq(stack, 1, Len(stack) - 2), caller)
         /\ record' = IF Caller.call = "map"
                      THEN RecordOf(Top, answered, clean) ELSE NoRecord
  /\ trace' = trace \cup Credit(Top, Caller)
  /\ returned' = IF Top.cut = <<>> THEN returned
                 ELSE returned \cup {[of |-> Caller.text, span |-> Top.cut,
                                      swept |-> Swept(Top)]}
  /\ UNCHANGED <<context, nodes, result>>

\* A child raises: no credit, its query raises too, its map stops.
Raise ==
  /\ Running /\ Len(stack) > 1 /\ Top.call = "none"
  /\ stack' = Append(SubSeq(stack, 1, Len(stack) - 2),
                     IF Caller.call = "map" THEN Mapped(Caller)
                     ELSE [Caller EXCEPT !.call = "none"])
  /\ record' = IF Caller.call = "map" THEN ErrorRecord ELSE NoRecord
  /\ UNCHANGED <<context, nodes, trace, result, returned>>
-----------------------------------------------------------------------------
Required(strategy) ==
  CASE strategy = "classify" -> {"semantic_map"}
    [] strategy = "map" -> {"semantic_map", "semantic_search"}
    [] strategy = "recursive" -> {"rlm_map", "rlm_query"}
    [] OTHER -> {}
Exhaustive == {"classify", "map"}

\* Mutant: the spans of every node are read in the root's frame.
DelegatedAnywhere == {e.span : e \in trace}

\* _recursive_certificate: the events about the root's text, none without one.
Delegated == {e.span : e \in {f \in trace : f.of = context}}

RecursiveCertificate ==
  [complete |-> EnoughOf(context, Reached(context, Delegated)),
   gaps |-> Gaps(Delegated, Len(context))]

\* _strategy_satisfied: sweeps with a required operation and the whole context.
Grounds(strategy, sweeps) ==
  {i \in DOMAIN sweeps : sweeps[i].op \in Required(strategy) /\ ContextComplete(sweeps[i])}

\* _strategy_satisfied: True, False, or None when nothing was asserted.
Satisfied(strategy, root) ==
  IF strategy = "auto" THEN "none"
  ELSE IF root.ops \cap Required(strategy) = {} THEN "false"
  ELSE IF strategy \in Exhaustive
  THEN IF Grounds(strategy, root.sweeps) # {} THEN "true" ELSE "false"
  ELSE IF Delegated = {} THEN "none"
  ELSE IF RecursiveCertificate.complete THEN "true" ELSE "false"

\* The sweep the verdict rests on: the last that grounds it, or the last.
Basis(strategy, root) ==
  IF strategy \in Exhaustive /\ Satisfied(strategy, root) = "true"
  THEN {Max(Grounds(strategy, root.sweeps))}
  ELSE IF root.sweeps = <<>> THEN {} ELSE {Len(root.sweeps)}

Verdict(strategy, root, answered, truncated) ==
  LET satisfied == Satisfied(strategy, root)
      basis == Basis(strategy, root)
  IN  IF ~answered THEN "failed"
      ELSE IF satisfied = "false" \/ truncated THEN "partial"
      ELSE IF strategy = "recursive" /\ satisfied # "true" THEN "unverified"
      ELSE IF strategy = "auto" /\ basis = {} THEN "unverified"
      ELSE IF \E i \in basis : ~Complete(root.sweeps[i]) THEN "partial"
      ELSE "complete"

\* The certificate that is returned with the verdict, when there is one.
Certificates(strategy, root) ==
  IF strategy = "recursive"
  THEN IF Delegated = {} THEN {} ELSE {RecursiveCertificate}
  ELSE {SweepCertificate(context, root.sweeps[i]) :
          i \in {j \in Basis(strategy, root) : root.sweeps[j].scope = "context"}}

\* analyze_large_context, once the episode of the root is there; the strategy
\* it asked for in the question is chosen here, nothing before depends on it.
Answer(strategy, answered, truncated) ==
  /\ Running /\ Len(stack) = 1 /\ Top.call = "none"
  /\ LET certificates == Certificates(strategy, Top)
     IN  result' = [status |-> Verdict(strategy, Top, answered, truncated),
                    strategy |-> strategy,
                    satisfied |-> Satisfied(strategy, Top),
                    gaps |-> UNION {ToSet(c.gaps) : c \in certificates},
                    certified |-> \E c \in certificates : c.complete]
  /\ record' = NoRecord
  /\ UNCHANGED <<context, stack, nodes, trace, returned>>

\* Only the verdict is left to read.
Done == ~Running /\ UNCHANGED vars

Next ==
  \/ \E o \in Outcomes : Sweep(o)
  \/ Query \/ Map \/ MapChild \/ MapEnds \/ MapStops \/ Raise \/ Done
  \/ \E answered, flag \in BOOLEAN :
       \/ Return(answered, flag)
       \/ \E strategy \in Strategies : Answer(strategy, answered, flag)

Spec == Init /\ [][Next]_vars
-----------------------------------------------------------------------------
Spans(text) == {s \in (0 .. Len(text)) \X (0 .. Len(text)) : s[1] < s[2]}

\* TypeOK: the types; only the root has no caller, and a span fits its text.
TypeOK ==
  /\ context \in Contexts /\ result.strategy \in Strategies
  /\ Len(stack) \in 1 .. MaxDepth + 1 /\ nodes \in Len(stack) .. MaxNodes
  /\ \A d \in DOMAIN stack :
       /\ stack[d].ops \subseteq Operations
       /\ stack[d].call \in {"none", "map", "query"}
       /\ d < Len(stack) => stack[d].call # "none"
  /\ \A e \in trace : e.span \in Spans(e.of)
  /\ record.status \in {"none", "error", "ok", "empty", "budget"}
  /\ record.usable \in BOOLEAN /\ record.swept \in BOOLEAN
  /\ result.status \in {"running", "failed", "partial", "unverified", "complete"}
  /\ result.satisfied \in {"none", "true", "false"}

(***************************************************************************)
(* A credited span is where its child's part was cut from, and that child  *)
(* had swept all of it: equal stretches elsewhere in the text, texts the   *)
(* caller made up, items the child made up, or a grandchild's offsets      *)
(* never earn the caller a credit ("the span is exactly where the bytes    *)
(* are, not where they look like they are").                               *)
(***************************************************************************)
CreditAtOrigin ==
  \A e \in trace : [of |-> e.of, span |-> e.span, swept |-> TRUE] \in returned

(***************************************************************************)
(* The certificate's gaps are exactly the cells that no credited span      *)
(* holds, however the spans overlap, touch, nest or repeat.                *)
(***************************************************************************)
GapsAreTheRest ==
  ~Running /\ result.strategy = "recursive" /\ Delegated # {} =>
    CellsOf(result.gaps) = DOMAIN context \ CellsOf(Delegated)

(***************************************************************************)
(* "complete" is earned: under an exhaustive strategy by one sweep of the  *)
(* root that is both the required operation and the whole context, under   *)
(* recursion by children that swept 98 per cent of the root's characters.  *)
(***************************************************************************)
ReadBelow ==
  CellsOf({r.span : r \in {q \in returned : q.of = context /\ q.swept}})
VerdictIsGrounded ==
  result.status = "complete" =>
    /\ result.strategy \in Exhaustive =>
         \E i \in DOMAIN Top.sweeps :
           /\ Top.sweeps[i].scope = "context"
           /\ Top.sweeps[i].valid = DOMAIN context
           /\ Top.sweeps[i].op \in Required(result.strategy)
    /\ result.strategy = "recursive" => EnoughOf(context, Chars(context, ReadBelow))

(***************************************************************************)
(* "A parent's certificate is complete only if the union of what it and    *)
(* its children established covers its units with no gap": a unit that     *)
(* nobody read keeps the recursive certificate from being complete.        *)
(***************************************************************************)
NoUnitHides == result.certified => result.gaps = {}

(***************************************************************************)
(* The record of a child that ran out of turns is usable only on the       *)
(* evidence of a sweep of its whole part ("swept its whole part and then   *)
(* ran out of turns to write prose").                                      *)
(***************************************************************************)
UsableMeansSwept == record.usable /\ record.status # "ok" => record.swept
=============================================================================
