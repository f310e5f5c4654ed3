--------------------------- MODULE RecursionTree ---------------------------
(***************************************************************************)
(* The tree of nodes of one run: RecursiveCaller (calls/recursive.py),     *)
(* Budget.child, may_recurse and exhausted (budgets.py), _run_node and     *)
(* rlm_map (engine.py).                                                    *)
(*                                                                         *)
(* A node that calls rlm_query or rlm_map waits inside its block until the *)
(* child has ended, so the live nodes are a stack, the root first.  All of *)
(* them spend one Ledger; the turns a node may take are its own.  A node   *)
(* is reduced to its requests to the model and the calls its blocks make;  *)
(* what EpisodeLoop says of stalls and commit turns is a choice here.      *)
(***************************************************************************)
EXTENDS Naturals, Sequences, FiniteSets

CONSTANTS
  Signatures,   \* (question, context) pairs, as recursive.signature sees them
  MaxTurns,     \* Budget.max_turns of the root
  MaxNodes,     \* Budget.max_nodes
  MaxDepth,     \* Budget.max_depth
  MaxSubcalls,  \* Budget.max_subcalls
  MaxCommits,   \* bound: turns a node may take after its own are spent
  MaxParts      \* bound: parts a block hands to rlm_map

ASSUME TreeAssumption ==
  /\ {MaxTurns, MaxDepth, MaxSubcalls, MaxCommits, MaxParts} \subseteq Nat
  /\ MaxNodes \in Nat \ {0}
  /\ Signatures # {}

VARIABLES
  stack,     \* the live nodes, the root first
  nodes,     \* Ledger.nodes
  turns,     \* Ledger.turns
  subcalls,  \* Ledger.subcalls
  timeUp,    \* is the clock or the token budget of the ledger spent?
  lost,      \* history: subcalls of nodes that raised and of those below
  status     \* "running", "ended" or "raised"

ledger == <<nodes, turns, subcalls, timeUp>>
vars == <<stack, ledger, lost, status>>

(***************************************************************************)
(* A node: its question and context, Budget.max_turns and turns_here, the  *)
(* turns of its commit phase, whether it asks the model or runs a block,   *)
(* the requests of its own scheduler, RecursiveCaller.subtree["subcalls"], *)
(* the parts its rlm_map has left and whether they had a length, and       *)
(* (history) the nodes its map's children made.                            *)
(***************************************************************************)
Node == [sig : Signatures, limit : Nat, here : Nat, commits : Nat,
         at : {"ask", "block"}, own : Nat, below : Nat,
         left : Nat, sized : BOOLEAN, nested : Nat]
NewNode(sig, limit) ==
  [sig |-> sig, limit |-> limit, here |-> 0, commits |-> 0, at |-> "ask",
   own |-> 0, below |-> 0, left |-> 0, sized |-> FALSE, nested |-> 0]

Depth == Len(stack) - 1
Top == stack[Len(stack)]
Larger(a, b) == IF a > b THEN a ELSE b
Running(at) == status = "running" /\ Top.at = at
Update(node) == stack' = [stack EXCEPT ![Len(stack)] = node]
\* The part of RecursiveCaller.lineage a node hands on: the root's is empty.
Lineage == {stack[d].sig : d \in 2 .. Len(stack)}
\* Budget.child: half the turns, at least two.
ChildLimit == Larger(2, Top.limit \div 2)
-----------------------------------------------------------------------------
\* RLMEngine.complete: a fresh ledger, which counts the root.
Init ==
  /\ \E sig \in Signatures : stack = <<NewNode(sig, MaxTurns)>>
  /\ nodes = 1
  /\ turns = 0
  /\ subcalls = 0
  /\ timeUp = FALSE
  /\ lost = 0
  /\ status = "running"

\* Mutant: only the shared limits are looked at.
SharedExhausted == timeUp \/ subcalls >= MaxSubcalls \/ nodes > MaxNodes

\* Budget.exhausted
Exhausted ==
  \/ Top.here >= Top.limit
  \/ timeUp
  \/ subcalls >= MaxSubcalls
  \/ nodes > MaxNodes

\* NativeLoop.run: a turn is charged to the node and to the ledger.
AskTurn ==
  /\ Running("ask")
  /\ Top.commits = 0
  /\ ~Exhausted
  /\ Update([Top EXCEPT !.here = @ + 1, !.at = "block"])
  /\ turns' = turns + 1
  /\ UNCHANGED <<nodes, subcalls, timeUp, lost, status>>

\* NativeLoop._commit: a turn that no budget is charged for.
AskCommit ==
  /\ Running("ask")
  /\ Top.commits < MaxCommits
  /\ Update([Top EXCEPT !.commits = @ + 1, !.at = "block"])
  /\ UNCHANGED <<ledger, lost, status>>

BlockEnds ==
  /\ Running("block") /\ Top.left = 0
  /\ Update([Top EXCEPT !.at = "ask"])
  /\ UNCHANGED <<ledger, lost, status>>

\* llm_query, or one job of a batch, that goes out.
Query ==
  /\ Running("block") /\ Top.left = 0
  /\ ~timeUp /\ subcalls < MaxSubcalls /\ nodes <= MaxNodes
  /\ Update([Top EXCEPT !.own = @ + 1])
  /\ subcalls' = subcalls + 1
  /\ UNCHANGED <<nodes, turns, timeUp, lost, status>>

\* The clock, or the tokens of the replies.
TimeRunsOut ==
  /\ status = "running" /\ ~timeUp
  /\ timeUp' = TRUE
  /\ UNCHANGED <<stack, nodes, turns, subcalls, lost, status>>
-----------------------------------------------------------------------------
\* Mutant: the root is not counted.
MayRecurseOnceMore == Depth < MaxDepth /\ nodes <= MaxNodes

\* Budget.may_recurse
MayRecurse == Depth < MaxDepth /\ nodes < MaxNodes

\* Every map above the caller has a child that makes a node.
Nesting(node) == IF node.left > 0 THEN [node EXCEPT !.nested = @ + 1] ELSE node

(***************************************************************************)
(* RecursiveCaller._guarded up to spawn: the limits, the lineage, then     *)
(* Budget.child.  `caller` is the caller as the call leaves it.            *)
(***************************************************************************)
Spawn(sig, caller) ==
  /\ MayRecurse
  /\ sig \notin Lineage
  /\ nodes' = nodes + 1
  /\ stack' = [d \in 1 .. Len(stack) + 1 |->
                 IF d < Len(stack) THEN Nesting(stack[d])
                 ELSE IF d = Len(stack) THEN caller
                 ELSE NewNode(sig, ChildLimit)]
  /\ UNCHANGED <<turns, subcalls, timeUp, lost, status>>

\* rlm_query of a block.
Recurse(sig) == Running("block") /\ Top.left = 0 /\ Spawn(sig, Top)

(***************************************************************************)
(* rlm_map: parts with a length are refused when they outnumber the child  *)
(* slots, and grouped_parts makes at most as many; a generator of parts    *)
(* cannot be counted beforehand.                                           *)
(***************************************************************************)
Map(parts, sized) ==
  /\ Running("block") /\ Top.left = 0
  /\ sized => parts <= Larger(1, MaxNodes - nodes)
  /\ Update([Top EXCEPT !.left = parts, !.sized = sized, !.nested = 0])
  /\ UNCHANGED <<ledger, lost, status>>

\* The child of the next part; its part is no longer left.
MapChild(sig) ==
  /\ Running("block") /\ Top.left > 0
  /\ Spawn(sig, [Top EXCEPT !.left = @ - 1])

\* A part that is no text, or a child that is refused, ends the map.
MapStops ==
  /\ Running("block") /\ Top.left > 0
  /\ Update([Top EXCEPT !.left = 0])
  /\ UNCHANGED <<ledger, lost, status>>
-----------------------------------------------------------------------------
Pop(caller) ==
  stack' = [d \in 1 .. Len(stack) - 1 |->
              IF d = Len(stack) - 1 THEN caller ELSE stack[d]]
Caller == stack[Len(stack) - 1]

\* Mutant: a child's own requests only.
AbsorbOwn(child) == child.own

\* RecursiveCaller._absorb: the child's requests and those below it.
Absorb(child) == child.own + child.below

\* A node ends with an answer or without one; its caller goes on.
Return ==
  /\ Running("ask")
  /\ Top.here + Top.commits > 0 \/ Exhausted
  /\ IF Depth = 0
     THEN status' = "ended" /\ UNCHANGED stack
     ELSE status' = status /\ Pop([Caller EXCEPT !.below = @ + Absorb(Top)])
  /\ UNCHANGED <<ledger, lost>>

(***************************************************************************)
(* A request that fails or a session that breaks leaves the node as an     *)
(* exception: _absorb is skipped, a map stops, the root's run is over.     *)
(***************************************************************************)
Raise ==
  /\ status = "running"
  /\ Top.left = 0
  /\ IF Depth = 0
     THEN status' = "raised" /\ UNCHANGED <<stack, lost>>
     ELSE /\ Pop([Caller EXCEPT !.left = 0])
          /\ lost' = lost + Absorb(Top)
          /\ status' = status
  /\ UNCHANGED ledger

Done == status # "running" /\ UNCHANGED vars

Next ==
  \/ AskTurn \/ AskCommit \/ BlockEnds \/ Query \/ TimeRunsOut
  \/ \E sig \in Signatures : Recurse(sig) \/ MapChild(sig)
  \/ \E parts \in 1 .. MaxParts, sized \in BOOLEAN : Map(parts, sized)
  \/ MapStops \/ Return \/ Raise \/ Done

Spec == Init /\ [][Next]_vars
-----------------------------------------------------------------------------
\* TypeOK: the type invariant; only the root may be alone on the stack.
TypeOK ==
  /\ stack \in Seq(Node)
  /\ stack # <<>>
  /\ nodes \in 1 .. MaxNodes
  /\ turns \in Nat
  /\ subcalls \in 0 .. MaxSubcalls
  /\ timeUp \in BOOLEAN
  /\ lost \in Nat
  /\ status \in {"running", "ended", "raised"}

(***************************************************************************)
(* "A child must not get a fresh budget": a child has a turn allowance of  *)
(* its own and Ledger.turns is checked by nobody, yet the whole tree takes *)
(* no more turns than its nodes allow together, and it is never deeper     *)
(* than max_depth, through any mix of maps, queries and commit turns.      *)
(***************************************************************************)
TreeIsBounded ==
  /\ Depth <= MaxDepth
  /\ turns <= MaxTurns + (nodes - 1) * Larger(2, MaxTurns \div 2)

\* The subcalls of the first d nodes of the stack, with those absorbed.
SpentUpTo[d \in 0 .. Len(stack)] ==
  IF d = 0 THEN 0 ELSE SpentUpTo[d - 1] + Absorb(stack[d])

(***************************************************************************)
(* Every subcall the ledger was charged is in exactly one place: the       *)
(* records of a live node, the rolled-up figures of a node that called the *)
(* one that made it, or a node that raised (whose figures nobody absorbs). *)
(***************************************************************************)
SpendingIsAccounted == subcalls = SpentUpTo[Len(stack)] + lost

(***************************************************************************)
(* The preflight of rlm_map keeps its promise as far as it goes: while     *)
(* only the map itself makes nodes, the parts it accepted by their number  *)
(* all find a slot; what can take one away is a child that recurses.       *)
(***************************************************************************)
MapFits ==
  \A d \in DOMAIN stack :
    LET node == stack[d]
    IN  node.sized /\ node.left > 1 => node.left + nodes <= MaxNodes + node.nested

(***************************************************************************)
(* The tree stays within the turns, the depth and the nodes it was given,  *)
(* and what a preflight promised of them is there (recursion.py, rlm_map). *)
(***************************************************************************)
TreeKeepsItsBounds == TreeIsBounded /\ MapFits
=============================================================================
