-------------------------- MODULE Delegation_proofs --------------------------
(***************************************************************************)
(* For every context, every tree of calls, every way to cut and every      *)
(* width a cell may have:                                                  *)
(*                                                                         *)
(*   TypeCorrect     the types                                             *)
(*   CreditCorrect   a credited span is where its child's part was cut     *)
(*   GapsCorrect     the gaps reported are the cells no credit holds       *)
(*   VerdictCorrect  "complete" is earned                                  *)
(*                                                                         *)
(* Two invariants carry them. IInv ties each node's text to the place in   *)
(* its caller's text that its cut names. KInv bounds the tree, keeps every *)
(* sweep and every credited span inside the text it speaks of, and says    *)
(* what a verdict on record was given for. The certificate's own loops     *)
(* (sort, merge, walk) and its sum of characters are folds and a recursive *)
(* sum: what they compute is proved by induction over the prefixes of the  *)
(* sequence and over the subsets of the set, from the well-foundedness of  *)
(* < on the naturals.                                                      *)
(***************************************************************************)
EXTENDS Delegation, FiniteSetTheorems, SequenceTheorems, WellFoundedInduction, TLAPS

Cells == DOMAIN Width
Texts == Seq(Cells)
Sweeps == [op : {"semantic_map", "semantic_search"}, scope : {"context", "items"},
           total : Nat, valid : SUBSET Int]
Nodes == [text : Texts, cut : Seq(Nat), sweeps : Seq(Sweeps), ops : SUBSET Operations,
          call : {"none", "map", "query"}]

(***************************************************************************)
(* A node's text is the part of its caller's text that its cut says, or    *)
(* the text that is nowhere in it.                                         *)
(***************************************************************************)
CutFrom(part, cut, text) ==
  \/ cut = <<>> /\ part = Foreign /\ Occurrences(Foreign, text) = {}
  \/ \E a, b \in 0 .. Len(text) :
       a < b /\ cut = <<a, b>> /\ part = SubSeq(text, a + 1, b)

Framed(s) ==
  \A d \in 1 .. Len(s) - 1 : CutFrom(s[d + 1].text, s[d + 1].cut, s[d].text)

IInv == stack \in Seq(Nodes) /\ Len(stack) > 0 /\ Framed(stack) /\ CreditAtOrigin
-----------------------------------------------------------------------------
\* A part that was cut from a text occurs where it was cut.
LEMMA CutOccurs ==
  ASSUME NEW text \in Texts, NEW a \in 0 .. Len(text), NEW b \in 0 .. Len(text), a < b
  PROVE  LET part == SubSeq(text, a + 1, b)
         IN  part \in Texts /\ Len(part) = b - a /\ a \in Occurrences(part, text)
<1> DEFINE part == SubSeq(text, a + 1, b)
<1>1. part \in Texts /\ Len(part) = b - a
  BY DEF Texts
<1>2. \A i \in DOMAIN part : text[a + i] = part[i]
  BY <1>1 DEF Texts
<1>3. a \in 0 .. Len(text) - Len(part)
  BY <1>1 DEF Texts
<1>4. QED
  BY <1>1, <1>2, <1>3 DEF Occurrences

\* A unique occurrence is the only place a part is credited at.
LEMMA PlacedOnce ==
  ASSUME NEW text \in Texts, NEW part \in Texts, NEW span \in Placed(part, text)
  PROVE  \E at : Occurrences(part, text) = {at} /\ span = <<at, at + Len(part)>>
<1>1. Len(text) - Len(part) \in Int
  BY DEF Texts
<1>2. IsFiniteSet(0 .. Len(text) - Len(part))
  BY <1>1, FS_Interval
<1>3. IsFiniteSet(Occurrences(part, text))
  BY <1>2, FS_Subset DEF Occurrences
<1>4. /\ Cardinality(Occurrences(part, text)) = 1
      /\ \E at \in Occurrences(part, text) : span = <<at, at + Len(part)>>
  BY DEF Placed
<1>5. PICK x : Occurrences(part, text) = {x}
  BY <1>3, <1>4, FS_Singleton
<1>6. QED
  BY <1>4, <1>5

\* Whatever is credited to a child that was cut from its caller is its cut.
LEMMA PlacedAtCut ==
  ASSUME NEW text \in Texts, NEW part \in Texts, NEW cut,
         CutFrom(part, cut, text), NEW span \in Placed(part, text)
  PROVE  cut # <<>> /\ span = cut
<1>1. PICK at : Occurrences(part, text) = {at} /\ span = <<at, at + Len(part)>>
  BY PlacedOnce
<1>2. PICK a \in 0 .. Len(text), b \in 0 .. Len(text) :
        a < b /\ cut = <<a, b>> /\ part = SubSeq(text, a + 1, b)
  BY <1>1 DEF CutFrom
<1>3. Len(part) = b - a /\ a \in Occurrences(part, text)
  BY <1>2, CutOccurs
<1>4. at = a /\ a + (b - a) = b
  BY <1>1, <1>3 DEF Texts
<1>5. QED
  BY <1>1, <1>2, <1>3, <1>4

\* A step that keeps the texts and cuts of the nodes it keeps frames them.
LEMMA FramedKept ==
  ASSUME NEW s \in Seq(Nodes), NEW t \in Seq(Nodes), Framed(s), Len(t) <= Len(s),
         \A d \in 1 .. Len(t) : t[d].text = s[d].text /\ t[d].cut = s[d].cut
  PROVE  Framed(t)
  BY DEF Framed

\* A node keeps its text and its cut whatever its blocks do.
LEMMA NewNodeTypes ==
  ASSUME NEW text \in Texts, NEW cut \in Seq(Nat)
  PROVE  /\ NewNode(text, cut) \in Nodes
         /\ NewNode(text, cut).text = text /\ NewNode(text, cut).cut = cut
<1>1. <<>> \in Seq(Sweeps)
  OBVIOUS
<1>2. QED
  BY <1>1 DEF NewNode, Nodes

\* The nodes on the stack are nodes.
LEMMA NodeTypes ==
  ASSUME NEW n \in Nodes, NEW c \in {"none", "map", "query"}, NEW o \in SUBSET Operations,
         NEW s \in Seq(Sweeps)
  PROVE  \A m \in {[n EXCEPT !.call = c], [n EXCEPT !.call = c, !.ops = n.ops \cup o],
                   [n EXCEPT !.sweeps = s, !.ops = n.ops \cup o]} :
           m \in Nodes /\ m.text = n.text /\ m.cut = n.cut
<1>1. n.ops \cup o \in SUBSET Operations
  BY DEF Nodes
<1>2. QED
  BY <1>1 DEF Nodes

\* The live nodes after one of the last two was replaced.
LEMMA UpdateTypes ==
  ASSUME stack \in Seq(Nodes), Len(stack) > 0, Framed(stack),
         NEW m \in Nodes, m.text = Top.text, m.cut = Top.cut
  PROVE  LET t == [stack EXCEPT ![Len(stack)] = m]
         IN  t \in Seq(Nodes) /\ Len(t) > 0 /\ Framed(t)
<1> DEFINE t == [stack EXCEPT ![Len(stack)] = m]
<1>1. t \in Seq(Nodes) /\ Len(t) = Len(stack)
  OBVIOUS
<1>2. ASSUME NEW d \in 1 .. Len(t)
      PROVE  t[d].text = stack[d].text /\ t[d].cut = stack[d].cut
  <2>1. CASE d = Len(stack)
    BY <1>1, <2>1 DEF Top
  <2>2. CASE d # Len(stack)
    <3>1. t[d] = stack[d]
      BY <1>1, <2>2
    <3>2. QED
      BY <3>1
  <2>3. QED
    BY <2>1, <2>2
<1>3. Framed(t)
  <2> HIDE DEF t
  <2>1. QED
    BY <1>1, <1>2, FramedKept
<1>4. QED
  BY <1>1, <1>3

\* The types of the stack without its last node.
LEMMA DropTypes ==
  ASSUME stack \in Seq(Nodes), Len(stack) > 1, Framed(stack),
         NEW m \in Nodes, m.text = Caller.text, m.cut = Caller.cut
  PROVE  LET t == Append(SubSeq(stack, 1, Len(stack) - 2), m)
         IN  t \in Seq(Nodes) /\ Len(t) > 0 /\ Framed(t)
<1> DEFINE t == Append(SubSeq(stack, 1, Len(stack) - 2), m)
           r == SubSeq(stack, 1, Len(stack) - 2)
<1>0. r \in Seq(Nodes) /\ Len(r) = Len(stack) - 2
  <2>1. Len(stack) - 2 \in Nat
    OBVIOUS
  <2>2. \A i \in 1 .. Len(stack) - 2 : stack[i] \in Nodes
    BY <2>1
  <2>3. r = [i \in 1 .. Len(stack) - 2 |-> stack[i]]
    BY <2>1
  <2>4. r \in Seq(Nodes)
    <3>1. r \in [1 .. Len(stack) - 2 -> Nodes]
      BY <2>2, <2>3
    <3>2. QED
      BY <2>1, <3>1
  <2>5. DOMAIN r = 1 .. Len(stack) - 2
    BY <2>3
  <2>6. QED
    <3> HIDE DEF r
    <3>1. QED
      BY <2>1, <2>4, <2>5
<1>1. t \in Seq(Nodes) /\ Len(t) = Len(stack) - 1
  BY <1>0
<1>2. ASSUME NEW d \in 1 .. Len(t)
      PROVE  t[d].text = stack[d].text /\ t[d].cut = stack[d].cut
  <2>1. CASE d = Len(stack) - 1
    BY <1>0, <1>1, <2>1 DEF Caller
  <2>2. CASE d # Len(stack) - 1
    <3>1. d \in 1 .. Len(r) /\ t[d] = r[d]
      BY <1>0, <1>1, <2>2
    <3>2. r[d] = stack[d]
      BY <1>0, <3>1
    <3>3. QED
      BY <3>1, <3>2
  <2>3. QED
    BY <2>1, <2>2
<1>3. Framed(t)
  <2>1. Len(t) <= Len(stack)
    BY <1>1
  <2> HIDE DEF t
  <2>2. QED
    BY <1>1, <1>2, <2>1, FramedKept
<1>4. QED
  BY <1>1, <1>3
-----------------------------------------------------------------------------
\* One node, which nothing was cut for.
LEMMA InvInit == Init => IInv
<1> SUFFICES ASSUME Init PROVE IInv
  OBVIOUS
<1>1. context \in Texts
  BY DelegationAssumption DEF Init, DelegationAssumption, Texts, Cells
<1>2. <<0, Len(context)>> \in Seq(Nat)
  BY <1>1 DEF Texts
<1>3. NewNode(context, <<0, Len(context)>>) \in Nodes
  BY <1>1, <1>2, NewNodeTypes
<1>4. stack \in Seq(Nodes) /\ Len(stack) = 1
  BY <1>3 DEF Init
<1>5. Framed(stack) /\ CreditAtOrigin
  BY <1>4 DEF Init, Framed, CreditAtOrigin
<1>6. QED
  BY <1>4, <1>5 DEF IInv

\* A child is the part of its caller's text that was cut for it.
LEMMA SpawnStep ==
  ASSUME IInv, NEW call \in {"map", "query"}, NEW cut \in Cuts, Spawn(call, cut)
  PROVE  IInv'
<1> DEFINE s == [stack EXCEPT ![Len(stack)].call = call]
           child == NewNode(PartAt(cut), cut)
<1>0. Top \in Nodes
  BY DEF IInv, Top
<1>1. Top \in Nodes /\ Top.text \in Texts
  BY <1>0 DEF Nodes
<1>2. s \in Seq(Nodes) /\ Len(s) > 0 /\ Framed(s) /\ Len(s) = Len(stack)
  <2>1. [Top EXCEPT !.call = call] \in Nodes
    BY <1>1 DEF Nodes
  <2>2. s = [stack EXCEPT ![Len(stack)] = [Top EXCEPT !.call = call]]
    BY DEF IInv, Top
  <2>3. /\ [Top EXCEPT !.call = call].text = Top.text
        /\ [Top EXCEPT !.call = call].cut = Top.cut
    BY <1>1 DEF Nodes
  <2>4. s \in Seq(Nodes) /\ Len(s) > 0 /\ Framed(s)
    BY <2>1, <2>2, <2>3, UpdateTypes DEF IInv
  <2>5. QED
    BY <2>2, <2>4 DEF IInv
<1>3. s[Len(s)].text = Top.text
  BY <1>1, <1>2 DEF IInv, Top, Nodes
<1>4. PartAt(cut) \in Texts /\ cut \in Seq(Nat) /\ CutFrom(PartAt(cut), cut, Top.text)
  <2>1. CASE cut = <<>>
    BY <2>1, DelegationAssumption DEF Cuts, PartAt, CutFrom, DelegationAssumption, Texts, Cells
  <2>2. CASE cut # <<>>
    <3>1. PICK a \in 0 .. Len(Top.text), b \in 0 .. Len(Top.text) : cut = <<a, b>> /\ a < b
      BY <2>2 DEF Cuts
    <3>2. PartAt(cut) = SubSeq(Top.text, a + 1, b) /\ cut \in Seq(Nat)
      BY <3>1, <1>1 DEF PartAt, Texts
    <3>3. QED
      BY <3>1, <3>2, <1>1, CutOccurs DEF CutFrom
  <2>3. QED
    BY <2>1, <2>2
<1>5. child \in Nodes /\ child.text = PartAt(cut) /\ child.cut = cut
  BY <1>4, NewNodeTypes
<1>6. stack' = Append(s, child)
  BY DEF Spawn
<1>7. stack' \in Seq(Nodes) /\ Len(stack') > 0
  BY <1>2, <1>5, <1>6
<1>8. Framed(stack')
  <2> SUFFICES ASSUME NEW d \in 1 .. Len(stack') - 1
               PROVE  CutFrom(stack'[d + 1].text, stack'[d + 1].cut, stack'[d].text)
    BY DEF Framed
  <2>1. CASE d = Len(s)
    BY <2>1, <1>2, <1>3, <1>4, <1>5, <1>6
  <2>2. CASE d # Len(s)
    BY <2>2, <1>2, <1>5, <1>6 DEF Framed
  <2>3. QED
    BY <2>1, <2>2
<1>9. CreditAtOrigin'
  BY DEF IInv, CreditAtOrigin, Spawn
<1>10. QED
  BY <1>7, <1>8, <1>9 DEF IInv, Framed

\* What _credit adds to the trace is in the history of the parts that ended.
LEMMA ReturnCredits ==
  ASSUME IInv, NEW answered, NEW clean, Return(answered, clean)
  PROVE  CreditAtOrigin'
<1>0. Len(stack) > 1 /\ Len(stack) - 1 \in 1 .. Len(stack) - 1
  BY DEF IInv, Return
<1>1. /\ Top \in Nodes /\ Caller \in Nodes
      /\ CutFrom(Top.text, Top.cut, Caller.text)
  BY <1>0 DEF IInv, Top, Caller, Framed
<1>2. returned \subseteq returned'
  BY DEF Return
<1> SUFFICES ASSUME NEW e \in trace'
             PROVE  [of |-> e.of, span |-> e.span, swept |-> TRUE] \in returned'
  BY DEF CreditAtOrigin
<1>3. CASE e \in trace
  BY <1>2, <1>3 DEF IInv, CreditAtOrigin
<1>4. CASE e \in Credit(Top, Caller)
  <2>1. /\ Top.sweeps # <<>> /\ ContextComplete(Last(Top.sweeps))
        /\ e.of = Caller.text /\ e.span \in Placed(Top.text, Caller.text)
    BY <1>4 DEF Credit
  <2>2. Top.cut # <<>> /\ e.span = Top.cut
    BY <1>1, <2>1, PlacedAtCut DEF Nodes
  <2>3. Swept(Top)
    BY <1>1, <2>1 DEF Swept, Last, Nodes
  <2>4. [of |-> Caller.text, span |-> Top.cut, swept |-> Swept(Top)] \in returned'
    BY <2>2 DEF Return
  <2>5. QED
    BY <2>1, <2>2, <2>3, <2>4
<1>5. QED
  BY <1>3, <1>4 DEF Return

\* A sweep, a map that begins or ends, and a child that raises leave the trace.
LEMMA OtherStep ==
  ASSUME IInv, UNCHANGED <<trace, returned>>,
         \/ \E m \in Nodes : m.text = Top.text /\ m.cut = Top.cut /\ Update(m)
         \/ \E m \in Nodes :
              /\ Len(stack) > 1 /\ m.text = Caller.text /\ m.cut = Caller.cut
              /\ stack' = Append(SubSeq(stack, 1, Len(stack) - 2), m)
         \/ UNCHANGED stack
  PROVE  IInv'
<1>1. CreditAtOrigin'
  BY DEF IInv, CreditAtOrigin
<1>2. CASE \E m \in Nodes : m.text = Top.text /\ m.cut = Top.cut /\ Update(m)
  BY <1>1, <1>2, UpdateTypes DEF IInv, Update, Framed
<1>3. CASE \E m \in Nodes :
              /\ Len(stack) > 1 /\ m.text = Caller.text /\ m.cut = Caller.cut
              /\ stack' = Append(SubSeq(stack, 1, Len(stack) - 2), m)
  BY <1>1, <1>3, DropTypes DEF IInv, Framed
<1>4. CASE UNCHANGED stack
  BY <1>1, <1>4 DEF IInv, Framed
<1>5. QED
  BY <1>2, <1>3, <1>4

\* One step for each action.
LEMMA InvStep == IInv /\ [Next]_vars => IInv'
<1> SUFFICES ASSUME IInv, [Next]_vars PROVE IInv'
  OBVIOUS
<1>1. Top \in Nodes /\ (Len(stack) > 1 => Caller \in Nodes)
  BY DEF IInv, Top, Caller
<1>2. ASSUME NEW o \in Outcomes, Sweep(o) PROVE IInv'
  <2> DEFINE total == IF o.scope = "context" THEN Len(Top.text) ELSE 1
             sweep == [op |-> o.op, scope |-> o.scope, total |-> total,
                       valid |-> 1 .. total - o.missing]
             m == [Top EXCEPT !.sweeps = Append(@, sweep), !.ops = @ \cup {o.op}]
  <2>1. /\ o.op \in {"semantic_map", "semantic_search"} /\ o.missing \in {0, 1}
        /\ o.scope \in {"context", "items"}
    BY DelegationAssumption DEF DelegationAssumption
  <2>2. total \in Nat
    BY <1>1 DEF Nodes, Texts
  <2>3. 1 .. total - o.missing \in SUBSET Int
    BY <2>1, <2>2
  <2>4. sweep \in Sweeps
    BY <2>1, <2>2, <2>3 DEF Sweeps
  <2>5. /\ Append(Top.sweeps, sweep) \in Seq(Sweeps)
        /\ Top.ops \cup {o.op} \in SUBSET Operations
    BY <1>1, <2>1, <2>4 DEF Nodes, Operations
  <2> HIDE DEF sweep
  <2>6. m \in Nodes /\ m.text = Top.text /\ m.cut = Top.cut
    BY <1>1, <2>5 DEF Nodes
  <2>7. QED
    BY <1>2, <2>6, OtherStep DEF Sweep, sweep
<1>3. CASE Query
  BY <1>3, SpawnStep DEF Query
<1>4. CASE MapChild
  BY <1>4, SpawnStep DEF MapChild
<1>5. CASE Map
  <2>1. LET m == [Top EXCEPT !.call = "map"]
        IN  m \in Nodes /\ m.text = Top.text /\ m.cut = Top.cut
    BY <1>1 DEF Nodes
  <2>2. QED
    BY <1>5, <2>1, OtherStep DEF Map
<1>6. ASSUME NEW n \in Nodes
      PROVE  Mapped(n) \in Nodes /\ Mapped(n).text = n.text /\ Mapped(n).cut = n.cut
  BY DEF Mapped, Nodes, Operations
<1>7. CASE MapEnds \/ MapStops
  BY <1>1, <1>6, <1>7, OtherStep DEF MapEnds, MapStops
<1>8. CASE Raise
  <2> DEFINE m == IF Caller.call = "map" THEN Mapped(Caller)
                  ELSE [Caller EXCEPT !.call = "none"]
  <2>1. Len(stack) > 1 /\ m \in Nodes /\ m.text = Caller.text /\ m.cut = Caller.cut
    BY <1>1, <1>6, <1>8 DEF Raise, Nodes
  <2>2. QED
    BY <1>8, <2>1, OtherStep DEF Raise
<1>9. CASE Done \/ UNCHANGED vars
  BY <1>9, OtherStep DEF Done, vars
<1>10. ASSUME NEW answered \in BOOLEAN, NEW flag \in BOOLEAN, Return(answered, flag)
       PROVE  IInv'
  <2> DEFINE m == IF Caller.call = "query"
                  THEN [Caller EXCEPT !.call = "none", !.ops = @ \cup {"rlm_query"}]
                  ELSE Caller
  <2>1. Len(stack) > 1 /\ m \in Nodes /\ m.text = Caller.text /\ m.cut = Caller.cut
    BY <1>1, <1>10 DEF Return, Nodes, Operations
  <2>2. stack' = Append(SubSeq(stack, 1, Len(stack) - 2), m)
    BY <1>10 DEF Return
  <2>3. stack' \in Seq(Nodes) /\ Len(stack') > 0 /\ Framed(stack')
    BY <2>1, <2>2, DropTypes DEF IInv
  <2>4. QED
    BY <1>10, <2>3, ReturnCredits DEF IInv, Framed
<1>11. ASSUME NEW strategy \in Strategies, NEW answered \in BOOLEAN, NEW flag \in BOOLEAN,
              Answer(strategy, answered, flag)
       PROVE  IInv'
  BY <1>11, OtherStep DEF Answer
<1>12. QED
  BY <1>2, <1>3, <1>4, <1>5, <1>7, <1>8, <1>9, <1>10, <1>11 DEF Next
-----------------------------------------------------------------------------
(***************************************************************************)
(* A span that the trace credits to a child is where its caller cut the    *)
(* child's text, and the child had swept all of it, whatever stretches of  *)
(* the context are equal and however the nodes cut and map                 *)
(* (RecursiveCaller._credit).                                              *)
(***************************************************************************)
THEOREM CreditCorrect == Spec => []CreditAtOrigin
<1>1. IInv => CreditAtOrigin
  BY DEF IInv
<1>2. QED
  BY <1>1, InvInit, InvStep, PTL DEF Spec
-----------------------------------------------------------------------------
(***************************************************************************)
(* Induction: over the naturals, and, further down, over finite sets.      *)
(***************************************************************************)
\* Every inhabited set of naturals has a least member.
LEMMA Least ==
  ASSUME NEW T, T \subseteq Nat, T # {}
  PROVE  \E x \in T : \A y \in T : ~(y < x)
<1> DEFINE R == {p \in Nat \X Nat : p[1] < p[2]}
<1>1. IsWellFoundedOn(R, Nat)
  BY NatLessThanWellFounded DEF OpToRel
<1>2. \E x \in T : \A y \in T : <<y, x>> \notin R
  <2> HIDE DEF R
  <2>1. QED
    BY <1>1, WFMin
<1>3. QED
  BY <1>2

\* Induction over the naturals, for a set of those that have a property.
LEMMA Induction ==
  ASSUME NEW P, 0 \in P, \A n \in P \cap Nat : n + 1 \in P
  PROVE  Nat \subseteq P
<1> SUFFICES ASSUME Nat \ P # {} PROVE FALSE
  OBVIOUS
<1>1. PICK x \in Nat \ P : \A y \in Nat \ P : ~(y < x)
  BY Least
<1>2. x # 0 /\ x - 1 \in Nat
  BY <1>1
<1>3. x - 1 \in P
  BY <1>1, <1>2
<1>4. (x - 1) + 1 \in P
  BY <1>2, <1>3
<1>5. QED
  BY <1>1, <1>2, <1>4
-----------------------------------------------------------------------------
(***************************************************************************)
(* sorted(spans): there is one way to put a finite set of spans in order,  *)
(* and it lists each of them (Certificate.merged).                         *)
(***************************************************************************)
\* What a span is, wherever it lies.
Pairs == {s \in Nat \X Nat : s[1] < s[2]}

\* An inhabited set of spans has a first one.
LEMMA FirstSpan ==
  ASSUME NEW S \in SUBSET Pairs, S # {}
  PROVE  \E m \in S : \A s \in S \ {m} : Before(m, s)
<1>1. PICK a \in {s[1] : s \in S} : \A y \in {s[1] : s \in S} : ~(y < a)
  <2>1. {s[1] : s \in S} \subseteq Nat /\ {s[1] : s \in S} # {}
    BY DEF Pairs
  <2>2. QED
    BY <2>1, Least
<1> DEFINE T == {s \in S : s[1] = a}
<1>2. PICK b \in {s[2] : s \in T} : \A y \in {s[2] : s \in T} : ~(y < b)
  <2>1. {s[2] : s \in T} \subseteq Nat /\ {s[2] : s \in T} # {}
    BY <1>1 DEF Pairs
  <2>2. QED
    BY <2>1, Least
<1>3. PICK m \in S : m[1] = a /\ m[2] = b
  BY <1>2
<1>4. ASSUME NEW s \in S \ {m} PROVE Before(m, s)
  <2>1. /\ s[1] \in Nat /\ s[2] \in Nat /\ s = <<s[1], s[2]>>
        /\ m[1] \in Nat /\ m[2] \in Nat /\ m = <<m[1], m[2]>>
    BY DEF Pairs
  <2>2. ~(s[1] < a) /\ (s[1] = a => ~(s[2] < b))
    BY <1>1, <1>2
  <2>3. ~(s[1] = m[1] /\ s[2] = m[2])
    BY <2>1
  <2>4. QED
    BY <1>3, <2>1, <2>2, <2>3 DEF Before
<1>5. QED
  BY <1>4

Orders(f, S) ==
  /\ f \in [1 .. Cardinality(S) -> S]
  /\ \A i, j \in 1 .. Cardinality(S) : i < j => Before(f[i], f[j])

\* A finite set of spans can be put in order: its first, then the rest.
LEMMA OrderExists ==
  ASSUME NEW S \in SUBSET Pairs, IsFiniteSet(S)
  PROVE  \E f : Orders(f, S)
<1> DEFINE P == {n \in Nat : \A T \in SUBSET Pairs :
                   IsFiniteSet(T) /\ Cardinality(T) = n => \E f : Orders(f, T)}
<1>1. 0 \in P
  <2> SUFFICES ASSUME NEW T \in SUBSET Pairs, IsFiniteSet(T), Cardinality(T) = 0
               PROVE  \E f : Orders(f, T)
    OBVIOUS
  <2>1. Orders([i \in 1 .. 0 |-> CHOOSE x \in T : TRUE], T)
    BY DEF Orders
  <2>2. QED
    BY <2>1
<1>2. ASSUME NEW n \in P \cap Nat PROVE n + 1 \in P
  <2> SUFFICES ASSUME NEW T \in SUBSET Pairs, IsFiniteSet(T), Cardinality(T) = n + 1
               PROVE  \E f : Orders(f, T)
    OBVIOUS
  <2>1. T # {}
    BY FS_EmptySet
  <2>2. PICK m \in T : \A s \in T \ {m} : Before(m, s)
    BY <2>1, FirstSpan
  <2>3. IsFiniteSet(T \ {m}) /\ Cardinality(T \ {m}) = n
    <3>1. n \in Nat /\ m \in T /\ (n + 1) - 1 = n
      OBVIOUS
    <3> HIDE DEF P
    <3>2. /\ IsFiniteSet(T \ {m})
          /\ Cardinality(T \ {m}) = IF m \in T THEN Cardinality(T) - 1 ELSE Cardinality(T)
      BY FS_RemoveElement
    <3>3. QED
      BY <3>1, <3>2
  <2>4. PICK g : Orders(g, T \ {m})
    BY <2>3
  <2> DEFINE f == [i \in 1 .. n + 1 |-> IF i = 1 THEN m ELSE g[i - 1]]
  <2>5. ASSUME NEW i \in 1 .. n + 1
        PROVE  f[i] = (IF i = 1 THEN m ELSE g[i - 1]) /\ f[i] \in T
               /\ (i # 1 => i - 1 \in 1 .. n /\ f[i] \in T \ {m})
    <3>1. g \in [1 .. n -> T \ {m}]
      BY <2>3, <2>4 DEF Orders
    <3>2. i # 1 => i - 1 \in 1 .. n
      OBVIOUS
    <3> HIDE DEF P
    <3>3. QED
      BY <3>1, <3>2
  <2>6. ASSUME NEW i \in 1 .. n + 1, NEW j \in 1 .. n + 1, i < j PROVE Before(f[i], f[j])
    <3>1. j # 1 /\ j - 1 \in 1 .. n /\ f[j] = g[j - 1] /\ f[j] \in T \ {m}
      BY <2>5, <2>6
    <3>2. CASE i = 1
      BY <2>2, <2>5, <3>1, <3>2
    <3>3. CASE i # 1
      <4>1. i - 1 \in 1 .. n /\ i - 1 < j - 1 /\ f[i] = g[i - 1]
        BY <2>5, <2>6, <3>3
      <4> HIDE DEF f
      <4>2. QED
        BY <2>3, <2>4, <3>1, <4>1 DEF Orders
    <3>4. QED
      BY <3>2, <3>3
  <2>7. f \in [1 .. n + 1 -> T]
    BY <2>5
  <2>8. QED
    <3> HIDE DEF f
    <3>1. Orders(f, T)
      BY <2>6, <2>7 DEF Orders
    <3>2. QED
      BY <3>1
<1> HIDE DEF P
<1>3. Nat \subseteq P
  BY <1>1, <1>2, Induction
<1>4. Cardinality(S) \in Nat
  BY FS_CardinalityType
<1>5. QED
  BY <1>3, <1>4 DEF P

\* sorted: every span once, by its start.
LEMMA InOrderSorts ==
  ASSUME NEW S \in SUBSET Pairs, IsFiniteSet(S)
  PROVE  /\ InOrder(S) \in Seq(Pairs) /\ Len(InOrder(S)) \in Nat
         /\ {InOrder(S)[i] : i \in 1 .. Len(InOrder(S))} = S
         /\ \A i, j \in 1 .. Len(InOrder(S)) : i < j => InOrder(S)[i][1] <= InOrder(S)[j][1]
<1> DEFINE f == InOrder(S)
           n == Cardinality(S)
<1>1. Orders(f, S)
  BY OrderExists DEF InOrder, Orders
<1>2. n \in Nat
  BY FS_CardinalityType
<1> HIDE DEF f
<1>3. f \in Seq(S) /\ Len(f) = n
  BY <1>1, <1>2 DEF Orders
<1>4. \A i, j \in 1 .. n : i < j => f[i][1] <= f[j][1] /\ f[i] # f[j]
  <2> SUFFICES ASSUME NEW i \in 1 .. n, NEW j \in 1 .. n, i < j
               PROVE  f[i][1] <= f[j][1] /\ f[i] # f[j]
    OBVIOUS
  <2>1. Before(f[i], f[j]) /\ f[i] \in Pairs /\ f[j] \in Pairs
    BY <1>1 DEF Orders
  <2>2. f[i][1] \in Nat /\ f[j][1] \in Nat /\ f[i][2] \in Nat
    BY <2>1 DEF Pairs
  <2>3. QED
    BY <2>1, <2>2 DEF Before
<1>5. {f[i] : i \in 1 .. n} = S
  <2>1. f \in [1 .. n -> S]
    BY <1>1 DEF Orders
  <2>2. f \in Injection(1 .. n, S)
    <3>1. \A i, j \in 1 .. n : f[i] = f[j] => i = j
      BY <1>2, <1>4
    <3>2. QED
      BY <2>1, <3>1 DEF Injection, IsInjective
  <2>3. Cardinality(1 .. n) = n /\ IsFiniteSet(1 .. n)
    BY <1>2, FS_Interval
  <2>4. f \in Surjection(1 .. n, S)
    BY <2>2, <2>3, FS_Injection
  <2>5. \A s \in S : \E i \in 1 .. n : f[i] = s
    BY <2>4 DEF Surjection
  <2>6. QED
    BY <2>1, <2>5
<1>6. f \in Seq(Pairs)
  BY <1>3
<1>7. QED
  BY <1>2, <1>3, <1>4, <1>5, <1>6 DEF f
-----------------------------------------------------------------------------
(***************************************************************************)
(* The two loops as recursive functions on the length of the prefix done.  *)
(***************************************************************************)

\* FoldLeft's recursive function on sets of positions, for the loop over sorted spans.
Joining(f, seq, n) ==
  f = [S \in SUBSET (1 .. n) |->
         IF S = {} THEN <<>> ELSE Join(f[S \ {Max(S)}], seq[Max(S)])]

\* The loop has such a function.
LEMMA JoiningExists ==
  ASSUME NEW seq, NEW n \in Nat
  PROVE  \E f : Joining(f, seq, n)
<1> DEFINE P == {k \in Nat : \E f : Joining(f, seq, k)}
<1>1. 0 \in P
  <2> DEFINE f == [S \in SUBSET (1 .. 0) |-> <<>>]
  <2>1. f = [S \in SUBSET (1 .. 0) |->
               IF S = {} THEN <<>> ELSE Join(f[S \ {Max(S)}], seq[Max(S)])]
    OBVIOUS
  <2> HIDE DEF f
  <2>2. Joining(f, seq, 0)
    BY <2>1 DEF Joining
  <2>3. QED
    BY <2>2
<1>2. ASSUME NEW k \in P \cap Nat PROVE k + 1 \in P
  <2>1. PICK f : Joining(f, seq, k)
    OBVIOUS
  <2>0. k \in Nat
    OBVIOUS
  <2> DEFINE G(S) == IF k + 1 \in S THEN Join(f[S \ {k + 1}], seq[k + 1]) ELSE f[S]
             g == [S \in SUBSET (1 .. k + 1) |-> G(S)]
  <2>2. ASSUME NEW S \in SUBSET (1 .. k + 1)
        PROVE  g[S] = IF S = {} THEN <<>>
                      ELSE Join(g[S \ {Max(S)}], seq[Max(S)])
    <3>1. CASE k + 1 \in S
      <4>1. Max(S) = k + 1
        <5>1. \A x \in S : (\A y \in S : x >= y) <=> x = k + 1
          BY <2>0, <3>1
        <5>2. QED
          BY <3>1, <5>1 DEF Max
      <4>2. S \ {k + 1} \in SUBSET (1 .. k + 1) /\ k + 1 \notin S \ {k + 1}
        OBVIOUS
      <4>3. g[S \ {k + 1}] = f[S \ {k + 1}]
        BY <4>2
      <4>4. g[S] = Join(f[S \ {k + 1}], seq[k + 1])
        BY <3>1
      <4> HIDE DEF g
      <4>5. QED
        BY <3>1, <4>1, <4>3, <4>4
    <3>2. CASE k + 1 \notin S
      <4>1. S \in SUBSET (1 .. k)
        BY <2>0, <3>2
      <4>2. /\ S \ {Max(S)} \in SUBSET (1 .. k) /\ k + 1 \notin S \ {Max(S)}
            /\ S \ {Max(S)} \in SUBSET (1 .. k + 1)
        BY <3>2, <4>1
      <4>3. g[S] = f[S] /\ g[S \ {Max(S)}] = f[S \ {Max(S)}]
        BY <3>2, <4>2
      <4>4. f[S] = IF S = {} THEN <<>> ELSE Join(f[S \ {Max(S)}], seq[Max(S)])
        BY <2>1, <4>1 DEF Joining
      <4> HIDE DEF g
      <4>5. QED
        BY <4>3, <4>4
    <3>3. QED
      BY <3>1, <3>2
  <2>3. g = [S \in SUBSET (1 .. k + 1) |-> g[S]]
    OBVIOUS
  <2> HIDE DEF g
  <2>4. Joining(g, seq, k + 1)
    BY <2>2, <2>3 DEF Joining
  <2>5. QED
    BY <2>4
<1> HIDE DEF P
<1>3. Nat \subseteq P
  BY <1>1, <1>2, Induction
<1>4. QED
  BY <1>3 DEF P

\* What the loop over the sorted spans holds after each of them.
LEMMA JoiningFolds ==
  ASSUME NEW S, NEW seq \in Seq(S)
  PROVE  \E r : /\ r[0] = <<>>
                /\ \A k \in 1 .. Len(seq) : r[k] = Join(r[k - 1], seq[k])
                /\ r[Len(seq)] = FoldLeft(Join, <<>>, seq)
<1> DEFINE n == Len(seq)
           f == CHOOSE f : Joining(f, seq, n)
           r == [k \in 0 .. n |-> f[1 .. k]]
<1>1. n \in Nat /\ DOMAIN seq = 1 .. n
  OBVIOUS
<1> HIDE DEF n
<1>2. Joining(f, seq, n)
  BY <1>1, JoiningExists
<1>3. FoldLeft(Join, <<>>, seq) = f[1 .. n]
  BY <1>1 DEF FoldLeft, MapThenFoldSet, Joining
<1> HIDE DEF f
<1>4. r[0] = <<>>
  <2>1. 1 .. 0 = {} /\ 1 .. 0 \in SUBSET (1 .. n)
    OBVIOUS
  <2>2. f[1 .. 0] = <<>>
    BY <1>2, <2>1 DEF Joining
  <2>3. QED
    BY <1>1, <2>2
<1>5. ASSUME NEW k \in 1 .. n PROVE r[k] = Join(r[k - 1], seq[k])
  <2>1. 1 .. k \in SUBSET (1 .. n) /\ 1 .. k # {} /\ (1 .. k) \ {k} = 1 .. k - 1
    BY <1>1
  <2>2. Max(1 .. k) = k
    BY <1>1 DEF Max
  <2>3. f[1 .. k] = Join(f[1 .. k - 1], seq[k])
    BY <1>2, <2>1, <2>2 DEF Joining
  <2>4. k \in 0 .. n /\ k - 1 \in 0 .. n
    BY <1>1
  <2>5. r[k] = f[1 .. k] /\ r[k - 1] = f[1 .. k - 1]
    BY <2>4
  <2> HIDE DEF r
  <2>6. QED
    BY <2>3, <2>5
<1>6. r[n] = f[1 .. n]
  BY <1>1
<1> HIDE DEF r
<1>7. QED
  BY <1>3, <1>4, <1>5, <1>6 DEF n

\* FoldLeft's recursive function on sets of positions, for the loop over merged spans.
Walking(f, seq, n) ==
  f = [S \in SUBSET (1 .. n) |->
         IF S = {} THEN [cursor |-> 0, gaps |-> <<>>] ELSE Walk(f[S \ {Max(S)}], seq[Max(S)])]

\* The walk has one, too.
LEMMA WalkingExists ==
  ASSUME NEW seq, NEW n \in Nat
  PROVE  \E f : Walking(f, seq, n)
<1> DEFINE P == {k \in Nat : \E f : Walking(f, seq, k)}
<1>1. 0 \in P
  <2> DEFINE f == [S \in SUBSET (1 .. 0) |-> [cursor |-> 0, gaps |-> <<>>]]
  <2>1. f = [S \in SUBSET (1 .. 0) |->
               IF S = {} THEN [cursor |-> 0, gaps |-> <<>>] ELSE Walk(f[S \ {Max(S)}], seq[Max(S)])]
    OBVIOUS
  <2> HIDE DEF f
  <2>2. Walking(f, seq, 0)
    BY <2>1 DEF Walking
  <2>3. QED
    BY <2>2
<1>2. ASSUME NEW k \in P \cap Nat PROVE k + 1 \in P
  <2>1. PICK f : Walking(f, seq, k)
    OBVIOUS
  <2>0. k \in Nat
    OBVIOUS
  <2> DEFINE G(S) == IF k + 1 \in S THEN Walk(f[S \ {k + 1}], seq[k + 1]) ELSE f[S]
             g == [S \in SUBSET (1 .. k + 1) |-> G(S)]
  <2>2. ASSUME NEW S \in SUBSET (1 .. k + 1)
        PROVE  g[S] = IF S = {} THEN [cursor |-> 0, gaps |-> <<>>]
                      ELSE Walk(g[S \ {Max(S)}], seq[Max(S)])
    <3>1. CASE k + 1 \in S
      <4>1. Max(S) = k + 1
        <5>1. \A x \in S : (\A y \in S : x >= y) <=> x = k + 1
          BY <2>0, <3>1
        <5>2. QED
          BY <3>1, <5>1 DEF Max
      <4>2. S \ {k + 1} \in SUBSET (1 .. k + 1) /\ k + 1 \notin S \ {k + 1}
        OBVIOUS
      <4>3. g[S \ {k + 1}] = f[S \ {k + 1}]
        BY <4>2
      <4>4. g[S] = Walk(f[S \ {k + 1}], seq[k + 1])
        BY <3>1
      <4> HIDE DEF g
      <4>5. QED
        BY <3>1, <4>1, <4>3, <4>4
    <3>2. CASE k + 1 \notin S
      <4>1. S \in SUBSET (1 .. k)
        BY <2>0, <3>2
      <4>2. /\ S \ {Max(S)} \in SUBSET (1 .. k) /\ k + 1 \notin S \ {Max(S)}
            /\ S \ {Max(S)} \in SUBSET (1 .. k + 1)
        BY <3>2, <4>1
      <4>3. g[S] = f[S] /\ g[S \ {Max(S)}] = f[S \ {Max(S)}]
        BY <3>2, <4>2
      <4>4. f[S] = IF S = {} THEN [cursor |-> 0, gaps |-> <<>>] ELSE Walk(f[S \ {Max(S)}], seq[Max(S)])
        BY <2>1, <4>1 DEF Walking
      <4> HIDE DEF g
      <4>5. QED
        BY <4>3, <4>4
    <3>3. QED
      BY <3>1, <3>2
  <2>3. g = [S \in SUBSET (1 .. k + 1) |-> g[S]]
    OBVIOUS
  <2> HIDE DEF g
  <2>4. Walking(g, seq, k + 1)
    BY <2>2, <2>3 DEF Walking
  <2>5. QED
    BY <2>4
<1> HIDE DEF P
<1>3. Nat \subseteq P
  BY <1>1, <1>2, Induction
<1>4. QED
  BY <1>3 DEF P

\* What the loop over the merged spans holds after each of them.
LEMMA WalkingFolds ==
  ASSUME NEW S, NEW seq \in Seq(S)
  PROVE  \E r : /\ r[0] = [cursor |-> 0, gaps |-> <<>>]
                /\ \A k \in 1 .. Len(seq) : r[k] = Walk(r[k - 1], seq[k])
                /\ r[Len(seq)] = FoldLeft(Walk, [cursor |-> 0, gaps |-> <<>>], seq)
<1> DEFINE n == Len(seq)
           f == CHOOSE f : Walking(f, seq, n)
           r == [k \in 0 .. n |-> f[1 .. k]]
<1>1. n \in Nat /\ DOMAIN seq = 1 .. n
  OBVIOUS
<1> HIDE DEF n
<1>2. Walking(f, seq, n)
  BY <1>1, WalkingExists
<1>3. FoldLeft(Walk, [cursor |-> 0, gaps |-> <<>>], seq) = f[1 .. n]
  BY <1>1 DEF FoldLeft, MapThenFoldSet, Walking
<1> HIDE DEF f
<1>4. r[0] = [cursor |-> 0, gaps |-> <<>>]
  <2>1. 1 .. 0 = {} /\ 1 .. 0 \in SUBSET (1 .. n)
    OBVIOUS
  <2>2. f[1 .. 0] = [cursor |-> 0, gaps |-> <<>>]
    BY <1>2, <2>1 DEF Walking
  <2>3. QED
    BY <1>1, <2>2
<1>5. ASSUME NEW k \in 1 .. n PROVE r[k] = Walk(r[k - 1], seq[k])
  <2>1. 1 .. k \in SUBSET (1 .. n) /\ 1 .. k # {} /\ (1 .. k) \ {k} = 1 .. k - 1
    BY <1>1
  <2>2. Max(1 .. k) = k
    BY <1>1 DEF Max
  <2>3. f[1 .. k] = Walk(f[1 .. k - 1], seq[k])
    BY <1>2, <2>1, <2>2 DEF Walking
  <2>4. k \in 0 .. n /\ k - 1 \in 0 .. n
    BY <1>1
  <2>5. r[k] = f[1 .. k] /\ r[k - 1] = f[1 .. k - 1]
    BY <2>4
  <2> HIDE DEF r
  <2>6. QED
    BY <2>3, <2>5
<1>6. r[n] = f[1 .. n]
  BY <1>1
<1> HIDE DEF r
<1>7. QED
  BY <1>3, <1>4, <1>5, <1>6 DEF n
-----------------------------------------------------------------------------
(***************************************************************************)
(* Each turn of a loop: merging keeps the cells held, walking writes the   *)
(* cells left out (Certificate.merged, Certificate.gaps).                  *)
(***************************************************************************)
CellsIn(s) == s[1] + 1 .. s[2]
CellsAmong(seq, n) == UNION {CellsIn(seq[i]) : i \in 1 .. n}

\* A list of spans none of which meets the next, and all of which begin by then.
Apart(m) == \A i \in 1 .. Len(m) - 1 : m[i][2] < m[i + 1][1]

\* A span has two ends, in order.
LEMMA PairIs ==
  ASSUME NEW p \in Pairs
  PROVE  /\ p[1] \in Nat /\ p[2] \in Nat /\ p[1] < p[2] /\ p = <<p[1], p[2]>>
         /\ \A e \in Nat : [p EXCEPT ![2] = e] = <<p[1], e>>
  BY DEF Pairs

\* The cells of one more span.
LEMMA OneMore ==
  ASSUME NEW seq, NEW n \in Nat
  PROVE  /\ CellsAmong(seq, 0) = {}
         /\ CellsAmong(seq, n + 1) = CellsAmong(seq, n) \cup CellsIn(seq[n + 1])
<1>1. 1 .. 0 = {} /\ 1 .. n + 1 = 1 .. n \cup {n + 1}
  OBVIOUS
<1>2. QED
  BY <1>1, Zenon DEF CellsAmong

\* Joined and sorted spans hold the same cells.
Joins(m, seq, k) ==
  /\ m \in Seq(Pairs) /\ Apart(m)
  /\ CellsAmong(m, Len(m)) = CellsAmong(seq, k)
  /\ (k > 0 => Len(m) > 0 /\ m[Len(m)][1] <= seq[k][1])
  /\ (k = 0 => m = <<>>)

\* Spans with the same ends hold the same cells.
LEMMA SameCells ==
  ASSUME NEW a, NEW b, NEW n \in Nat, \A i \in 1 .. n : a[i] = b[i]
  PROVE  CellsAmong(a, n) = CellsAmong(b, n)
  BY DEF CellsAmong

\* One turn of merging: the span joins the last one or stands apart from it.
LEMMA JoinStep ==
  ASSUME NEW m \in Seq(Pairs), NEW seq \in Seq(Pairs), NEW k \in Nat, k + 1 <= Len(seq),
         Joins(m, seq, k), k > 0 => seq[k][1] <= seq[k + 1][1]
  PROVE  Joins(Join(m, seq[k + 1]), seq, k + 1)
<1> DEFINE s == seq[k + 1]
           n == Len(m)
           last == m[n]
<1>1. s \in Pairs /\ n \in Nat
  OBVIOUS
<1>2. s[1] \in Nat /\ s[2] \in Nat /\ s[1] < s[2]
  BY <1>1, PairIs
<1>3. CellsAmong(seq, k + 1) = CellsAmong(m, n) \cup CellsIn(s)
  BY OneMore DEF Joins
<1>4. m # <<>> => /\ n > 0 /\ last \in Pairs /\ last[1] <= s[1]
                  /\ \E b \in Nat : b = n - 1
  <2> SUFFICES ASSUME m # <<>> PROVE n > 0 /\ last \in Pairs /\ last[1] <= s[1] /\ \E b \in Nat : b = n - 1
    OBVIOUS
  <2>1. n > 0 /\ last \in Pairs /\ n - 1 \in Nat
    OBVIOUS
  <2>2. k > 0 /\ last[1] <= seq[k][1] /\ seq[k] \in Pairs
    BY DEF Joins
  <2>3. last[1] \in Nat /\ seq[k][1] \in Nat
    BY <2>1, <2>2, PairIs
  <2>4. seq[k][1] <= s[1]
    BY <2>2
  <2>5. QED
    BY <1>2, <2>1, <2>2, <2>3, <2>4
<1>5. Last(m) = last
  BY DEF Last
<1>6. CASE m # <<>> /\ s[1] <= last[2]
  <2>1. PICK c \in Nat : c = n - 1
    BY <1>4, <1>6
  <2>2. last[1] \in Nat /\ last[2] \in Nat /\ last[1] < last[2] /\ last[1] <= s[1]
    BY <1>4, <1>6, PairIs
  <2> DEFINE e == Larger(last[2], s[2])
             p == <<last[1], e>>
             j == [m EXCEPT ![n] = p]
  <2>3. e \in Nat /\ e >= last[2] /\ e >= s[2] /\ e \in {last[2], s[2]}
    BY <1>2, <2>2 DEF Larger
  <2> HIDE DEF e
  <2>4. p \in Pairs /\ p[1] = last[1] /\ p[2] = e
    <3>1. last[1] < e
      BY <2>2, <2>3
    <3>2. p \in Nat \X Nat /\ p[1] = last[1] /\ p[2] = e
      BY <2>2, <2>3
    <3>3. QED
      BY <3>1, <3>2 DEF Pairs
  <2>5. Join(m, s) = j
    <3>1. Join(m, s) = [m EXCEPT ![n] = [last EXCEPT ![2] = e]]
      BY <1>5, <1>6 DEF Join, e
    <3>2. [last EXCEPT ![2] = e] = p
      BY <1>4, <1>6, <2>3, PairIs
    <3>3. QED
      BY <3>1, <3>2
  <2> HIDE DEF p
  <2>6. /\ j \in Seq(Pairs) /\ Len(j) = n /\ j[n] = p
        /\ \A i \in 1 .. n : i # n => j[i] = m[i]
    BY <1>4, <1>6, <2>4
  <2> HIDE DEF j
  <2>7. Apart(j)
    <3> SUFFICES ASSUME NEW i \in 1 .. n - 1 PROVE j[i][2] < j[i + 1][1]
      BY <2>6 DEF Apart
    <3>1. m[i][2] < m[i + 1][1]
      BY DEF Joins, Apart
    <3>2. i \in 1 .. n /\ i # n /\ i + 1 \in 1 .. n
      BY <1>1
    <3>3. j[i] = m[i] /\ j[i + 1][1] = m[i + 1][1]
      BY <2>4, <2>6, <3>2
    <3>4. QED
      BY <3>1, <3>3
  <2>8. CellsIn(p) = CellsIn(last) \cup CellsIn(s)
    <3>1. p[1] + 1 .. p[2] = (last[1] + 1 .. last[2]) \cup (s[1] + 1 .. s[2])
      <4>1. PICK a \in Nat, b \in Nat, c1 \in Nat, d \in Nat :
              a = last[1] /\ b = last[2] /\ c1 = s[1] /\ d = s[2]
        BY <1>2, <2>2
      <4>2. a <= c1 /\ c1 <= b /\ c1 < d /\ a < b /\ e \in Nat /\ e >= b /\ e >= d
            /\ (e = b \/ e = d)
        BY <1>2, <1>6, <2>2, <2>3, <4>1
      <4>3. a + 1 .. e = (a + 1 .. b) \cup (c1 + 1 .. d)
        BY <4>2
      <4>4. QED
        BY <2>4, <4>1, <4>3
    <3>2. QED
      BY <3>1 DEF CellsIn
  <2>9. c + 1 = n /\ \A i \in 1 .. c : i \in 1 .. n /\ i # n
    BY <1>1, <2>1
  <2>10. CellsAmong(j, c) = CellsAmong(m, c)
    BY <2>6, <2>9, SameCells
  <2>11. /\ CellsAmong(j, n) = CellsAmong(j, c) \cup CellsIn(p)
         /\ CellsAmong(m, n) = CellsAmong(m, c) \cup CellsIn(last)
    BY <2>6, <2>9, OneMore
  <2>12. CellsAmong(j, n) = CellsAmong(seq, k + 1)
    BY <1>3, <2>8, <2>10, <2>11
  <2>13. j[n][1] <= s[1] /\ n > 0
    BY <1>4, <1>6, <2>2, <2>4, <2>6
  <2>14. QED
    BY <2>5, <2>6, <2>7, <2>12, <2>13 DEF Joins
<1>7. CASE ~(m # <<>> /\ s[1] <= last[2])
  <2> DEFINE j == Append(m, s)
  <2>1. Join(m, s) = j
    BY <1>5, <1>7 DEF Join
  <2>2. /\ j \in Seq(Pairs) /\ Len(j) = n + 1 /\ j[n + 1] = s
        /\ \A i \in 1 .. n : j[i] = m[i]
    BY <1>1
  <2> HIDE DEF j
  <2>3. Apart(j)
    <3> SUFFICES ASSUME NEW i \in 1 .. n PROVE j[i][2] < j[i + 1][1]
      BY <2>2 DEF Apart
    <3>1. CASE i = n
      <4>1. m # <<>> /\ last[2] \in Nat
        BY <3>1, <1>4, PairIs
      <4>2. j[i] = last /\ j[i + 1] = s
        BY <2>2, <3>1
      <4>3. QED
        BY <1>2, <1>7, <4>1, <4>2
    <3>2. CASE i # n
      <4>1. i \in 1 .. Len(m) - 1 /\ i + 1 \in 1 .. n
        BY <1>1, <3>2
      <4>2. m[i][2] < m[i + 1][1]
        BY <4>1 DEF Joins, Apart
      <4>3. QED
        BY <2>2, <4>1, <4>2
    <3>3. QED
      BY <3>1, <3>2
  <2>4. CellsAmong(j, n + 1) = CellsAmong(seq, k + 1)
    <3>1. CellsAmong(j, n) = CellsAmong(m, n)
      BY <1>1, <2>2, SameCells
    <3>2. CellsAmong(j, n + 1) = CellsAmong(j, n) \cup CellsIn(s)
      BY <1>1, <2>2, OneMore
    <3>3. QED
      BY <1>3, <3>1, <3>2
  <2>5. n + 1 > 0 /\ j[n + 1][1] <= s[1]
    BY <1>1, <1>2, <2>2
  <2>6. QED
    BY <2>1, <2>2, <2>3, <2>4, <2>5 DEF Joins
<1>8. QED
  BY <1>6, <1>7

\* Merging joins the spans of a set and keeps their cells.
LEMMA MergedSpans ==
  ASSUME NEW S \in SUBSET Pairs, IsFiniteSet(S)
  PROVE  /\ Merged(S) \in Seq(Pairs) /\ Apart(Merged(S))
         /\ CellsAmong(Merged(S), Len(Merged(S))) = CellsOf(S)
<1> DEFINE seq == InOrder(S)
           n == Len(seq)
<1>1. /\ seq \in Seq(Pairs) /\ n \in Nat /\ {seq[i] : i \in 1 .. n} = S
      /\ \A i, j \in 1 .. n : i < j => seq[i][1] <= seq[j][1]
  BY InOrderSorts
<1> HIDE DEF seq
<1>2. PICK r : /\ r[0] = <<>> /\ \A k \in 1 .. n : r[k] = Join(r[k - 1], seq[k])
               /\ r[n] = FoldLeft(Join, <<>>, seq)
  BY <1>1, JoiningFolds
<1> DEFINE P == {k \in Nat : k <= n => Joins(r[k], seq, k)}
<1>3. 0 \in P
  <2>1. CellsAmong(seq, 0) = {} /\ CellsAmong(<<>>, 0) = {}
    BY OneMore
  <2>2. <<>> \in Seq(Pairs) /\ Len(<<>>) = 0 /\ Apart(<<>>)
    BY DEF Apart
  <2>3. CellsAmong(<<>>, Len(<<>>)) = CellsAmong(seq, 0)
    BY <2>1, <2>2
  <2> DEFINE e == <<>>
  <2>5. e \in Seq(Pairs) /\ Apart(e) /\ CellsAmong(e, Len(e)) = CellsAmong(seq, 0)
    BY <2>2, <2>3
  <2>6. e = <<>> /\ ~(0 > 0)
    OBVIOUS
  <2> HIDE DEF e
  <2>7. Joins(e, seq, 0)
    BY <2>5, <2>6, Zenon DEF Joins
  <2>4. Joins(<<>>, seq, 0)
    BY <2>6, <2>7
  <2>8. QED
    BY <1>2, <2>4
<1>4. ASSUME NEW k \in P \cap Nat PROVE k + 1 \in P
  <2> SUFFICES ASSUME k + 1 <= n PROVE Joins(r[k + 1], seq, k + 1)
    OBVIOUS
  <2>1. k \in Nat /\ Joins(r[k], seq, k)
    BY <1>1
  <2> HIDE DEF P
  <2>2. k > 0 => seq[k][1] <= seq[k + 1][1]
    BY <1>1, <2>1
  <2>3. r[k] \in Seq(Pairs)
    BY <2>1 DEF Joins
  <2>4. Joins(Join(r[k], seq[k + 1]), seq, k + 1)
    BY <1>1, <2>1, <2>2, <2>3, JoinStep
  <2>5. k + 1 \in 1 .. n /\ (k + 1) - 1 = k
    BY <1>1, <2>1
  <2>6. r[k + 1] = Join(r[k], seq[k + 1])
    BY <1>2, <2>5
  <2>7. QED
    BY <2>4, <2>6
<1> HIDE DEF P
<1>5. Nat \subseteq P
  BY <1>3, <1>4, Induction
<1>6. Joins(Merged(S), seq, n)
  <2>1. n <= n
    BY <1>1
  <2>2. Joins(r[n], seq, n)
    BY <1>1, <1>5, <2>1 DEF P
  <2>3. QED
    BY <1>2, <2>2 DEF Merged, seq
<1>7. CellsAmong(seq, n) = CellsOf(S)
  <2>1. CellsAmong(seq, n) = UNION {CellsIn(s) : s \in {seq[i] : i \in 1 .. n}}
    BY DEF CellsAmong
  <2>2. QED
    BY <1>1, <2>1 DEF CellsOf, CellsIn
<1>8. QED
  BY <1>6, <1>7 DEF Joins

\* The gaps so far are what is left of the text up to the cursor.
Walks(w, m, k) ==
  /\ w.gaps \in Seq(Pairs) /\ w.cursor \in Nat
  /\ w.cursor = IF k = 0 THEN 0 ELSE m[k][2]
  /\ CellsAmong(m, k) \subseteq 1 .. w.cursor
  /\ CellsAmong(w.gaps, Len(w.gaps)) = (1 .. w.cursor) \ CellsAmong(m, k)

\* One more gap, after the ones before.
LEMMA GapAppended ==
  ASSUME NEW g \in Seq(Pairs), NEW a \in Nat, NEW b \in Nat, a < b
  PROVE  LET h == Append(g, <<a, b>>)
         IN  /\ h \in Seq(Pairs)
             /\ CellsAmong(h, Len(h)) = CellsAmong(g, Len(g)) \cup (a + 1 .. b)
<1> DEFINE p == <<a, b>>
           h == Append(g, p)
           n == Len(g)
<1>1. p \in Pairs /\ p[1] = a /\ p[2] = b
  <2>1. p \in Nat \X Nat /\ p[1] = a /\ p[2] = b
    OBVIOUS
  <2>2. QED
    BY <2>1 DEF Pairs
<1> HIDE DEF p
<1>2. n \in Nat /\ h \in Seq(Pairs) /\ Len(h) = n + 1 /\ h[n + 1] = p
      /\ \A i \in 1 .. n : h[i] = g[i]
  BY <1>1
<1> HIDE DEF h
<1>3. CellsAmong(h, n) = CellsAmong(g, n)
  BY <1>2, SameCells
<1>4. CellsAmong(h, n + 1) = CellsAmong(h, n) \cup CellsIn(p)
  BY <1>2, OneMore
<1>5. CellsIn(p) = a + 1 .. b
  BY <1>1 DEF CellsIn
<1>6. QED
  BY <1>2, <1>3, <1>4, <1>5 DEF h, p

\* One turn of the walk: a gap is written where the next span leaves one.
LEMMA WalkStep ==
  ASSUME NEW m \in Seq(Pairs), Apart(m), NEW k \in Nat, k + 1 <= Len(m),
         NEW w, Walks(w, m, k)
  PROVE  Walks(Walk(w, m[k + 1]), m, k + 1)
<1> DEFINE s == m[k + 1]
           c == w.cursor
           v == Walk(w, s)
<1>1. s \in Pairs
  OBVIOUS
<1>2. PICK a \in Nat, b \in Nat : a = s[1] /\ b = s[2] /\ a < b
  BY <1>1, PairIs
<1>3. c \in Nat /\ (k > 0 => c < a) /\ (k = 0 => c = 0)
  <2>1. CASE k = 0
    BY <2>1 DEF Walks
  <2>2. CASE k > 0
    <3>1. k \in 1 .. Len(m) - 1
      BY <2>2
    <3>2. m[k][2] < m[k + 1][1]
      BY <3>1 DEF Apart
    <3>3. QED
      BY <1>2, <2>2, <3>2 DEF Walks
  <2>3. QED
    BY <2>1, <2>2
<1>4. v.cursor = b /\ v.gaps = (IF a > c THEN Append(w.gaps, <<c, a>>) ELSE w.gaps)
  BY <1>2, <1>3 DEF Walk, Larger
<1>5. CellsAmong(m, k + 1) = CellsAmong(m, k) \cup (a + 1 .. b)
  BY <1>2, OneMore DEF CellsIn
<1>6. /\ v.gaps \in Seq(Pairs)
      /\ CellsAmong(v.gaps, Len(v.gaps)) = CellsAmong(w.gaps, Len(w.gaps)) \cup (c + 1 .. a)
  <2>1. CASE a > c
    <3> DEFINE h == Append(w.gaps, <<c, a>>)
    <3>1. w.gaps \in Seq(Pairs) /\ c < a
      BY <1>3, <2>1 DEF Walks
    <3>2. h \in Seq(Pairs) /\ CellsAmong(h, Len(h)) = CellsAmong(w.gaps, Len(w.gaps)) \cup (c + 1 .. a)
      <4>1. c \in Nat /\ a \in Nat
        BY <1>2, <1>3
      <4> HIDE DEF v, c
      <4>2. QED
        BY <3>1, <4>1, GapAppended
    <3>3. v.gaps = h
      BY <1>4, <2>1
    <3> HIDE DEF h, v
    <3>4. QED
      BY <3>2, <3>3
  <2>2. CASE ~(a > c)
    <3>1. c + 1 .. a = {}
      BY <1>3, <2>2
    <3>2. QED
      BY <1>4, <2>2, <3>1 DEF Walks
  <2>3. QED
    BY <2>1, <2>2
<1> HIDE DEF v
<1>7. c <= a
  BY <1>2, <1>3
<1> DEFINE C == CellsAmong(m, k)
<1>8. C \subseteq 1 .. c /\ CellsAmong(w.gaps, Len(w.gaps)) = (1 .. c) \ C
  BY DEF Walks
<1> HIDE DEF C
<1>9. C \cup (a + 1 .. b) \subseteq 1 .. b
  <2>1. 1 .. c \subseteq 1 .. b /\ a + 1 .. b \subseteq 1 .. b
    BY <1>2, <1>3, <1>7
  <2>2. QED
    BY <1>8, <2>1
<1>10. ((1 .. c) \ C) \cup (c + 1 .. a) = (1 .. b) \ (C \cup (a + 1 .. b))
  BY <1>2, <1>3, <1>7, <1>8
<1>11. v.cursor = IF k + 1 = 0 THEN 0 ELSE m[k + 1][2]
  BY <1>2, <1>4
<1>12. QED
  BY <1>2, <1>4, <1>5, <1>6, <1>8, <1>9, <1>10, <1>11 DEF Walks, v, C

\* Certificate.gaps: the cells of a text that no span holds.
LEMMA GapsAre ==
  ASSUME NEW S \in SUBSET Pairs, IsFiniteSet(S), NEW size \in Nat,
         \A s \in S : s[2] <= size
  PROVE  CellsOf(ToSet(Gaps(S, size))) = (1 .. size) \ CellsOf(S)
<1> DEFINE m == Merged(S)
           n == Len(m)
           base == [cursor |-> 0, gaps |-> <<>>]
           end == FoldLeft(Walk, base, m)
<1>1. m \in Seq(Pairs) /\ n \in Nat /\ Apart(m) /\ CellsAmong(m, n) = CellsOf(S)
  BY MergedSpans
<1> HIDE DEF m
<1>2. PICK r : /\ r[0] = base /\ \A k \in 1 .. n : r[k] = Walk(r[k - 1], m[k])
               /\ r[n] = end
  BY <1>1, WalkingFolds
<1> HIDE DEF end
<1> DEFINE P == {k \in Nat : k <= n => Walks(r[k], m, k)}
<1>3. 0 \in P
  <2>1. CellsAmong(m, 0) = {} /\ CellsAmong(<<>>, 0) = {} /\ Len(<<>>) = 0
    BY OneMore
  <2>2. Walks(base, m, 0)
    BY <2>1 DEF Walks
  <2>3. QED
    BY <1>2, <2>2
<1>4. ASSUME NEW k \in P \cap Nat PROVE k + 1 \in P
  <2> SUFFICES ASSUME k + 1 <= n PROVE Walks(r[k + 1], m, k + 1)
    OBVIOUS
  <2>1. k \in Nat /\ Walks(r[k], m, k)
    BY <1>1
  <2> HIDE DEF P
  <2>2. Walks(Walk(r[k], m[k + 1]), m, k + 1)
    BY <1>1, <2>1, WalkStep
  <2>3. k + 1 \in 1 .. n /\ (k + 1) - 1 = k
    BY <1>1, <2>1
  <2>4. r[k + 1] = Walk(r[k], m[k + 1])
    BY <1>2, <2>3
  <2>5. QED
    BY <2>2, <2>4
<1> HIDE DEF P
<1>5. Nat \subseteq P
  BY <1>3, <1>4, Induction
<1>6. Walks(end, m, n)
  <2>1. n <= n
    BY <1>1
  <2>2. QED
    BY <1>1, <1>2, <1>5, <2>1 DEF P
<1> DEFINE c == end.cursor
           g == Gaps(S, size)
<1>7. c \in Nat /\ c <= size
  <2>1. CASE n = 0
    BY <1>6, <2>1 DEF Walks
  <2>2. CASE n # 0
    <3>1. m[n] \in Pairs /\ n \in 1 .. n /\ c = m[n][2]
      BY <1>1, <1>6, <2>2 DEF Walks
    <3>2. c \in CellsIn(m[n]) /\ c \in Nat
      BY <3>1, PairIs DEF CellsIn
    <3>3. c \in CellsOf(S)
      BY <1>1, <3>1, <3>2 DEF CellsAmong
    <3>4. PICK s \in S : c \in s[1] + 1 .. s[2]
      BY <3>3 DEF CellsOf
    <3>5. QED
      BY <3>2, <3>4 DEF Pairs
  <2>3. QED
    BY <2>1, <2>2
<1>8. g = IF c < size THEN Append(end.gaps, <<c, size>>) ELSE end.gaps
  BY DEF Gaps, end, m
<1>9. /\ g \in Seq(Pairs)
      /\ CellsAmong(g, Len(g)) = CellsAmong(end.gaps, Len(end.gaps)) \cup (c + 1 .. size)
  <2>1. CASE c < size
    BY <1>6, <1>7, <1>8, <2>1, GapAppended DEF Walks
  <2>2. CASE ~(c < size)
    <3>1. c + 1 .. size = {}
      BY <1>7, <2>2
    <3>2. QED
      BY <1>6, <1>8, <2>2, <3>1 DEF Walks
  <2>3. QED
    BY <2>1, <2>2
<1> DEFINE C == CellsOf(S)
<1>10. C \subseteq 1 .. c /\ CellsAmong(end.gaps, Len(end.gaps)) = (1 .. c) \ C
  BY <1>1, <1>6 DEF Walks
<1> HIDE DEF C, g
<1>11. ((1 .. c) \ C) \cup (c + 1 .. size) = (1 .. size) \ C
  BY <1>7, <1>10
<1>12. CellsOf(ToSet(g)) = CellsAmong(g, Len(g))
  <2>1. ToSet(g) = {g[i] : i \in 1 .. Len(g)}
    BY <1>9 DEF ToSet
  <2>2. QED
    BY <2>1 DEF CellsOf, CellsAmong, CellsIn
<1>13. QED
  BY <1>9, <1>10, <1>11, <1>12 DEF C, g
-----------------------------------------------------------------------------
(***************************************************************************)
(* The characters of a set of cells: more cells never weigh less.          *)
(***************************************************************************)
\* Induction over the subsets of a finite set, by taking one element away.
LEMMA SubsetInduction ==
  ASSUME NEW D, IsFiniteSet(D), NEW P,
         \A S \in SUBSET D : (\A x \in S : S \ {x} \in P) => S \in P
  PROVE  SUBSET D \subseteq P
<1> DEFINE Q == {k \in Nat : \A S \in SUBSET D : Cardinality(S) = k => S \in P}
<1>1. \A S \in SUBSET D : IsFiniteSet(S) /\ Cardinality(S) \in Nat
  BY FS_Subset, FS_CardinalityType
<1>2. 0 \in Q
  <2> SUFFICES ASSUME NEW S \in SUBSET D, Cardinality(S) = 0 PROVE S \in P
    OBVIOUS
  <2>1. S = {}
    BY <1>1, FS_EmptySet
  <2>2. QED
    BY <2>1
<1>3. ASSUME NEW k \in Q \cap Nat PROVE k + 1 \in Q
  <2> SUFFICES ASSUME NEW S \in SUBSET D, Cardinality(S) = k + 1 PROVE S \in P
    OBVIOUS
  <2>1. ASSUME NEW x \in S PROVE S \ {x} \in P
    <3>0. k \in Nat /\ (k + 1) - 1 = k
      OBVIOUS
    <3>1. Cardinality(S \ {x}) = k
      <4> HIDE DEF Q
      <4>1. Cardinality(S \ {x}) = IF x \in S THEN Cardinality(S) - 1 ELSE Cardinality(S)
        BY <1>1, FS_RemoveElement
      <4>2. QED
        BY <3>0, <4>1
    <3>2. S \ {x} \in SUBSET D
      OBVIOUS
    <3>3. QED
      BY <3>1, <3>2
  <2>2. QED
    BY <2>1
<1> HIDE DEF Q
<1>4. Nat \subseteq Q
  BY <1>2, <1>3, Induction
<1>5. QED
  BY <1>1, <1>4 DEF Q

\* The sums over the subsets of cells, as MapThenSumSet computes them.
Weight(text, i) == Width[text[i]]
Chosen(S) == CHOOSE x \in S : TRUE
PlusRest(f, text, S) ==
  IF S = {} THEN 0 ELSE Weight(text, Chosen(S)) + f[S \ {Chosen(S)}]
Summing(f, text, T) == f = [S \in T |-> PlusRest(f, text, S)]
UpToSize(D, k) == {S \in SUBSET D : Cardinality(S) <= k}

\* The sum over the subsets of a finite set is a function.
LEMMA SummingExists ==
  ASSUME NEW text, NEW D, IsFiniteSet(D)
  PROVE  \E f : Summing(f, text, SUBSET D)
<1> DEFINE P == {k \in Nat : \E f : Summing(f, text, UpToSize(D, k))}
<1>1. \A S \in SUBSET D : IsFiniteSet(S) /\ Cardinality(S) \in Nat
  BY FS_Subset, FS_CardinalityType
<1>2. 0 \in P
  <2> DEFINE f == [S \in UpToSize(D, 0) |-> 0]
  <2>1. \A S \in UpToSize(D, 0) : S = {}
    BY <1>1, FS_EmptySet DEF UpToSize
  <2>2. Summing(f, text, UpToSize(D, 0))
    BY <2>1 DEF Summing, PlusRest
  <2>3. QED
    BY <2>2
<1>3. ASSUME NEW k \in P \cap Nat PROVE k + 1 \in P
  <2>0. k \in Nat
    OBVIOUS
  <2>1. PICK f : Summing(f, text, UpToSize(D, k))
    OBVIOUS
  <2> DEFINE G(S) == IF Cardinality(S) <= k THEN f[S]
                     ELSE Weight(text, Chosen(S)) + f[S \ {Chosen(S)}]
             g == [S \in UpToSize(D, k + 1) |-> G(S)]
  <2>2. ASSUME NEW S \in UpToSize(D, k + 1), S # {}
        PROVE  /\ S \ {Chosen(S)} \in UpToSize(D, k) /\ S \ {Chosen(S)} \in UpToSize(D, k + 1)
               /\ Cardinality(S \ {Chosen(S)}) <= k
    <3>1. S \in SUBSET D /\ Cardinality(S) <= k + 1
      BY DEF UpToSize
    <3>2. Chosen(S) \in S
      BY <2>2 DEF Chosen
    <3> DEFINE x == Chosen(S)
    <3> HIDE DEF x
    <3>3. x \in S
      BY <3>2 DEF x
    <3>4. Cardinality(S \ {x}) = IF x \in S THEN Cardinality(S) - 1 ELSE Cardinality(S)
      BY <1>1, <3>1, FS_RemoveElement
    <3>5. Cardinality(S \ {x}) <= k
      BY <1>1, <2>0, <3>1, <3>3, <3>4
    <3>6. Cardinality(S \ {x}) <= k + 1 /\ S \ {x} \in SUBSET D
      BY <1>1, <2>0, <3>1, <3>5
    <3>7. QED
      BY <3>5, <3>6 DEF UpToSize, x
  <2>3. ASSUME NEW S \in UpToSize(D, k + 1)
        PROVE  g[S] = IF S = {} THEN 0 ELSE Weight(text, Chosen(S)) + g[S \ {Chosen(S)}]
    <3>1. g[S] = G(S)
      OBVIOUS
    <3>2. S # {} => g[S \ {Chosen(S)}] = f[S \ {Chosen(S)}]
      BY <2>2
    <3>3. CASE Cardinality(S) <= k
      <4>1. S \in UpToSize(D, k)
        BY <3>3 DEF UpToSize
      <4>2. f[S] = IF S = {} THEN 0 ELSE Weight(text, Chosen(S)) + f[S \ {Chosen(S)}]
        BY <2>1, <4>1 DEF Summing, PlusRest
      <4> HIDE DEF g
      <4>3. QED
        BY <3>1, <3>2, <3>3, <4>2
    <3>4. CASE ~(Cardinality(S) <= k)
      <4>1. S # {}
        BY <2>0, <3>4, FS_EmptySet
      <4> HIDE DEF g
      <4>2. QED
        BY <3>1, <3>2, <3>4, <4>1
    <3>5. QED
      BY <3>3, <3>4
  <2>4. g = [S \in UpToSize(D, k + 1) |-> g[S]]
    OBVIOUS
  <2> HIDE DEF g
  <2>5. Summing(g, text, UpToSize(D, k + 1))
    BY <2>3, <2>4 DEF Summing, PlusRest
  <2>6. QED
    BY <2>5
<1> HIDE DEF P
<1>4. Nat \subseteq P
  BY <1>2, <1>3, Induction
<1>5. Cardinality(D) \in P
  BY <1>1, <1>4
<1>6. UpToSize(D, Cardinality(D)) = SUBSET D
  <2>1. \A S \in SUBSET D : Cardinality(S) <= Cardinality(D)
    BY FS_Subset
  <2>2. QED
    BY <2>1 DEF UpToSize
<1>7. QED
  BY <1>5, <1>6 DEF P

\* It is the sum of its element and the rest.
LEMMA SummingIs ==
  ASSUME NEW text, NEW D, NEW f, Summing(f, text, SUBSET D)
  PROVE  \A S \in SUBSET D : f[S] = PlusRest(f, text, S)
  BY DEF Summing

\* And it is the only such function.
LEMMA SummingUnique ==
  ASSUME NEW text, NEW D, NEW f, NEW g, NEW S \in SUBSET D, IsFiniteSet(S),
         Summing(f, text, SUBSET S), Summing(g, text, SUBSET D)
  PROVE  f[S] = g[S]
<1> DEFINE P == {T \in SUBSET S : f[T] = g[T]}
<1>1. ASSUME NEW T \in SUBSET S, \A x \in T : T \ {x} \in P PROVE T \in P
  <2> DEFINE x == Chosen(T)
  <2>1. /\ f[T] = IF T = {} THEN 0 ELSE Weight(text, x) + f[T \ {x}]
        /\ g[T] = IF T = {} THEN 0 ELSE Weight(text, x) + g[T \ {x}]
    <3>1. T \in SUBSET D
      OBVIOUS
    <3> HIDE DEF P
    <3>2. f[T] = IF T = {} THEN 0 ELSE Weight(text, x) + f[T \ {x}]
      <4>1. f[T] = PlusRest(f, text, T)
        BY SummingIs
      <4>2. QED
        BY <4>1 DEF PlusRest
    <3>3. g[T] = IF T = {} THEN 0 ELSE Weight(text, x) + g[T \ {x}]
      <4>1. g[T] = PlusRest(g, text, T)
        BY <3>1, SummingIs
      <4>2. QED
        BY <4>1 DEF PlusRest
    <3>4. QED
      BY <3>2, <3>3
  <2>2. T # {} => x \in T
    BY DEF Chosen
  <2> HIDE DEF x
  <2>3. T # {} => f[T \ {x}] = g[T \ {x}]
    BY <1>1, <2>2
  <2>4. QED
    BY <2>1, <2>3
<1> HIDE DEF P
<1>2. SUBSET S \subseteq P
  BY <1>1, SubsetInduction
<1>3. QED
  BY <1>2 DEF P

\* Chars is one such sum, whatever larger set of cells it is read off.
LEMMA CharsAre ==
  ASSUME NEW text, NEW D, IsFiniteSet(D), NEW g, Summing(g, text, SUBSET D),
         NEW S \in SUBSET D
  PROVE  Chars(text, S) = g[S]
<1> DEFINE f == CHOOSE f : Summing(f, text, SUBSET S)
<1>1. IsFiniteSet(S)
  BY FS_Subset
<1>2. Summing(f, text, SUBSET S)
  BY <1>1, SummingExists
<1>3. Chars(text, S) = f[S]
  BY SMT DEF Chars, MapThenSumSet, MapThenFoldSet, Summing, PlusRest, Weight, Chosen
<1> HIDE DEF f
<1>4. QED
  BY <1>1, <1>2, <1>3, SummingUnique

\* A part of the cells of a text has no more characters.
LEMMA CharsGrow ==
  ASSUME NEW text, NEW D, IsFiniteSet(D), \A i \in D : Weight(text, i) \in Nat,
         NEW B \in SUBSET D, NEW A \in SUBSET B
  PROVE  Chars(text, A) \in Nat /\ Chars(text, B) \in Nat /\ Chars(text, A) <= Chars(text, B)
<1>1. PICK g : Summing(g, text, SUBSET D)
  BY SummingExists
<1> DEFINE N == {S \in SUBSET D : g[S] \in Nat}
<1>10. ASSUME NEW S \in SUBSET D, \A x \in S : S \ {x} \in N PROVE S \in N
  <2> DEFINE x == Chosen(S)
  <2>1. g[S] = IF S = {} THEN 0 ELSE Weight(text, x) + g[S \ {x}]
    <3>1. g[S] = PlusRest(g, text, S)
      BY <1>1, SummingIs
    <3>2. QED
      BY <3>1 DEF PlusRest
  <2>2. S # {} => x \in S
    BY DEF Chosen
  <2> HIDE DEF x
  <2>3. S # {} => g[S \ {x}] \in Nat /\ Weight(text, x) \in Nat
    BY <1>10, <2>2
  <2>4. QED
    BY <2>1, <2>3
<1> HIDE DEF N
<1>11. SUBSET D \subseteq N
  BY <1>10, SubsetInduction
<1>12. \A S \in SUBSET D : g[S] \in Nat
  BY <1>11 DEF N
<1> DEFINE P == {S \in SUBSET D : \A y \in S : g[S] = Weight(text, y) + g[S \ {y}]}
<1>2. ASSUME NEW S \in SUBSET D, \A x \in S : S \ {x} \in P PROVE S \in P
  <2> DEFINE x == Chosen(S)
  <2>1. g[S] = IF S = {} THEN 0 ELSE Weight(text, x) + g[S \ {x}]
    <3>1. g[S] = PlusRest(g, text, S)
      BY <1>1, SummingIs
    <3>2. QED
      BY <3>1 DEF PlusRest
  <2>2. S # {} => x \in S
    BY DEF Chosen
  <2> HIDE DEF x
  <2>3. CASE S = {}
    BY <2>1, <2>3
  <2>4. CASE S # {}
    <3>1. x \in S /\ g[S] = Weight(text, x) + g[S \ {x}] /\ Weight(text, x) \in Nat
      BY <2>1, <2>2, <2>4
    <3>2. ASSUME NEW y \in S PROVE g[S] = Weight(text, y) + g[S \ {y}]
      <4>1. CASE y = x
        BY <3>1, <4>1
      <4>2. CASE y # x
        <5>1. S \ {x} \in P /\ S \ {y} \in P /\ y \in S \ {x} /\ x \in S \ {y}
          BY <1>2, <3>1, <4>2
        <5> DEFINE r == (S \ {x}) \ {y}
        <5>2. r = (S \ {y}) \ {x} /\ r \in SUBSET D /\ g[r] \in Nat
          BY <1>12
        <5>3. g[S \ {x}] = Weight(text, y) + g[r]
          BY <5>1
        <5>4. g[S \ {y}] = Weight(text, x) + g[r]
          BY <5>1, <5>2
        <5>5. Weight(text, y) \in Nat
          OBVIOUS
        <5> HIDE DEF r, P
        <5>6. QED
          BY <3>1, <5>2, <5>3, <5>4, <5>5
      <4>3. QED
        BY <4>1, <4>2
    <3>3. QED
      BY <3>2
  <2>5. QED
    BY <2>3, <2>4
<1> HIDE DEF P
<1>3. SUBSET D \subseteq P
  BY <1>2, SubsetInduction
<1> DEFINE Q == {S \in SUBSET D : A \subseteq S => g[A] <= g[S]}
<1>4. A \in SUBSET D /\ \A S \in SUBSET D : g[S] \in Nat
  BY <1>12
<1>5. ASSUME NEW S \in SUBSET D, \A x \in S : S \ {x} \in Q PROVE S \in Q
  <2> SUFFICES ASSUME A \subseteq S PROVE g[A] <= g[S]
    OBVIOUS
  <2>1. CASE A = S
    BY <1>4, <2>1
  <2>2. CASE A # S
    <3>1. PICK y \in S : y \notin A
      BY <2>2
    <3>2. g[A] <= g[S \ {y}]
      BY <1>5, <3>1
    <3>3. g[S] = Weight(text, y) + g[S \ {y}]
      BY <1>3, <3>1 DEF P
    <3>4. g[A] \in Nat /\ g[S \ {y}] \in Nat /\ Weight(text, y) \in Nat
      BY <1>4, <3>1
    <3>5. QED
      BY <3>2, <3>3, <3>4
  <2>3. QED
    BY <2>1, <2>2
<1> HIDE DEF Q
<1>6. SUBSET D \subseteq Q
  BY <1>5, SubsetInduction
<1>7. g[A] <= g[B]
  BY <1>6 DEF Q
<1>8. Chars(text, A) = g[A] /\ Chars(text, B) = g[B]
  BY <1>1, <1>4, CharsAre
<1>9. QED
  BY <1>4, <1>7, <1>8
-----------------------------------------------------------------------------
(***************************************************************************)
(* What types and the verdict need besides: a caller waits for its child,  *)
(* a sweep of the context is one of the node's whole text, the history and *)
(* the trace fit the texts they are about, and a verdict that was reached  *)
(* is the one that the trace and the root's sweeps still give.             *)
(***************************************************************************)
NodeFits(n) ==
  \A i \in 1 .. Len(n.sweeps) :
    n.sweeps[i].scope = "context" =>
      n.sweeps[i].total = Len(n.text) /\ n.sweeps[i].valid \subseteq 1 .. Len(n.text)

Stacked(s) ==
  /\ \A d \in 1 .. Len(s) : NodeFits(s[d])
  /\ \A d \in 1 .. Len(s) - 1 : s[d].call # "none"
  /\ s[1].text = context

Bounded == Len(stack) <= MaxDepth + 1 /\ nodes \in Nat /\ Len(stack) <= nodes /\ nodes <= MaxNodes

HistoryFits ==
  /\ \A e \in trace : e.of \in Texts /\ e.span \in Spans(e.of)
  /\ \A r \in returned : r.of \in Texts /\ r.span \in Spans(r.of)

Records == [status : {"none", "error", "ok", "empty", "budget"}, usable : BOOLEAN,
            swept : BOOLEAN]
Statuses == {"running", "failed", "partial", "unverified", "complete"}

Judged ==
  /\ result.status \in Statuses /\ result.strategy \in Strategies
  /\ result.satisfied \in {"none", "true", "false"}
  /\ ~Running =>
       /\ Len(stack) = 1
       /\ result.strategy = "recursive" /\ Delegated # {} =>
            result.gaps = ToSet(Gaps(Delegated, Len(context)))
       /\ result.status = "complete" /\ result.strategy \in Exhaustive \cup {"recursive"} =>
            Satisfied(result.strategy, Top) = "true"

KInv ==
  /\ context \in Contexts /\ Stacked(stack) /\ Bounded /\ HistoryFits
  /\ record \in Records /\ Judged
-----------------------------------------------------------------------------
\* Replacing the last node, or the last two by the caller, keeps the rest.
LEMMA UpdateStacked ==
  ASSUME stack \in Seq(Nodes), Len(stack) > 0, Stacked(stack),
         NEW m \in Nodes, m.text = Top.text, NodeFits(m)
  PROVE  LET t == [stack EXCEPT ![Len(stack)] = m]
         IN  Len(t) = Len(stack) /\ Stacked(t)
<1> DEFINE t == [stack EXCEPT ![Len(stack)] = m]
           n == Len(stack)
<1>1. n \in Nat /\ n > 0 /\ Len(t) = n
  OBVIOUS
<1>2. t[n] = m /\ \A d \in 1 .. n : d # n => t[d] = stack[d]
  <2>1. DOMAIN stack = 1 .. n /\ n \in 1 .. n
    BY <1>1
  <2> HIDE DEF n
  <2>2. QED
    BY <2>1
<1> HIDE DEF t
<1>4. \A d \in 1 .. n : NodeFits(t[d])
  BY <1>1, <1>2 DEF Stacked
<1>5. \A d \in 1 .. n - 1 : d \in 1 .. n /\ d # n
  BY <1>1
<1>6. \A d \in 1 .. n - 1 : t[d].call # "none"
  BY <1>2, <1>5 DEF Stacked
<1>7. t[1].text = context
  BY <1>1, <1>2 DEF Stacked, Top
<1>8. QED
  BY <1>1, <1>4, <1>6, <1>7 DEF Stacked, t

\* The stack without its last node.
LEMMA DropStacked ==
  ASSUME stack \in Seq(Nodes), Len(stack) > 1, Stacked(stack),
         NEW m \in Nodes, m.text = Caller.text, NodeFits(m)
  PROVE  LET t == Append(SubSeq(stack, 1, Len(stack) - 2), m)
         IN  Len(t) = Len(stack) - 1 /\ Stacked(t)
<1> DEFINE r == SubSeq(stack, 1, Len(stack) - 2)
           t == Append(r, m)
<1>0. PICK k \in Nat : k = Len(stack) - 2
  OBVIOUS
<1>1. r \in Seq(Nodes) /\ Len(r) = k /\ \A d \in 1 .. k : r[d] = stack[d]
  <2>1. \A d \in 1 .. k : stack[d] \in Nodes
    BY <1>0
  <2>2. r = [d \in 1 .. k |-> stack[d]]
    BY <1>0
  <2>3. r \in [1 .. k -> Nodes]
    BY <2>1, <2>2
  <2>4. DOMAIN r = 1 .. k
    BY <2>2
  <2>5. \A d \in 1 .. k : r[d] = stack[d]
    BY <2>2
  <2> HIDE DEF r
  <2>6. r \in Seq(Nodes)
    BY <2>3
  <2>7. QED
    BY <2>4, <2>5, <2>6, LenProperties
<1> HIDE DEF r
<1>2. /\ Len(t) = k + 1 /\ t[k + 1] = m
      /\ \A d \in 1 .. k : t[d] = stack[d]
  BY <1>1
<1> HIDE DEF t
<1>3. \A d \in 1 .. k : d \in 1 .. Len(stack) /\ d \in 1 .. Len(stack) - 1
  BY <1>0
<1>4. \A d \in 1 .. k + 1 : d \in 1 .. k \/ d = k + 1
  OBVIOUS
<1>5. \A d \in 1 .. k + 1 : NodeFits(t[d])
  BY <1>2, <1>3, <1>4 DEF Stacked
<1>6. \A d \in 1 .. k : t[d].call # "none"
  BY <1>2, <1>3 DEF Stacked
<1>7. t[1].text = context
  <2>1. CASE k = 0
    <3>1. t[1] = m
      BY <1>2, <2>1
    <3>3. Len(stack) - 1 = 1
      BY <1>0, <2>1
    <3>2. QED
      BY <3>1, <3>3 DEF Stacked, Caller
  <2>2. CASE k # 0
    <3>1. 1 \in 1 .. k
      BY <2>2
    <3>2. QED
      BY <1>2, <3>1 DEF Stacked
  <2>3. QED
    BY <2>1, <2>2
<1>8. Len(t) = Len(stack) - 1 /\ (k + 1) - 1 = k
  BY <1>0, <1>2
<1>9. QED
  BY <1>2, <1>5, <1>6, <1>7, <1>8 DEF Stacked, t, r

\* A child begins with no sweep, and its caller waits.
LEMMA SpawnStacked ==
  ASSUME stack \in Seq(Nodes), Len(stack) > 0, Stacked(stack),
         NEW call \in {"map", "query"}, NEW child \in Nodes, child.sweeps = <<>>
  PROVE  LET t == Append([stack EXCEPT ![Len(stack)].call = call], child)
         IN  Len(t) = Len(stack) + 1 /\ Stacked(t)
<1> DEFINE n == Len(stack)
           m == [Top EXCEPT !.call = call]
           s == [stack EXCEPT ![n] = m]
           t == Append(s, child)
<1>1. Top \in Nodes
  BY DEF Top
<1>2. /\ m \in Nodes /\ m.text = Top.text /\ m.sweeps = Top.sweeps /\ m.call = call
  BY <1>1 DEF Nodes
<1>3. NodeFits(m)
  <2>1. NodeFits(Top)
    BY DEF Stacked, Top
  <2>2. QED
    BY <1>2, <2>1 DEF NodeFits
<1>4. [stack EXCEPT ![Len(stack)].call = call] = s
  BY DEF Top
<1> HIDE DEF m
<1>5. /\ s \in Seq(Nodes) /\ Len(s) = n /\ s[n] = m
  BY <1>2
<1>6. Stacked(s)
  BY <1>2, <1>3, UpdateStacked
<1> HIDE DEF s
<1>7. /\ Len(t) = n + 1 /\ t[n + 1] = child /\ \A d \in 1 .. n : t[d] = s[d]
  BY <1>5
<1> HIDE DEF t
<1>8. NodeFits(child)
  <2>1. 1 .. Len(<<>>) = {}
    OBVIOUS
  <2>2. QED
    BY <2>1 DEF NodeFits
<1>9. /\ \A d \in 1 .. n + 1 : d \in 1 .. n \/ d = n + 1
      /\ \A d \in 1 .. n : d \in 1 .. n - 1 \/ d = n
      /\ 1 \in 1 .. n
  OBVIOUS
<1>10. \A d \in 1 .. n + 1 : NodeFits(t[d])
  BY <1>5, <1>6, <1>7, <1>8, <1>9 DEF Stacked
<1>11. \A d \in 1 .. n : t[d].call # "none"
  BY <1>2, <1>5, <1>6, <1>7, <1>9 DEF Stacked
<1>12. t[1].text = context
  BY <1>6, <1>7, <1>9 DEF Stacked
<1>13. (n + 1) - 1 = n
  OBVIOUS
<1>14. QED
  BY <1>4, <1>7, <1>10, <1>11, <1>12, <1>13 DEF Stacked, t
-----------------------------------------------------------------------------
\* A cut that is one is a span of the text.
LEMMA CutSpans ==
  ASSUME NEW text \in Texts, NEW part, NEW cut, CutFrom(part, cut, text), cut # <<>>
  PROVE  cut \in Spans(text)
<1>1. PICK a \in 0 .. Len(text), b \in 0 .. Len(text) : a < b /\ cut = <<a, b>>
  BY DEF CutFrom
<1>2. QED
  BY <1>1 DEF Spans

\* The root alone, with no sweep and no verdict.
LEMMA KInit == Init => KInv
<1> SUFFICES ASSUME Init PROVE KInv
  OBVIOUS
<1>1. stack = <<NewNode(context, <<0, Len(context)>>)>>
  BY DEF Init
<1>2. NewNode(context, <<0, Len(context)>>).text = context
      /\ NewNode(context, <<0, Len(context)>>).sweeps = <<>>
  BY DEF NewNode
<1>3. Len(stack) = 1 /\ stack[1].text = context /\ stack[1].sweeps = <<>>
  BY <1>1, <1>2
<1>4. Stacked(stack)
  <2>1. 1 .. Len(<<>>) = {} /\ 1 .. 1 - 1 = {} /\ 1 .. 1 = {1}
    OBVIOUS
  <2>2. NodeFits(stack[1])
    BY <1>3, <2>1 DEF NodeFits
  <2>3. QED
    BY <1>3, <2>1, <2>2 DEF Stacked
<1>5. Bounded
  BY <1>3, DelegationAssumption DEF Init, Bounded, DelegationAssumption
<1>6. HistoryFits
  BY DEF Init, HistoryFits
<1>7. record \in Records
  BY DEF Init, NoRecord, Records
<1>8. Judged
  <2>1. Running /\ result.status = "running" /\ result.strategy = "auto"
        /\ result.satisfied = "none"
    BY DEF Init, Running
  <2>2. QED
    BY <2>1 DEF Judged, Statuses, Strategies
<1>9. QED
  BY <1>4, <1>5, <1>6, <1>7, <1>8 DEF KInv, Init

\* While the run goes on there is no verdict to keep.
LEMMA Unjudged ==
  ASSUME KInv, Running, UNCHANGED <<context, result>>, Stacked(stack)', Bounded',
         HistoryFits', record' \in Records
  PROVE  KInv'
<1>1. Running' /\ result.status \in Statuses /\ result.strategy \in Strategies
      /\ result.satisfied \in {"none", "true", "false"}
  BY DEF KInv, Judged, Running
<1>2. Judged'
  BY <1>1 DEF Judged
<1>3. QED
  BY <1>2 DEF KInv

\* Nothing recorded, nothing to check.
LEMMA SameHistory ==
  ASSUME HistoryFits, UNCHANGED <<trace, returned>>
  PROVE  HistoryFits'
  BY DEF HistoryFits

\* Stacked of the next stack.
LEMMA StackedNext ==
  ASSUME NEW t, Stacked(t), stack' = t, UNCHANGED context
  PROVE  Stacked(stack)'
  BY DEF Stacked

\* A step that changes the last node only.
LEMMA UpdateStep ==
  ASSUME IInv, KInv, Running, NEW m \in Nodes, m.text = Top.text, NodeFits(m), Update(m),
         record' \in Records, UNCHANGED <<context, nodes, trace, result, returned>>
  PROVE  KInv'
<1> DEFINE t == [stack EXCEPT ![Len(stack)] = m]
<1>1. Len(t) = Len(stack) /\ Stacked(t)
  BY UpdateStacked DEF IInv, KInv
<1>2. stack' = t
  BY DEF Update
<1> HIDE DEF t
<1>3. Stacked(stack)' /\ Bounded' /\ HistoryFits'
  BY <1>1, <1>2, StackedNext, SameHistory DEF KInv, Bounded
<1>4. QED
  BY <1>3, Unjudged

\* A step that ends the last node and goes on with its caller.
LEMMA DropStep ==
  ASSUME IInv, KInv, Running, Len(stack) > 1,
         NEW m \in Nodes, m.text = Caller.text, NodeFits(m),
         stack' = Append(SubSeq(stack, 1, Len(stack) - 2), m),
         record' \in Records, HistoryFits', UNCHANGED <<context, nodes, result>>
  PROVE  KInv'
<1> DEFINE t == Append(SubSeq(stack, 1, Len(stack) - 2), m)
<1>1. Len(t) = Len(stack) - 1 /\ Stacked(t)
  BY DropStacked DEF IInv, KInv
<1>2. stack' = t
  OBVIOUS
<1> HIDE DEF t
<1>3. Stacked(stack)'
  BY <1>1, <1>2, StackedNext
<1>4. Len(stack) \in Nat /\ MaxDepth \in Nat /\ MaxNodes \in Nat
  BY DelegationAssumption DEF IInv, DelegationAssumption
<1>5. Bounded'
  BY <1>1, <1>2, <1>4 DEF KInv, Bounded
<1>6. QED
  BY <1>3, <1>5, Unjudged

\* A new node has swept nothing, and its caller waits.
LEMMA SpawnKeeps ==
  ASSUME IInv, KInv, Running, NEW call \in {"map", "query"}, NEW cut \in Cuts,
         Spawn(call, cut)
  PROVE  KInv'
<1> DEFINE child == NewNode(PartAt(cut), cut)
           t == Append([stack EXCEPT ![Len(stack)].call = call], child)
<1>0. Top \in Nodes
  BY DEF IInv, Top
<1>1. Top \in Nodes /\ Top.text \in Texts
  BY <1>0 DEF Nodes
<1>2. PartAt(cut) \in Texts /\ cut \in Seq(Nat)
  <2>1. CASE cut = <<>>
    BY <2>1, DelegationAssumption DEF PartAt, DelegationAssumption, Texts, Cells
  <2>2. CASE cut # <<>>
    <3>1. PICK a \in 0 .. Len(Top.text), b \in 0 .. Len(Top.text) : cut = <<a, b>> /\ a < b
      BY <2>2 DEF Cuts
    <3>2. PartAt(cut) = SubSeq(Top.text, a + 1, b) /\ cut \in Seq(Nat)
      BY <3>1, <1>1 DEF PartAt, Texts
    <3>3. QED
      BY <3>1, <3>2, <1>1, CutOccurs
  <2>3. QED
    BY <2>1, <2>2
<1>3. child \in Nodes /\ child.sweeps = <<>>
  BY <1>2, NewNodeTypes DEF NewNode
<1> HIDE DEF child
<1>4. Len(t) = Len(stack) + 1 /\ Stacked(t)
  BY <1>3, SpawnStacked DEF IInv, KInv
<1>5. stack' = t
  BY DEF Spawn, child
<1> HIDE DEF t
<1>6. Stacked(stack)'
  BY <1>4, <1>5, StackedNext DEF Spawn
<1>7. Len(stack) \in Nat /\ MaxDepth \in Nat /\ MaxNodes \in Nat
  BY DelegationAssumption DEF IInv, DelegationAssumption
<1>8. Len(stack) - 1 < MaxDepth /\ nodes < MaxNodes /\ nodes' = nodes + 1
  BY DEF Spawn
<1>9. Bounded'
  BY <1>4, <1>5, <1>7, <1>8 DEF KInv, Bounded
<1>10. HistoryFits' /\ record' \in Records /\ UNCHANGED <<context, result>>
  BY SameHistory DEF Spawn, KInv, NoRecord, Records
<1>11. QED
  BY <1>6, <1>9, <1>10, Unjudged

\* rlm_map's record has a status it knows and two flags.
LEMMA RecordFits ==
  ASSUME NEW child, NEW answered, NEW clean
  PROVE  RecordOf(child, answered, clean) \in Records
<1> DEFINE last == Last(child.sweeps)
           ok == answered /\ clean
           validated == last.op = "semantic_search" \/ last.valid # {}
           evidence == child.sweeps # <<>> /\ validated /\ Complete(last)
           u == ok \/ evidence
           w == Swept(child)
           status == IF ok THEN "ok" ELSE IF answered THEN "budget" ELSE "empty"
<1>1. u \in BOOLEAN
  OBVIOUS
<1>2. w \in BOOLEAN
  BY DEF Swept
<1>3. status \in {"none", "error", "ok", "empty", "budget"}
  OBVIOUS
<1>4. RecordOf(child, answered, clean) = [status |-> status, usable |-> u, swept |-> w]
  BY DEF RecordOf
<1> HIDE DEF u, w, status
<1>5. QED
  BY <1>1, <1>2, <1>3, <1>4 DEF Records

\* What a child's return adds to the trace and to the history lies in the text
\* of its caller.
LEMMA ReturnHistory ==
  ASSUME IInv, KInv, NEW answered, NEW clean, Return(answered, clean)
  PROVE  HistoryFits'
<1>0. Len(stack) > 1 /\ Len(stack) - 1 \in 1 .. Len(stack) - 1
  BY DEF IInv, Return
<1>1. /\ Top \in Nodes /\ Caller \in Nodes
      /\ CutFrom(Top.text, Top.cut, Caller.text)
  BY <1>0 DEF IInv, Top, Caller, Framed
<1>2. Top.text \in Texts /\ Caller.text \in Texts
  BY <1>1 DEF Nodes
<1>3. ASSUME NEW e \in trace' PROVE e.of \in Texts /\ e.span \in Spans(e.of)
  <2>1. CASE e \in trace
    BY <2>1 DEF KInv, HistoryFits
  <2>2. CASE e \in Credit(Top, Caller)
    <3>1. e.of = Caller.text /\ e.span \in Placed(Top.text, Caller.text)
      BY <2>2 DEF Credit
    <3>2. Top.cut # <<>> /\ e.span = Top.cut
      BY <1>1, <1>2, <3>1, PlacedAtCut
    <3>3. QED
      BY <1>1, <1>2, <3>1, <3>2, CutSpans
  <2>3. QED
    BY <2>1, <2>2 DEF Return
<1>4. ASSUME NEW r \in returned' PROVE r.of \in Texts /\ r.span \in Spans(r.of)
  <2>1. CASE r \in returned
    BY <2>1 DEF KInv, HistoryFits
  <2>2. CASE r \notin returned
    <3>1. Top.cut # <<>>
          /\ r \in {[of |-> Caller.text, span |-> Top.cut, swept |-> Swept(Top)]}
      BY <2>2 DEF Return
    <3>2. r.of = Caller.text /\ r.span = Top.cut
      BY <3>1
    <3>3. QED
      BY <1>1, <1>2, <3>1, <3>2, CutSpans
  <2>3. QED
    BY <2>1, <2>2
<1>5. QED
  BY <1>3, <1>4 DEF HistoryFits

\* A verdict of "complete" that a strategy asked for was satisfied.
LEMMA VerdictIs ==
  ASSUME NEW strategy \in Strategies, NEW root, NEW answered, NEW truncated
  PROVE  /\ Verdict(strategy, root, answered, truncated) \in Statuses \ {"running"}
         /\ Satisfied(strategy, root) \in {"none", "true", "false"}
         /\ Verdict(strategy, root, answered, truncated) = "complete"
              /\ strategy \in Exhaustive \cup {"recursive"}
            => Satisfied(strategy, root) = "true"
<1>1. Satisfied(strategy, root) \in {"none", "true", "false"}
  BY DEF Satisfied
<1>2. Verdict(strategy, root, answered, truncated) \in Statuses \ {"running"}
  BY DEF Verdict, Statuses
<1>3. strategy \in Exhaustive => Satisfied(strategy, root) \in {"true", "false"}
  BY DEF Satisfied, Exhaustive
<1>4. Verdict(strategy, root, answered, truncated) = "complete" =>
        /\ Satisfied(strategy, root) # "false"
        /\ strategy = "recursive" => Satisfied(strategy, root) = "true"
  BY DEF Verdict
<1>5. QED
  BY <1>1, <1>2, <1>3, <1>4

\* The verdict is given with the root alone on the stack, from what it satisfied.
LEMMA AnswerStep ==
  ASSUME IInv, KInv, NEW strategy \in Strategies, NEW answered, NEW truncated,
         Answer(strategy, answered, truncated)
  PROVE  KInv'
<1>1. /\ Len(stack) = 1 /\ UNCHANGED <<context, stack, nodes, trace, returned>>
      /\ record' = NoRecord
  BY DEF Answer
<1> DEFINE certificates == Certificates(strategy, Top)
<1>2. /\ result'.status = Verdict(strategy, Top, answered, truncated)
      /\ result'.strategy = strategy
      /\ result'.satisfied = Satisfied(strategy, Top)
      /\ result'.gaps = UNION {ToSet(c.gaps) : c \in certificates}
  BY DEF Answer
<1>3. Top' = Top /\ Delegated' = Delegated
  BY <1>1 DEF Top, Delegated
<1>4. RecursiveCertificate' = RecursiveCertificate
  BY <1>1, <1>3 DEF RecursiveCertificate
<1>5. Satisfied(result.strategy, Top)' = Satisfied(strategy, Top)
  BY <1>2, <1>3, <1>4 DEF Satisfied
<1>6. strategy = "recursive" /\ Delegated # {} =>
        result'.gaps = ToSet(Gaps(Delegated, Len(context)))
  <2> SUFFICES ASSUME strategy = "recursive", Delegated # {}
               PROVE  result'.gaps = ToSet(Gaps(Delegated, Len(context)))
    OBVIOUS
  <2>1. certificates = {RecursiveCertificate}
    BY DEF Certificates
  <2>2. result'.gaps = ToSet(RecursiveCertificate.gaps)
    BY <1>2, <2>1
  <2>3. RecursiveCertificate.gaps = Gaps(Delegated, Len(context))
    BY DEF RecursiveCertificate
  <2>4. QED
    BY <2>2, <2>3
<1> HIDE DEF certificates
<1>7. /\ result'.status \in Statuses \ {"running"}
      /\ result'.satisfied \in {"none", "true", "false"}
      /\ result'.status = "complete" /\ strategy \in Exhaustive \cup {"recursive"} =>
           Satisfied(strategy, Top) = "true"
  BY <1>2, VerdictIs
<1>8. Judged'
  BY <1>1, <1>2, <1>3, <1>5, <1>6, <1>7 DEF Judged
<1>9. HistoryFits' /\ record' \in Records /\ Bounded'
  BY <1>1, SameHistory DEF KInv, NoRecord, Records, Bounded
<1>10. Stacked(stack)'
  BY <1>1 DEF KInv, Stacked
<1>11. QED
  BY <1>1, <1>8, <1>9, <1>10 DEF KInv

\* A stuttering step.
LEMMA Unmoved == KInv /\ UNCHANGED vars => KInv'
<1> SUFFICES ASSUME KInv, UNCHANGED vars PROVE KInv'
  OBVIOUS
<1>1. UNCHANGED <<context, stack, nodes, trace, record, result, returned>>
  BY DEF vars
<1>2. Top' = Top /\ Delegated' = Delegated /\ (Running' <=> Running)
  BY <1>1 DEF Top, Delegated, Running
<1>3. RecursiveCertificate' = RecursiveCertificate
  BY <1>1, <1>2 DEF RecursiveCertificate
<1>4. Satisfied(result.strategy, Top)' = Satisfied(result.strategy, Top)
  BY <1>1, <1>2, <1>3 DEF Satisfied
<1>5. Judged'
  BY <1>1, <1>2, <1>4 DEF KInv, Judged
<1>6. HistoryFits' /\ record' \in Records /\ Bounded'
  BY <1>1, SameHistory DEF KInv, Bounded
<1>7. Stacked(stack)'
  BY <1>1 DEF KInv, Stacked
<1>8. QED
  BY <1>1, <1>5, <1>6, <1>7 DEF KInv

\* A node keeps its sweeps, whatever call it is in.
LEMMA SameSweeps ==
  ASSUME NEW n, NEW m, NodeFits(n), m.sweeps = n.sweeps, m.text = n.text
  PROVE  NodeFits(m)
  BY DEF NodeFits

\* A sweep of the context is one of the whole text.
LEMMA SweepStep ==
  ASSUME IInv, KInv, NEW o \in Outcomes, Sweep(o)
  PROVE  KInv'
<1> DEFINE total == IF o.scope = "context" THEN Len(Top.text) ELSE 1
           sweep == [op |-> o.op, scope |-> o.scope, total |-> total,
                     valid |-> 1 .. total - o.missing]
           m == [Top EXCEPT !.sweeps = Append(@, sweep), !.ops = @ \cup {o.op}]
<1>1. /\ o.op \in {"semantic_map", "semantic_search"} /\ o.missing \in {0, 1}
      /\ o.scope \in {"context", "items"}
  BY DelegationAssumption DEF DelegationAssumption
<1>2. Top \in Nodes
  BY DEF IInv, Top
<1>3. Top.text \in Texts /\ Top.sweeps \in Seq(Sweeps) /\ Top.ops \in SUBSET Operations
  BY <1>2 DEF Nodes
<1>4. total \in Nat
  BY <1>3 DEF Texts
<1>5. 1 .. total - o.missing \in SUBSET Int /\ 1 .. total - o.missing \subseteq 1 .. total
  BY <1>1, <1>4
<1>6. /\ sweep \in Sweeps /\ sweep.scope = o.scope
      /\ o.scope = "context" =>
           sweep.total = Len(Top.text) /\ sweep.valid \subseteq 1 .. Len(Top.text)
  BY <1>1, <1>4, <1>5 DEF Sweeps
<1> HIDE DEF sweep
<1> DEFINE sweeps == Append(Top.sweeps, sweep)
<1>7. /\ sweeps \in Seq(Sweeps) /\ Len(sweeps) = Len(Top.sweeps) + 1
      /\ sweeps[Len(Top.sweeps) + 1] = sweep /\ Len(Top.sweeps) \in Nat
      /\ \A i \in 1 .. Len(Top.sweeps) : sweeps[i] = Top.sweeps[i]
  BY <1>3, <1>6
<1>8. Top.ops \cup {o.op} \in SUBSET Operations
  BY <1>1, <1>3 DEF Operations
<1>9. m = [Top EXCEPT !.sweeps = sweeps, !.ops = Top.ops \cup {o.op}]
  OBVIOUS
<1> HIDE DEF sweeps
<1>10. m \in Nodes /\ m.text = Top.text /\ m.sweeps = sweeps
  BY <1>2, <1>7, <1>8, <1>9 DEF Nodes
<1>11. Update(m) /\ Running /\ record' \in Records
       /\ UNCHANGED <<context, nodes, trace, result, returned>>
  BY DEF Sweep, NoRecord, Records, sweep
<1> HIDE DEF m
<1>12. NodeFits(Top)
  BY DEF IInv, KInv, Stacked, Top
<1>13. NodeFits(m)
  <2> SUFFICES ASSUME NEW i \in 1 .. Len(sweeps), sweeps[i].scope = "context"
               PROVE  /\ sweeps[i].total = Len(Top.text)
                      /\ sweeps[i].valid \subseteq 1 .. Len(Top.text)
    BY <1>10 DEF NodeFits
  <2>1. i \in 1 .. Len(Top.sweeps) \/ i = Len(Top.sweeps) + 1
    BY <1>7
  <2>2. CASE i \in 1 .. Len(Top.sweeps)
    BY <1>7, <1>12, <2>2 DEF NodeFits
  <2>3. CASE i = Len(Top.sweeps) + 1
    BY <1>6, <1>7, <2>3
  <2>4. QED
    BY <2>1, <2>2, <2>3
<1>14. QED
  BY <1>10, <1>11, <1>13, UpdateStep

\* Every step keeps both.
LEMMA KStep == IInv /\ KInv /\ [Next]_vars => KInv'
<1> SUFFICES ASSUME IInv, KInv, [Next]_vars PROVE KInv'
  OBVIOUS
<1>1. Top \in Nodes /\ NodeFits(Top)
  BY DEF IInv, KInv, Stacked, Top
<1>2. ASSUME Len(stack) > 1 PROVE Caller \in Nodes /\ NodeFits(Caller)
  <2>1. Len(stack) - 1 \in 1 .. Len(stack)
    BY <1>2 DEF IInv
  <2>2. QED
    BY <2>1 DEF IInv, KInv, Stacked, Caller
<1>3. NoRecord \in Records /\ ErrorRecord \in Records
  BY DEF NoRecord, ErrorRecord, Records
<1>4. ASSUME NEW n \in Nodes, NodeFits(n)
      PROVE  /\ Mapped(n) \in Nodes /\ Mapped(n).text = n.text /\ NodeFits(Mapped(n))
             /\ \A c \in {"none", "map", "query"} :
                  LET m == [n EXCEPT !.call = c]
                  IN  m \in Nodes /\ m.text = n.text /\ NodeFits(m)
  <2>1. Mapped(n) \in Nodes /\ Mapped(n).text = n.text /\ Mapped(n).sweeps = n.sweeps
    BY DEF Mapped, Nodes, Operations
  <2>2. ASSUME NEW c \in {"none", "map", "query"}
        PROVE  LET m == [n EXCEPT !.call = c]
               IN  m \in Nodes /\ m.text = n.text /\ m.sweeps = n.sweeps
    BY DEF Nodes
  <2>3. QED
    BY <1>4, <2>1, <2>2, SameSweeps
<1>5. ASSUME NEW o \in Outcomes, Sweep(o) PROVE KInv'
  BY <1>5, SweepStep
<1>6. CASE Query
  BY <1>6, SpawnKeeps DEF Query
<1>7. CASE MapChild
  BY <1>7, SpawnKeeps DEF MapChild
<1>8. CASE Map
  BY <1>1, <1>3, <1>4, <1>8, UpdateStep DEF Map
<1>9. CASE MapEnds \/ MapStops
  BY <1>1, <1>3, <1>4, <1>9, UpdateStep DEF MapEnds, MapStops
<1>10. CASE Raise
  <2> DEFINE m == IF Caller.call = "map" THEN Mapped(Caller)
                  ELSE [Caller EXCEPT !.call = "none"]
  <2>1. Len(stack) > 1 /\ Running
    BY <1>10 DEF Raise
  <2>2. m \in Nodes /\ m.text = Caller.text /\ NodeFits(m)
    BY <1>2, <1>4, <2>1
  <2>3. /\ stack' = Append(SubSeq(stack, 1, Len(stack) - 2), m)
        /\ record' \in Records /\ UNCHANGED <<context, nodes, trace, result, returned>>
    BY <1>3, <1>10 DEF Raise
  <2> HIDE DEF m
  <2>4. HistoryFits'
    BY <2>3, SameHistory DEF KInv
  <2>5. QED
    BY <2>1, <2>2, <2>3, <2>4, DropStep
<1>11. CASE Done \/ UNCHANGED vars
  BY <1>11, Unmoved DEF Done
<1>12. ASSUME NEW answered \in BOOLEAN, NEW flag \in BOOLEAN, Return(answered, flag)
       PROVE  KInv'
  <2> DEFINE m == IF Caller.call = "query"
                  THEN [Caller EXCEPT !.call = "none", !.ops = @ \cup {"rlm_query"}]
                  ELSE Caller
  <2>1. Len(stack) > 1 /\ Running
    BY <1>12 DEF Return
  <2>2. m \in Nodes /\ m.text = Caller.text /\ m.sweeps = Caller.sweeps
    BY <1>2, <2>1 DEF Nodes, Operations
  <2>3. NodeFits(m)
    BY <1>2, <2>1, <2>2, SameSweeps
  <2>4. /\ stack' = Append(SubSeq(stack, 1, Len(stack) - 2), m)
        /\ UNCHANGED <<context, nodes, result>>
    BY <1>12 DEF Return
  <2>5. record' \in Records
    BY <1>3, <1>12, RecordFits DEF Return
  <2>6. HistoryFits'
    BY <1>12, ReturnHistory
  <2> HIDE DEF m
  <2>7. QED
    BY <2>1, <2>2, <2>3, <2>4, <2>5, <2>6, DropStep
<1>13. ASSUME NEW strategy \in Strategies, NEW answered \in BOOLEAN, NEW flag \in BOOLEAN,
              Answer(strategy, answered, flag)
       PROVE  KInv'
  BY <1>13, AnswerStep
<1>14. QED
  BY <1>5, <1>6, <1>7, <1>8, <1>9, <1>10, <1>11, <1>12, <1>13 DEF Next

\* The two invariants together.
LEMMA Invariance == Spec => [](IInv /\ KInv)
<1>1. Init => IInv /\ KInv
  BY InvInit, KInit
<1>2. (IInv /\ KInv) /\ [Next]_vars => (IInv /\ KInv)'
  BY InvStep, KStep
<1>3. QED
  BY <1>1, <1>2, PTL DEF Spec

(***************************************************************************)
(* The types: only the root has no caller that waits, the nodes of a run   *)
(* are at most MaxNodes, and a credited span fits its text.                *)
(***************************************************************************)
THEOREM TypeCorrect == Spec => []TypeOK
<1>1. IInv /\ KInv => TypeOK
  <2> SUFFICES ASSUME IInv, KInv PROVE TypeOK
    OBVIOUS
  <2>1. /\ MaxDepth \in Nat /\ Len(stack) \in Nat /\ Len(stack) > 0
        /\ DOMAIN stack = 1 .. Len(stack)
    BY DelegationAssumption DEF IInv, DelegationAssumption
  <2>2. Len(stack) \in 1 .. MaxDepth + 1
    BY <2>1 DEF KInv, Bounded
  <2>3. nodes \in Len(stack) .. MaxNodes
    BY <2>1, DelegationAssumption DEF KInv, Bounded, DelegationAssumption
  <2>4. ASSUME NEW d \in DOMAIN stack
        PROVE  /\ stack[d].ops \subseteq Operations
               /\ stack[d].call \in {"none", "map", "query"}
               /\ d < Len(stack) => stack[d].call # "none"
    <3>1. stack[d] \in Nodes
      BY <2>1 DEF IInv
    <3>2. d < Len(stack) => d \in 1 .. Len(stack) - 1
      BY <2>1
    <3>3. d < Len(stack) => stack[d].call # "none"
      BY <3>2 DEF KInv, Stacked
    <3>4. QED
      BY <3>1, <3>3 DEF Nodes
  <2>5. /\ record.status \in {"none", "error", "ok", "empty", "budget"}
        /\ record.usable \in BOOLEAN /\ record.swept \in BOOLEAN
    BY DEF KInv, Records
  <2>6. \A e \in trace : e.span \in Spans(e.of)
    BY DEF KInv, HistoryFits
  <2>7. QED
    BY <2>2, <2>3, <2>4, <2>5, <2>6 DEF TypeOK, KInv, Judged, Statuses
<1>2. QED
  BY <1>1, Invariance, PTL

\* The spans of a text are finitely many, and end where it ends.
LEMMA SpansAre ==
  ASSUME NEW text \in Texts
  PROVE  /\ Spans(text) \subseteq Pairs /\ IsFiniteSet(Spans(text))
         /\ \A s \in Spans(text) : s[2] <= Len(text)
<1>1. Len(text) \in Nat
  BY DEF Texts
<1>2. IsFiniteSet(0 .. Len(text))
  BY <1>1, FS_Interval
<1>3. IsFiniteSet((0 .. Len(text)) \X (0 .. Len(text)))
  BY <1>2, FS_Product
<1>4. Spans(text) \subseteq (0 .. Len(text)) \X (0 .. Len(text))
  BY DEF Spans
<1>5. IsFiniteSet(Spans(text))
  BY <1>3, <1>4, FS_Subset
<1>6. QED
  BY <1>1, <1>5 DEF Spans, Pairs

\* What the certificate takes: spans that lie in the context.
LEMMA DelegatedAre ==
  ASSUME KInv
  PROVE  /\ context \in Texts /\ Delegated \subseteq Spans(context)
         /\ Delegated \in SUBSET Pairs /\ IsFiniteSet(Delegated)
         /\ \A s \in Delegated : s[2] <= Len(context)
<1>1. context \in Texts
  BY DelegationAssumption DEF KInv, DelegationAssumption, Texts, Cells
<1>2. Delegated \subseteq Spans(context)
  BY DEF KInv, HistoryFits, Delegated
<1>3. QED
  BY <1>1, <1>2, SpansAre, FS_Subset

(***************************************************************************)
(* The gaps that the recursive certificate reports are the cells of the    *)
(* context that no credited span holds: sorting, merging and walking the   *)
(* spans loses and invents none, however they overlap, touch, nest or      *)
(* repeat (_recursive_certificate, Certificate.gaps).                      *)
(***************************************************************************)
THEOREM GapsCorrect == Spec => []GapsAreTheRest
<1>1. IInv /\ KInv => GapsAreTheRest
  <2> SUFFICES ASSUME IInv, KInv, ~Running, result.strategy = "recursive", Delegated # {}
               PROVE  CellsOf(result.gaps) = DOMAIN context \ CellsOf(Delegated)
    BY DEF GapsAreTheRest
  <2>1. result.gaps = ToSet(Gaps(Delegated, Len(context)))
    BY DEF KInv, Judged
  <2>2. Len(context) \in Nat /\ DOMAIN context = 1 .. Len(context)
    BY DelegatedAre DEF Texts
  <2>3. CellsOf(ToSet(Gaps(Delegated, Len(context)))) = (1 .. Len(context)) \ CellsOf(Delegated)
    BY <2>2, DelegatedAre, GapsAre
  <2>4. QED
    BY <2>1, <2>2, <2>3
<1>2. QED
  BY <1>1, Invariance, PTL

\* What children swept below holds what was credited, and lies in the context.
LEMMA CreditsWereRead ==
  ASSUME IInv, KInv
  PROVE  CellsOf(Delegated) \subseteq ReadBelow /\ ReadBelow \subseteq DOMAIN context
<1> DEFINE read == {r.span : r \in {q \in returned : q.of = context /\ q.swept}}
<1>1. Delegated \subseteq read
  <2> SUFFICES ASSUME NEW e \in trace, e.of = context PROVE e.span \in read
    BY DEF Delegated
  <2>1. [of |-> e.of, span |-> e.span, swept |-> TRUE] \in returned
    BY DEF IInv, CreditAtOrigin
  <2>2. QED
    BY <2>1
<1>2. read \subseteq Spans(context)
  BY DEF KInv, HistoryFits
<1> HIDE DEF read
<1>3. CellsOf(Delegated) \subseteq CellsOf(read)
  BY <1>1 DEF CellsOf
<1>4. ASSUME NEW i \in CellsOf(read) PROVE i \in DOMAIN context
  <2>1. PICK s \in read : i \in s[1] + 1 .. s[2]
    BY <1>4 DEF CellsOf
  <2>2. s[1] \in Nat /\ s[2] \in Nat /\ s[2] <= Len(context)
    BY <1>2, DelegatedAre, SpansAre, PairIs
  <2>3. Len(context) \in Nat /\ DOMAIN context = 1 .. Len(context)
    BY DelegatedAre DEF Texts
  <2>4. QED
    BY <2>1, <2>2, <2>3
<1>5. QED
  BY <1>3, <1>4 DEF ReadBelow, read

(***************************************************************************)
(* "complete" is earned: by one sweep of the root that is a required       *)
(* operation and gave every unit of the context a value, or by children    *)
(* that swept 98 per cent of the root's characters (_strategy_satisfied,   *)
(* analyze_large_context).                                                 *)
(***************************************************************************)
THEOREM VerdictCorrect == Spec => []VerdictIsGrounded
<1>1. IInv /\ KInv => VerdictIsGrounded
  <2> SUFFICES ASSUME IInv, KInv, result.status = "complete" PROVE
        /\ result.strategy \in Exhaustive =>
             \E i \in DOMAIN Top.sweeps :
               /\ Top.sweeps[i].scope = "context"
               /\ Top.sweeps[i].valid = DOMAIN context
               /\ Top.sweeps[i].op \in Required(result.strategy)
        /\ result.strategy = "recursive" => EnoughOf(context, Chars(context, ReadBelow))
    BY DEF VerdictIsGrounded
  <2>1. ~Running
    BY DEF Running
  <2>2. /\ Len(stack) = 1
        /\ result.strategy \in Exhaustive \cup {"recursive"} =>
             Satisfied(result.strategy, Top) = "true"
    BY <2>1 DEF KInv, Judged
  <2>3. context \in Texts /\ Len(context) \in Nat /\ DOMAIN context = 1 .. Len(context)
    BY DelegatedAre DEF Texts
  <2>4. Top \in Nodes /\ Top.text = context /\ NodeFits(Top)
    <3>1. stack \in Seq(Nodes) /\ 1 \in 1 .. Len(stack) /\ Top = stack[1]
      BY <2>2 DEF IInv, Top
    <3>2. Top \in Nodes
      BY <3>1
    <3>3. QED
      BY <3>1, <3>2 DEF KInv, Stacked
  <2>5. ASSUME result.strategy \in Exhaustive
        PROVE  \E i \in DOMAIN Top.sweeps :
                 /\ Top.sweeps[i].scope = "context"
                 /\ Top.sweeps[i].valid = DOMAIN context
                 /\ Top.sweeps[i].op \in Required(result.strategy)
    <3>1. Grounds(result.strategy, Top.sweeps) # {}
      BY <2>2, <2>5 DEF Satisfied, Exhaustive
    <3>2. PICK i \in DOMAIN Top.sweeps : Top.sweeps[i].op \in Required(result.strategy)
                                         /\ ContextComplete(Top.sweeps[i])
      BY <3>1 DEF Grounds
    <3> DEFINE s == Top.sweeps[i]
    <3>3. i \in 1 .. Len(Top.sweeps)
      BY <2>4 DEF Nodes
    <3>4. s.scope = "context" /\ Cardinality(s.valid) = s.total
      BY <3>2 DEF ContextComplete, Complete
    <3>5. s.total = Len(context) /\ s.valid \subseteq 1 .. Len(context)
      BY <2>4, <3>3, <3>4 DEF NodeFits
    <3>6. IsFiniteSet(1 .. Len(context)) /\ Cardinality(1 .. Len(context)) = Len(context)
      <4>1. /\ IsFiniteSet(1 .. Len(context))
            /\ Cardinality(1 .. Len(context)) =
                 IF 1 > Len(context) THEN 0 ELSE Len(context) - 1 + 1
        BY <2>3, FS_Interval, 1 \in Int, Len(context) \in Int
      <4>2. QED
        BY <2>3, <4>1
    <3>7. s.valid = 1 .. Len(context)
      BY <3>4, <3>5, <3>6, FS_Subset
    <3>8. QED
      BY <2>3, <3>2, <3>4, <3>7
  <2>6. ASSUME result.strategy = "recursive"
        PROVE  EnoughOf(context, Chars(context, ReadBelow))
    <3> DEFINE all == DOMAIN context
               cells == CellsOf(Delegated)
    <3>1. RecursiveCertificate.complete
      BY <2>2, <2>6 DEF Satisfied, Exhaustive
    <3>2. EnoughOf(context, Reached(context, Delegated))
      BY <3>1 DEF RecursiveCertificate
    <3>3. CellsOf(ToSet(Merged(Delegated))) = cells
      <4> DEFINE m == Merged(Delegated)
      <4>1. m \in Seq(Pairs) /\ CellsAmong(m, Len(m)) = cells
        BY DelegatedAre, MergedSpans
      <4> HIDE DEF m
      <4>2. ToSet(m) = {m[i] : i \in 1 .. Len(m)}
        BY <4>1 DEF ToSet
      <4>3. QED
        BY <4>1, <4>2 DEF CellsOf, CellsAmong, CellsIn, m
    <3>4. Reached(context, Delegated) = Chars(context, cells)
      BY <3>3 DEF Reached
    <3>5. cells \subseteq ReadBelow /\ ReadBelow \subseteq all
      BY CreditsWereRead
    <3>6. IsFiniteSet(all)
      BY <2>3, FS_Interval
    <3>7. \A i \in all : Weight(context, i) \in Nat
      BY <2>3, DelegationAssumption DEF DelegationAssumption, Texts, Cells, Weight
    <3> HIDE DEF all, cells
    <3>8. /\ Chars(context, cells) \in Nat /\ Chars(context, ReadBelow) \in Nat
          /\ Chars(context, cells) <= Chars(context, ReadBelow)
      BY <3>5, <3>6, <3>7, CharsGrow
    <3>9. Chars(context, all) \in Nat
      BY <3>6, <3>7, CharsGrow
    <3>10. 100 * Chars(context, cells) >= 98 * Chars(context, all)
      BY <3>2, <3>4 DEF EnoughOf, all
    <3>11. 100 * Chars(context, ReadBelow) >= 98 * Chars(context, all)
      BY <3>8, <3>9, <3>10
    <3>12. QED
      BY <3>11 DEF EnoughOf, all
  <2>7. QED
    BY <2>5, <2>6
<1>2. QED
  BY <1>1, Invariance, PTL
=============================================================================
