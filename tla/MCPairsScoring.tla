--------------------------- MODULE MCPairsScoring ---------------------------
(***************************************************************************)
(* Three users, two labels, three windows: a user with several records, an *)
(* instance that occurs twice, a preamble.  Answers of up to two items of  *)
(* every shape, in every form.                                             *)
(***************************************************************************)
EXTENDS PairsScoring

Rec(user, label, date, asked) ==
  [user |-> user, label |-> label, date |-> date, asked |-> asked]

MCSample ==
  << <<Preamble, Rec(1, "loc", 1, "q1"), Rec(2, "num", 2, "q2"), Rec(1, "num", 2, "q2"),
       Rec(3, "loc", 2, "q3")>>,
     <<Rec(2, "loc", 2, "q1"), Rec(3, "loc", 1, "q1"), Rec(1, "num", 1, "q3")>>,
     <<Preamble, Preamble, Rec(1, "loc", 2, "q1"), Rec(1, "loc", 1, "q3"),
       Rec(2, "loc", 2, "q2")>> >>

MCSpecs ==
  << [kind |-> "sym", any |-> {"loc"}, rule |-> NoRule],
     [kind |-> "asym", a |-> {[label |-> "loc", op |-> ">=", n |-> 1]},
      b |-> {[label |-> "num", op |-> "=", n |-> 1], [label |-> "loc", op |-> ">=", n |-> 0]}],
     [kind |-> "sym", any |-> {"loc", "num"},
      rule |-> [label |-> "loc", op |-> "after", when |-> 1]] >>

Written(shape, l, r) == [shape |-> shape, l |-> l, r |-> r]
Pairs == {<<1, 2>>, <<2, 1>>, <<1, 3>>}
Items == {Written(s, 1, 2) : s \in Shapes \ {"single", "prose"}}
           \cup {Written(s, 2, 1) : s \in {"paper", "bare"}} \cup {Written("paper", 1, 3)}
           \cup {Written("prose", 1, 0)} \cup {Written("single", n, 0) : n \in {1, 2}}
OfForm(form, items) == {[form |-> form, items |-> s] : s \in SeqOf(items, 2)}
MCValues ==
  {NoValue} \cup OfForm("lines", Items)
    \cup OfForm("pairs", {Written("repl", p[1], p[2]) : p \in Pairs \cup {<<2, 2>>}})
    \cup {v \in OfForm("strings", Items) : v.items # <<>>}
MCCandidates ==
  {[form |-> "lines", items |-> items] :
     items \in {<<>>, <<Written("paper", 1, 2)>>, <<Written("bare", 1, 2)>>,
                <<Written("paper", 1, 3), Written("paper", 1, 2)>>,
                <<Written("paper", 1, 3), Written("paper", 1, 3)>>}}

Spans == {<<0, 2>>, <<1, 2>>, <<2, 3>>, <<2, 4>>, <<4, 5>>}
MCRow == {[start |-> s[1], end |-> s[2], value |-> v] : s \in Spans, v \in {"loc", "num", "none"}}
Each == {[i \in 1 .. 5 |-> [start |-> i - 1, end |-> i, value |-> f[i]]] :
           f \in [1 .. 5 -> {"loc", "num", "none"}]}
MCRowTables ==
  {[scope |-> "context", intact |-> TRUE, rows |-> rows] : rows \in SeqOf(MCRow, 2) \cup Each}
    \cup {[scope |-> s, intact |-> b, rows |-> rows] :
            s \in {"context", "items"}, b \in {FALSE}, rows \in SeqOf(MCRow, 1)}
    \cup {[scope |-> "items", intact |-> TRUE, rows |-> rows] : rows \in SeqOf(MCRow, 1)}
MCCallLists ==
  SeqOf({[asked |-> q, says |-> v] : q \in {"q1", "q2", "q3"}, v \in {"loc", "num", "none"}}, 3)
=============================================================================
