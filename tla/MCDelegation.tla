---------------------------- MODULE MCDelegation ----------------------------
(***************************************************************************)
(* Delegation for TLC: a context in which a large unit occurs twice, and   *)
(* one whose last unit is one character of a hundred.  A map of the        *)
(* context fails for one item; a search of it and a map of one item that   *)
(* the model supplied succeed.                                             *)
(***************************************************************************)
EXTENDS Delegation

MCContexts == {<<"a", "s", "a">>, <<"a", "b", "s">>}
MCWidth == [a |-> 49, b |-> 50, s |-> 1, x |-> 20]
MCMaxSweeps == <<2, 1, 1>>
MCOutcomes ==
  {[op |-> "semantic_map", scope |-> "context", missing |-> 1],
   [op |-> "semantic_search", scope |-> "context", missing |-> 0],
   [op |-> "semantic_map", scope |-> "items", missing |-> 0]}
MCForeign == <<"x">>
=============================================================================
