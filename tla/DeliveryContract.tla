-------------------------- MODULE DeliveryContract --------------------------
(***************************************************************************)
(* What an episode promises whoever asked for an answer, without budgets,  *)
(* counters, stages or sweeps: no block runs while an earlier one's value  *)
(* is held, only a block that finished leaves one, what it leaves is read  *)
(* before the model is asked again, a value that can be resolved is then   *)
(* the answer and the end of it, and fewer than a fixed number of requests *)
(* come first.                                                             *)
(* EpisodeLoop implements it (EpisodeLoop!Contract).                       *)
(***************************************************************************)
EXTENDS Naturals

CONSTANTS
  Limit,      \* a natural number: requests an episode may send
  Values,     \* values a block may leave
  Dangling,   \* those that cannot be resolved
  NoValue

VARIABLES
  at,       \* "ask", "block", "observed", then "over"
  asked,    \* requests sent
  held,     \* the value the session holds
  clean,    \* history: values offered by blocks that finished
  outcome,  \* "open", then how the episode ended
  answer    \* the answer returned

vars == <<at, asked, held, clean, outcome, answer>>

Init ==
  /\ at = "ask" /\ asked = 0
  /\ held = NoValue /\ clean = {} /\ outcome = "open" /\ answer = NoValue

End(how, value) == at' = "over" /\ outcome' = how /\ answer' = value

Request == at = "ask" /\ asked < Limit /\ asked' = asked + 1

\* The reply runs a block, or something else to be observed, or nothing at all.
Ask ==
  /\ Request
  /\ at' \in {"block", "observed", "ask"}
  /\ UNCHANGED <<held, clean, outcome, answer>>

\* The reply is the end: a text, or nothing.
AskLast ==
  /\ Request
  /\ \E how \in {"text", "nothing"} : End(how, NoValue)
  /\ UNCHANGED <<held, clean>>

\* A block that did not raise leaves the value it offered.
Leave(value) ==
  /\ at = "block" /\ held = NoValue
  /\ at' = "observed"
  /\ held' = value /\ clean' = clean \cup {value}
  /\ UNCHANGED <<asked, outcome, answer>>

\* It raised, timed out, or offered nothing.
LeaveNothing ==
  /\ at = "block" /\ held = NoValue
  /\ at' = "observed"
  /\ UNCHANGED <<asked, held, clean, outcome, answer>>

\* The value held is the answer.
Hand ==
  /\ at = "observed" /\ held \in Values \ Dangling
  /\ End("value", held)
  /\ UNCHANGED <<asked, held, clean>>

\* There is none that can be resolved: the model is asked again.
Drop ==
  /\ at = "observed" /\ held \in Dangling \cup {NoValue}
  /\ at' = "ask" /\ held' = NoValue
  /\ UNCHANGED <<asked, clean, outcome, answer>>

GiveUp ==
  /\ at = "ask"
  /\ End("nothing", NoValue)
  /\ UNCHANGED <<asked, held, clean>>

\* The session or the server broke, and with it whatever was held.
Fail ==
  /\ at # "over"
  /\ End("error", NoValue)
  /\ held' = NoValue /\ UNCHANGED <<asked, clean>>

Next ==
  \/ Ask \/ AskLast
  \/ LeaveNothing \/ \E value \in Values : Leave(value)
  \/ Hand \/ Drop \/ GiveUp \/ Fail

Spec == Init /\ [][Next]_vars
=============================================================================
