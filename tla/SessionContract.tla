-------------------------- MODULE SessionContract --------------------------
(***************************************************************************)
(* What a session promises whoever runs blocks in it, without processes,   *)
(* pipes, host calls and timers: the code of a block begins at most once,  *)
(* an observation is that of the block just given, made by the session it  *)
(* began in or, after a timeout, by the one that replaced it, and an error *)
(* ends the session for good.                                              *)
(* ReplSession implements it (ReplSession!Contract).                       *)
(***************************************************************************)
EXTENDS Naturals

VARIABLES
  given,     \* blocks given to the session
  state,     \* "idle", "given", "begun", "lost", then "over"
  sessions,  \* sessions that were lost; the number of the current one
  observed   \* the last observation: its block and its session

vars == <<given, state, sessions, observed>>

Init ==
  /\ given = 0 /\ state = "idle" /\ sessions = 0
  /\ observed = [block |-> 0, incarnation |-> 0]

\* A session that died since its last block is replaced first.
Give ==
  /\ state = "idle" /\ state' = "given"
  /\ given' = given + 1
  /\ sessions' \in {sessions, sessions + 1}
  /\ UNCHANGED observed

Begin ==
  /\ state = "given" /\ state' = "begun"
  /\ UNCHANGED <<given, sessions, observed>>

Observe == observed' = [block |-> given, incarnation |-> sessions]

\* The block ended, with or without an error of its own.
Return ==
  /\ state = "begun" /\ state' = "idle"
  /\ Observe /\ UNCHANGED <<given, sessions>>

\* The session dies under the block and is replaced.
Lose ==
  /\ state \in {"given", "begun"} /\ state' = "lost"
  /\ sessions' = sessions + 1
  /\ UNCHANGED <<given, observed>>

\* The timeout is what is observed of the block.
TimeOut ==
  /\ state = "lost" /\ state' = "idle"
  /\ Observe /\ UNCHANGED <<given, sessions>>

\* An error leaves execute, or the session is closed.
End ==
  /\ state # "over" /\ state' = "over"
  /\ UNCHANGED <<given, sessions, observed>>

Next == Give \/ Begin \/ Return \/ Lose \/ TimeOut \/ End

Spec == Init /\ [][Next]_vars
=============================================================================
