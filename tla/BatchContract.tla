---------------------------- MODULE BatchContract ----------------------------
(***************************************************************************)
(* What a batch of sub-model calls promises its caller, without threads,   *)
(* windows or claims: at most `allowance` requests go out, every job is    *)
(* sent at most once, outcomes are handed over in the order of the jobs,   *)
(* nothing is sent behind the caller's back once its outcome was handed    *)
(* over, and an orderly end leaves no request without its outcome.         *)
(* SubcallScheduler implements it (SubcallScheduler!Contract).             *)
(***************************************************************************)
EXTENDS Naturals, Sequences, FiniteSets

CONSTANTS
  NumJobs,      \* a natural number: jobs are 1 .. NumJobs
  MaxSubcalls   \* a natural number

VARIABLES
  allowance,  \* requests this batch may send
  sent,       \* jobs whose request went out
  out,        \* jobs whose outcome the caller received, in order
  state       \* "open", then "complete" or "abandoned"

vars == <<allowance, sent, out, state>>

Handed == {out[a] : a \in DOMAIN out}

Init ==
  /\ allowance \in 0 .. MaxSubcalls
  /\ sent = {}
  /\ out = <<>>
  /\ state = "open"

Send(j) ==
  /\ state # "complete"
  /\ j \notin sent \cup Handed
  /\ Cardinality(sent) < allowance
  /\ sent' = sent \cup {j}
  /\ UNCHANGED <<allowance, out, state>>

\* The outcome of job j: an answer, or the reason there is none.
Hand(j) ==
  /\ state = "open"
  /\ \A h \in Handed : h < j
  /\ \A k \in sent : k < j => k \in Handed
  /\ out' = Append(out, j)
  /\ UNCHANGED <<allowance, sent, state>>

Complete ==
  /\ state = "open"
  /\ sent \subseteq Handed
  /\ state' = "complete"
  /\ UNCHANGED <<allowance, sent, out>>

\* The source of the jobs failed: the batch ends without its outcomes.
Abandon ==
  /\ state = "open"
  /\ state' = "abandoned"
  /\ UNCHANGED <<allowance, sent, out>>

Next ==
  \/ \E j \in 1 .. NumJobs : Send(j) \/ Hand(j)
  \/ Complete
  \/ Abandon

Spec == Init /\ [][Next]_vars
=============================================================================
