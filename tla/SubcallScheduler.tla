-------------------------- MODULE SubcallScheduler --------------------------
(***************************************************************************)
(* One batch of sub-model calls: SubcallScheduler.imap, the _run_job and   *)
(* _query that its pool threads run, and the part of the shared Ledger     *)
(* they touch (calls/scheduler.py, budgets.py).                            *)
(*                                                                         *)
(* One submitter (the host thread, inside imap) pulls jobs from a source,  *)
(* claims a subcall for each and hands it to a pool of Width threads; it   *)
(* collects the futures strictly in submission order.  Each submitted job  *)
(* is run by a thread of its own: it is refused before the wire (and gives *)
(* its claim back), or goes out and is answered or fails.                  *)
(*                                                                         *)
(* Jobs are numbered in the order the source yields them.  A reply is      *)
(* abstracted to the number of the job it belongs to, the text of a source *)
(* to whether validation accepts it.                                       *)
(***************************************************************************)
EXTENDS Naturals, Sequences, FiniteSets

CONSTANTS
  NumJobs,          \* jobs the source holds
  Width,            \* Budget.max_in_flight, already max(1, .)
  MaxSubcalls,      \* Budget.max_subcalls
  MaxTokens,        \* Budget.max_output_tokens
  MaxReply,         \* most output tokens of one reply (max_tokens)
  SourceMayRaise    \* may next(source) raise something but StopIteration?

ASSUME WindowAssumption ==
  /\ NumJobs \in Nat
  /\ Width \in Nat \ {0}
  /\ SourceMayRaise \in BOOLEAN

ASSUME LimitAssumption ==
  /\ MaxSubcalls \in Nat
  /\ MaxTokens \in Nat
  /\ MaxReply \in Nat \ {0}

Job == 1 .. NumJobs
NoJob == 0

VARIABLES
  pc,         \* where the submitter is in imap
  filling,    \* iterations left of `for _ in range(width)`; 0 in the while loop
  nextJob,    \* the job next(source) would return
  inFlight,   \* the list in_flight: futures submitted and not yet popped
  awaited,    \* the future popped from in_flight, NoJob when there is none
  replies,    \* what imap has yielded, as the jobs the replies belong to
  job,        \* what has become of each job
  halted,     \* imap's local `halted`
  raised,     \* did an exception of the source end the batch?
  peak,       \* imap's local `peak`
  spent,      \* Ledger.subcalls
  tokens,     \* Ledger.output_tokens
  timeUp,     \* Ledger.elapsed() >= max_seconds
  carried     \* history: Ledger.subcalls when the batch began

source    == <<nextJob, raised>>
submitter == <<pc, filling, inFlight, awaited, replies, halted, peak>>
ledger    == <<spent, tokens, timeUp>>
vars == <<source, submitter, job, ledger, carried>>

Claimed    == {j \in Job : job[j] \in {"queued", "wire", "answered", "failed"}}
Unfinished == {j \in Job : job[j] \in {"queued", "wire"}}
Paid       == {j \in Job : job[j] \in {"wire", "answered", "failed"}}
Yielded    == {replies[a] : a \in DOMAIN replies}
\* Jobs held in memory between the source and the caller.
Materialised ==
  {j \in Job : j < nextJob /\ job[j] # "dropped" /\ j \notin Yielded}
\* Mutant: a refused job never resolves its future.
FinishedOnWire(j) == job[j] \in {"answered", "failed"}

Finished(j) == job[j] \in {"refused", "answered", "failed"}

\* Mutant: the token budget is forgotten.
SubcallExhaustedNoTokens == timeUp \/ spent >= MaxSubcalls

\* Budget.subcall_exhausted; the node bound cannot change while a batch runs.
SubcallExhausted == timeUp \/ tokens >= MaxTokens \/ spent >= MaxSubcalls

Larger(a, b) == IF a > b THEN a ELSE b
-----------------------------------------------------------------------------
Init ==
  /\ pc = "pull"
  /\ filling = Width
  /\ nextJob = 1
  /\ inFlight = <<>>
  /\ awaited = NoJob
  /\ replies = <<>>
  /\ job = [j \in Job |-> "idle"]
  /\ halted = FALSE
  /\ raised = FALSE
  /\ peak = 0
  /\ carried \in 0 .. MaxSubcalls
  /\ spent = carried
  /\ tokens \in 0 .. MaxTokens
  /\ timeUp \in BOOLEAN

\* Mutant: the window is filled until the source or the budget ends.
AfterSubmitUnbounded(submitted) ==
  IF submitted
  THEN pc' = "pull" /\ filling' = filling
  ELSE pc' = "take" /\ filling' = 0

(***************************************************************************)
(* submit_next returned: the first loop goes on while it says True, the    *)
(* second one goes back to in_flight whatever it says.                     *)
(***************************************************************************)
AfterSubmit(submitted) ==
  IF submitted /\ filling > 1
  THEN pc' = "pull" /\ filling' = filling - 1
  ELSE pc' = "take" /\ filling' = 0

\* Mutant: the end of the source is noticed one job late.
PullJobPastEnd ==
  /\ pc = "pull"
  /\ nextJob <= NumJobs + 1
  /\ pc' = "check"
  /\ nextJob' = nextJob + 1
  /\ UNCHANGED <<filling, inFlight, awaited, replies, halted, peak, raised,
                 job, ledger, carried>>

\* submit_next: next(source) returns a job.
PullJob ==
  /\ pc = "pull"
  /\ nextJob <= NumJobs
  /\ pc' = "check"
  /\ nextJob' = nextJob + 1
  /\ UNCHANGED <<filling, inFlight, awaited, replies, halted, peak, raised,
                 job, ledger, carried>>

\* submit_next: next(source) raises StopIteration.
PullNothing ==
  /\ pc = "pull"
  /\ nextJob > NumJobs
  /\ AfterSubmit(FALSE)
  /\ UNCHANGED <<source, inFlight, awaited, replies, halted, peak,
                 job, ledger, carried>>

(***************************************************************************)
(* submit_next: next(source) raises anything else (a generator in the      *)
(* worker process that failed arrives as ReplError).  Nothing catches it   *)
(* here: it leaves imap through `finally`, and query_batched with it.      *)
(***************************************************************************)
PullRaises ==
  /\ SourceMayRaise
  /\ pc = "pull"
  /\ raised' = TRUE
  /\ pc' = "closing"
  /\ UNCHANGED <<filling, inFlight, awaited, replies, halted, peak, nextJob,
                 job, ledger, carried>>

\* submit_next, out of budget: the job is dropped, the batch goes on.
Halt ==
  /\ halted' = TRUE
  /\ job' = [job EXCEPT ![nextJob - 1] = "dropped"]
  /\ AfterSubmit(FALSE)
  /\ UNCHANGED <<inFlight, awaited, replies, peak, source,
                 ledger, carried>>

\* submit_next: `self.budget.subcall_exhausted()`, read without the lock.
CheckBudget ==
  /\ pc = "check"
  /\ \/ /\ SubcallExhausted
        /\ Halt
     \/ /\ ~SubcallExhausted
        /\ pc' = "claim"
        /\ UNCHANGED <<filling, inFlight, awaited, replies, halted, peak,
                       source, job, ledger, carried>>

(***************************************************************************)
(* submit_next: Ledger.reserve_subcall, then pool.submit of the claimed    *)
(* job.  Its refusal is no branch here: claims are made by this thread     *)
(* alone and the pool's threads only give them back, so a check that       *)
(* passed cannot be followed by a refusal (ClaimIsGranted).                *)
(***************************************************************************)
Claim ==
  /\ pc = "claim"
  /\ spent < MaxSubcalls
  /\ spent' = spent + 1
  /\ job' = [job EXCEPT ![nextJob - 1] = "queued"]
  /\ inFlight' = Append(inFlight, nextJob - 1)
  /\ peak' = Larger(peak, Len(inFlight) + 1)
  /\ AfterSubmit(TRUE)
  /\ UNCHANGED <<awaited, replies, halted, source, tokens, timeUp,
                 carried>>

\* `while in_flight: future = in_flight.pop(0)`, or the end of the loop.
Take ==
  /\ pc = "take"
  /\ \/ /\ inFlight # <<>>
        /\ awaited' = Head(inFlight)
        /\ inFlight' = Tail(inFlight)
        /\ pc' = "await"
     \/ /\ inFlight = <<>>
        /\ pc' = "closing"
        /\ UNCHANGED <<awaited, inFlight>>
  /\ UNCHANGED <<filling, replies, halted, peak, source, job,
                 ledger, carried>>

\* Mutant: the future is yielded from without waiting for it.
CollectAtOnce ==
  /\ pc = "await"
  /\ replies' = Append(replies, awaited)
  /\ awaited' = NoJob
  /\ pc' = "pull"
  /\ UNCHANGED <<filling, inFlight, halted, peak, source, job,
                 ledger, carried>>

(***************************************************************************)
(* `yield future.result()`, or the "ERROR: ..." string of a job that       *)
(* raised, then submit_next once more.  A claimed job never raises         *)
(* BudgetExceeded (_query checks the budget only when nothing is           *)
(* reserved), so that handler is not reachable here.                       *)
(***************************************************************************)
Collect ==
  /\ pc = "await"
  /\ Finished(awaited)
  /\ replies' = Append(replies, awaited)
  /\ awaited' = NoJob
  /\ pc' = "pull"
  /\ UNCHANGED <<filling, inFlight, halted, peak, source, job,
                 ledger, carried>>

\* `finally`, and the executor's exit, which waits for every thread.
Close ==
  /\ pc = "closing"
  /\ Unfinished = {}
  /\ pc' = "done"
  /\ UNCHANGED <<filling, inFlight, awaited, replies, halted, peak, source,
                 job, ledger, carried>>
-----------------------------------------------------------------------------
\* Mutant: a refused job keeps its claim.
RefuseKeepsClaim(j) ==
  /\ job[j] = "queued"
  /\ job' = [job EXCEPT ![j] = "refused"]
  /\ UNCHANGED <<submitter, source, ledger, carried>>

(***************************************************************************)
(* _run_job/_query on a pool thread.  A job of the wrong shape, and one    *)
(* whose source is missing, empty or too large, gives its claim back.      *)
(***************************************************************************)
Refuse(j) ==
  /\ job[j] = "queued"
  /\ job' = [job EXCEPT ![j] = "refused"]
  /\ spent' = IF spent > 0 THEN spent - 1 ELSE 0
  /\ UNCHANGED <<submitter, source, tokens, timeUp, carried>>

\* _query reaches self.client.complete.
Issue(j) ==
  /\ job[j] = "queued"
  /\ job' = [job EXCEPT ![j] = "wire"]
  /\ UNCHANGED <<submitter, source, ledger, carried>>

\* client.complete returned: the tokens are added and the future resolves.
Answer(j) ==
  /\ job[j] = "wire"
  /\ job' = [job EXCEPT ![j] = "answered"]
  /\ \E used \in 0 .. MaxReply : tokens' = tokens + used
  /\ UNCHANGED <<submitter, source, spent, timeUp, carried>>

\* client.complete raised: zero tokens, RuntimeError in the future.
Fail(j) ==
  /\ job[j] = "wire"
  /\ job' = [job EXCEPT ![j] = "failed"]
  /\ UNCHANGED <<submitter, source, ledger, carried>>

Worker(j) == Refuse(j) \/ Issue(j) \/ Answer(j) \/ Fail(j)

\* The clock passes max_seconds, at any moment of the batch.
ClockRunsOut ==
  /\ pc # "done"
  /\ ~timeUp
  /\ timeUp' = TRUE
  /\ UNCHANGED <<submitter, source, job, spent, tokens, carried>>

Submitter ==
  PullJob \/ PullNothing \/ PullRaises \/ CheckBudget \/ Claim \/ Take
  \/ Collect \/ Close

\* The batch is over; its caller goes on without it.
Done == pc = "done" /\ UNCHANGED vars

Next == Submitter \/ (\E j \in Job : Worker(j)) \/ ClockRunsOut \/ Done

Spec == Init /\ [][Next]_vars

(***************************************************************************)
(* The operating system runs every thread that can run, and a completion   *)
(* request returns or times out.  The clock need not run out.              *)
(***************************************************************************)
FairSpec == Spec /\ WF_vars(Submitter) /\ \A j \in Job : WF_vars(Worker(j))
-----------------------------------------------------------------------------
\* TypeOK: the type invariant of one batch (imap's locals and the ledger).
TypeOK ==
  /\ pc \in {"pull", "check", "claim", "take", "await", "closing", "done"}
  /\ filling \in 0 .. Width
  /\ nextJob \in 1 .. NumJobs + 1
  /\ inFlight \in Seq(Job)
  /\ awaited \in Job \cup {NoJob}
  /\ replies \in Seq(Job)
  /\ job \in [Job -> {"idle", "dropped", "queued", "wire", "refused",
                      "answered", "failed"}]
  /\ halted \in BOOLEAN
  /\ raised \in BOOLEAN
  /\ peak \in Nat
  /\ spent \in Nat
  /\ tokens \in Nat
  /\ timeUp \in BOOLEAN
  /\ carried \in 0 .. MaxSubcalls

(***************************************************************************)
(* The guarantee reserve_subcall exists for: however the threads           *)
(* interleave, requests sent in this batch and subcalls spent before it    *)
(* never exceed the limit, although claims are given back concurrently.    *)
(***************************************************************************)
LimitHolds == carried + Cardinality(Paid) <= MaxSubcalls

(***************************************************************************)
(* The ledger's counter is exact at every step: what it held before, plus  *)
(* one for each job that holds a claim; a job refused before the wire is   *)
(* not charged, once, and no other job's charge is given back for it.      *)
(***************************************************************************)
ChargeIsExact == spent = carried + Cardinality(Claimed)

(***************************************************************************)
(* max_in_flight is "a limit on materialisation, not only on execution"    *)
(* (budgets.py): the jobs read from the source and neither answered to the *)
(* caller nor turned away never exceed the window, and every job a thread  *)
(* still works on is one of them, the early returns of a halted batch and  *)
(* the refusals that free a slot included.                                 *)
(***************************************************************************)
WindowHolds ==
  /\ Cardinality(Materialised) <= Width
  /\ Unfinished \subseteq Materialised

(***************************************************************************)
(* Checking the budget and claiming a subcall are two steps, the first     *)
(* without the lock.  Whatever the threads do in between, a claim that the *)
(* check let through is granted.                                           *)
(***************************************************************************)
ClaimIsGranted == pc = "claim" => spent < MaxSubcalls

(***************************************************************************)
(* The allowance is kept (budgets.py): the limit holds on the wire, the    *)
(* counter is exact, and a check is never followed by a refused claim.     *)
(***************************************************************************)
AllowanceKept == LimitHolds /\ ChargeIsExact /\ ClaimIsGranted

(***************************************************************************)
(* Replies come back in the order of their jobs, each job at most once,    *)
(* and only for a job that was submitted and has finished: a job the       *)
(* budget turned away leaves no reply slot to be mistaken for one.         *)
(***************************************************************************)
RepliesInOrder ==
  /\ \A a, b \in DOMAIN replies : a < b => replies[a] < replies[b]
  /\ \A a \in DOMAIN replies : Finished(replies[a])

(***************************************************************************)
(* "A paid subcall is never invisible to the caller" (tests/test_suite.py):*)
(* when a batch ends in order, on its last job or on the budget, every     *)
(* request that went out has handed its reply to the caller.               *)
(***************************************************************************)
PaidIsDelivered == pc = "done" /\ ~raised => Paid \subseteq Yielded

(***************************************************************************)
(* The token budget is checked before a claim and settled after the reply, *)
(* so it can be overrun, but by at most one window of replies: the check   *)
(* may be stale, never by more than the jobs already on their way.         *)
(***************************************************************************)
TokenOverrunBounded == tokens < MaxTokens + Width * MaxReply

(***************************************************************************)
(* Under fair scheduling a batch ends: in particular its collector never   *)
(* waits for a future that nobody will resolve.                            *)
(***************************************************************************)
BatchEnds == <>(pc = "done")

(***************************************************************************)
(* The batch implements its contract: BatchContract forgets the threads,   *)
(* the window, the claims and the jobs the budget turned away.             *)
(***************************************************************************)
BC == INSTANCE BatchContract WITH
        allowance <- MaxSubcalls - carried,
        sent <- Paid,
        out <- replies,
        state <- IF raised THEN "abandoned"
                 ELSE IF pc = "done" THEN "complete" ELSE "open"

Contract == BC!Spec
-----------------------------------------------------------------------------
(***************************************************************************)
(* What the rest of the repository says of a batch, and imap does not do.  *)
(* repl/worker.py reports a short batch to the model as "the replies you   *)
(* have cover only the first N jobs", and semantic.run pairs fragments and *)
(* replies by position: both need the submitted jobs to be a prefix.       *)
(***************************************************************************)
RepliesArePrefix == \A a \in DOMAIN replies : replies[a] = a
=============================================================================
