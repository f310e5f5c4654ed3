----------------------- MODULE SubcallScheduler_proofs -----------------------
(***************************************************************************)
(* Proofs about one batch of sub-model calls, for every number of jobs,    *)
(* window width and limit.                                                 *)
(***************************************************************************)
EXTENDS SubcallScheduler, FiniteSetTheorems, SequenceTheorems, TLAPS

Pcs == {"pull", "check", "claim", "take", "await", "closing", "done"}
Fates == {"idle", "dropped", "queued", "wire", "refused", "answered", "failed"}

(***************************************************************************)
(* The phases of the submitter: where a future is awaited, where a job is  *)
(* in hand, and how full the window can be.                                *)
(***************************************************************************)
Phases ==
  /\ pc = "await" <=> awaited # NoJob
  /\ pc \in {"check", "claim"} => nextJob > 1
  /\ pc \in {"take", "await"} => filling = 0
  /\ raised => pc \in {"closing", "done"}
  /\ pc \in {"closing", "done"} /\ ~raised => inFlight = <<>>
  /\ pc = "done" => Unfinished = {}

\* The oldest job that has no fate yet: the one in hand, or the next one.
Frontier == IF pc \in {"check", "claim"} THEN nextJob - 1 ELSE nextJob

\* The three places of a submitted job, each behind the next in job order.
Pipeline ==
  /\ \A a, b \in DOMAIN inFlight : a < b => inFlight[a] < inFlight[b]
  /\ \A a, b \in DOMAIN replies : a < b => replies[a] < replies[b]
  /\ \A a \in DOMAIN inFlight : inFlight[a] < Frontier
  /\ \A a \in DOMAIN replies : replies[a] < Frontier
  /\ \A a \in DOMAIN replies, b \in DOMAIN inFlight : replies[a] < inFlight[b]
  /\ awaited # NoJob =>
       /\ awaited < Frontier
       /\ \A a \in DOMAIN inFlight : awaited < inFlight[a]
       /\ \A a \in DOMAIN replies : replies[a] < awaited

\* What has become of a job is told by where it is.
Places ==
  /\ \A j \in Job : job[j] = "idle" <=> j >= Frontier
  /\ \A a \in DOMAIN inFlight : job[inFlight[a]] # "dropped"
  /\ awaited # NoJob => job[awaited] # "dropped"
  /\ \A a \in DOMAIN replies : Finished(replies[a])
  /\ \A j \in Job : job[j] \notin {"idle", "dropped"} =>
       \/ awaited = j
       \/ \E a \in DOMAIN inFlight : inFlight[a] = j
       \/ \E a \in DOMAIN replies : replies[a] = j

LEMMA JobIsFinite == IsFiniteSet(Job)
  BY FS_Interval, WindowAssumption DEF WindowAssumption, Job

(***************************************************************************)
(* pop(0) on the window: its first future, and what stays behind.          *)
(***************************************************************************)
LEMMA PopFirst ==
  ASSUME TypeOK, inFlight # <<>>
  PROVE  /\ Len(inFlight) \in Nat \ {0}
         /\ DOMAIN inFlight = 1 .. Len(inFlight)
         /\ 1 \in DOMAIN inFlight
         /\ Head(inFlight) = inFlight[1]
         /\ Head(inFlight) \in Job
         /\ Tail(inFlight) \in Seq(Job)
         /\ DOMAIN Tail(inFlight) = 1 .. (Len(inFlight) - 1)
         /\ \A a \in DOMAIN Tail(inFlight) :
              /\ a + 1 \in DOMAIN inFlight
              /\ Tail(inFlight)[a] = inFlight[a + 1]
<1>1. inFlight \in Seq(Job)
  BY DEF TypeOK
<1>2. Len(inFlight) \in Nat \ {0} /\ DOMAIN inFlight = 1 .. Len(inFlight)
  BY <1>1, EmptySeq, LenProperties
<1>3. /\ Head(inFlight) \in Job
      /\ Tail(inFlight) \in Seq(Job)
      /\ Len(Tail(inFlight)) = Len(inFlight) - 1
      /\ \A a \in 1 .. Len(Tail(inFlight)) : Tail(inFlight)[a] = inFlight[a + 1]
  BY <1>1, HeadTailProperties
<1>4. DOMAIN Tail(inFlight) = 1 .. (Len(inFlight) - 1)
  BY <1>3, LenProperties
<1>5. Head(inFlight) = inFlight[1]
  BY <1>1, <1>2
<1>6. QED
  BY <1>2, <1>3, <1>4, <1>5

(***************************************************************************)
(* list.append on a sequence of jobs, as both in_flight and replies use it.*)
(***************************************************************************)
LEMMA AppendLast ==
  ASSUME NEW s \in Seq(Job), NEW j \in Job
  PROVE  /\ Append(s, j) \in Seq(Job)
         /\ DOMAIN s = 1 .. Len(s)
         /\ Len(s) \in Nat
         /\ DOMAIN Append(s, j) = 1 .. (Len(s) + 1)
         /\ \A a \in DOMAIN s : Append(s, j)[a] = s[a]
         /\ Append(s, j)[Len(s) + 1] = j
  OBVIOUS

(***************************************************************************)
(* The type invariant, for every window and every limit.                   *)
(***************************************************************************)
LEMMA TypeInit == Init => TypeOK
<1> SUFFICES ASSUME Init PROVE TypeOK
  OBVIOUS
<1> USE WindowAssumption, LimitAssumption
        DEF WindowAssumption, LimitAssumption, Init, Job, NoJob
<1>1. pc \in Pcs /\ filling \in 0 .. Width /\ nextJob \in 1 .. NumJobs + 1
  BY DEF Pcs
<1>2. inFlight \in Seq(Job) /\ replies \in Seq(Job)
  OBVIOUS
<1>3. job \in [Job -> Fates]
  BY DEF Fates
<1>4. spent \in Nat /\ tokens \in Nat /\ peak \in Nat
  OBVIOUS
<1>5. QED
  BY <1>1, <1>2, <1>3, <1>4 DEF TypeOK, Pcs, Fates

LEMMA TypeStep == TypeOK /\ Phases /\ [Next]_vars => TypeOK'
<1> SUFFICES ASSUME TypeOK, Phases, [Next]_vars PROVE TypeOK'
  OBVIOUS
<1> USE WindowAssumption, LimitAssumption
        DEF WindowAssumption, LimitAssumption, TypeOK, Job, NoJob, source, submitter, ledger
<1>1. CASE PullJob
  BY <1>1 DEF PullJob
<1>2. CASE PullNothing
  BY <1>2 DEF PullNothing, AfterSubmit
<1>3. CASE PullRaises
  BY <1>3 DEF PullRaises
<1>4. CASE CheckBudget
  <2>1. CASE pc' = "claim" /\ UNCHANGED <<filling, inFlight, awaited, replies,
                    halted, peak, source, job, ledger, carried>>
    BY <2>1
  <2>2. CASE Halt
    <3>1. job' \in [Job -> Fates]
      BY <2>2 DEF Halt, Fates
    <3>2. pc' \in Pcs /\ filling' \in 0 .. Width
      BY <2>2 DEF Halt, AfterSubmit, Pcs
    <3>3. QED
      BY <2>2, <3>1, <3>2 DEF Halt, Pcs, Fates
  <2>3. QED
    BY <1>4, <2>1, <2>2 DEF CheckBudget
<1>5. CASE Claim
  <2>1. nextJob - 1 \in Job
    BY <1>5 DEF Claim, Phases
  <2>2. inFlight' \in Seq(Job) /\ peak' \in Nat
    BY <1>5, <2>1 DEF Claim, Larger
  <2>3. QED
    BY <1>5, <2>2 DEF Claim, AfterSubmit
<1>6. CASE Take
  <2>1. awaited' \in Job \cup {NoJob} /\ inFlight' \in Seq(Job)
    BY <1>6, PopFirst DEF Take
  <2>2. QED
    BY <1>6, <2>1 DEF Take
<1>7. CASE Collect
  <2>1. awaited \in Job
    BY <1>7 DEF Collect, Phases
  <2>2. QED
    BY <1>7, <2>1 DEF Collect
<1>8. CASE Close
  BY <1>8 DEF Close
<1>9. ASSUME NEW j \in Job, Worker(j) PROVE TypeOK'
  <2>1. job' \in [Job -> Fates]
    BY <1>9 DEF Worker, Refuse, Issue, Answer, Fail, Fates
  <2>2. spent' \in Nat /\ tokens' \in Nat
    BY <1>9 DEF Worker, Refuse, Issue, Answer, Fail
  <2>3. UNCHANGED <<submitter, source, timeUp, carried>>
    BY <1>9 DEF Worker, Refuse, Issue, Answer, Fail
  <2>4. QED
    BY <2>1, <2>2, <2>3 DEF Fates
<1>10. CASE ClockRunsOut
  BY <1>10 DEF ClockRunsOut
<1>11. CASE UNCHANGED vars
  BY <1>11 DEF vars
<1>12. QED
  BY <1>1, <1>2, <1>3, <1>4, <1>5, <1>6, <1>7, <1>8, <1>9, <1>10, <1>11
  DEF Next, Submitter, Done

LEMMA PhasesInit == Init => Phases
  BY DEF Init, Phases, NoJob

LEMMA PhasesStep == TypeOK /\ Phases /\ [Next]_vars => Phases'
<1> SUFFICES ASSUME TypeOK, Phases, [Next]_vars PROVE Phases'
  OBVIOUS
<1> USE DEF Phases, source, submitter, ledger
<1>1. CASE PullJob
  BY <1>1 DEF PullJob, TypeOK
<1>2. CASE PullNothing
  BY <1>2 DEF PullNothing, AfterSubmit
<1>3. CASE PullRaises
  BY <1>3 DEF PullRaises
<1>4. CASE CheckBudget
  <2>1. CASE pc' = "claim" /\ UNCHANGED <<filling, inFlight, awaited, replies,
                    halted, peak, source, job, ledger, carried>>
    BY <1>4, <2>1 DEF CheckBudget
  <2>2. CASE Halt
    BY <1>4, <2>2 DEF CheckBudget, Halt, AfterSubmit
  <2>3. QED
    BY <1>4, <2>1, <2>2 DEF CheckBudget
<1>5. CASE Claim
  BY <1>5 DEF Claim, AfterSubmit
<1>6. CASE Take
  BY <1>6, PopFirst DEF Take, Job, NoJob
<1>7. CASE Collect
  BY <1>7 DEF Collect
<1>8. CASE Close
  BY <1>8 DEF Close, Unfinished
<1>9. ASSUME NEW j \in Job, Worker(j) PROVE Phases'
  <2>1. UNCHANGED <<submitter, source>>
    BY <1>9 DEF Worker, Refuse, Issue, Answer, Fail
  <2>2. j \in Unfinished
    BY <1>9 DEF Worker, Refuse, Issue, Answer, Fail, Unfinished
  <2>3. QED
    BY <2>1, <2>2
<1>10. CASE ClockRunsOut
  BY <1>10 DEF ClockRunsOut, Unfinished
<1>11. CASE UNCHANGED vars
  BY <1>11 DEF vars, Unfinished
<1>12. QED
  BY <1>1, <1>2, <1>3, <1>4, <1>5, <1>6, <1>7, <1>8, <1>9, <1>10, <1>11
  DEF Next, Submitter, Done

(***************************************************************************)
(* Every variable of a batch always holds a value the code can give it.    *)
(***************************************************************************)
THEOREM TypeCorrect == Spec => [](TypeOK /\ Phases)
<1>1. Init => TypeOK /\ Phases
  BY TypeInit, PhasesInit
<1>2. TypeOK /\ Phases /\ [Next]_vars => (TypeOK /\ Phases)'
  BY TypeStep, PhasesStep
<1>3. QED
  BY <1>1, <1>2, PTL DEF Spec

\* The job in hand between pulling it and claiming for it.
LEMMA InHand ==
  ASSUME TypeOK, Phases, pc \in {"check", "claim"}
  PROVE  /\ nextJob - 1 \in Job
         /\ Frontier = nextJob - 1
         /\ awaited = NoJob
<1>1. nextJob \in 1 .. NumJobs + 1 /\ nextJob > 1 /\ NumJobs \in Nat
  BY WindowAssumption DEF WindowAssumption, TypeOK, Phases
<1>2. pc # "await"
  OBVIOUS
<1>3. QED
  BY <1>1, <1>2 DEF Frontier, Phases, Job

LEMMA PipelineInit == Init => Pipeline
  BY DEF Init, Pipeline, NoJob

LEMMA PipelineStep ==
  TypeOK /\ Phases /\ Pipeline /\ [Next]_vars => Pipeline'
<1> SUFFICES ASSUME TypeOK, Phases, Pipeline, [Next]_vars PROVE Pipeline'
  OBVIOUS
<1> USE DEF source, submitter, ledger
<1>0. /\ inFlight \in Seq(Job) /\ replies \in Seq(Job) /\ nextJob \in Nat
      /\ Job \subseteq Nat /\ NoJob \in Nat /\ Frontier \in Int
  BY WindowAssumption DEF WindowAssumption, TypeOK, Job, NoJob, Frontier
<1>a. /\ \A a \in DOMAIN inFlight : inFlight[a] \in Nat
      /\ \A a \in DOMAIN replies : replies[a] \in Nat
      /\ awaited \in Nat
  BY <1>0, ElementOfSeq, LenProperties DEF TypeOK
<1>b. ASSUME UNCHANGED <<inFlight, awaited, replies>>, Frontier' >= Frontier,
             Frontier' \in Int
      PROVE  Pipeline'
  BY <1>0, <1>a, <1>b DEF Pipeline, Frontier
<1>1. CASE PullJob
  BY <1>0, <1>1, <1>b DEF PullJob, Frontier
<1>2. CASE PullNothing
  BY <1>0, <1>2, <1>b DEF PullNothing, AfterSubmit, Frontier
<1>3. CASE PullRaises
  BY <1>0, <1>3, <1>b DEF PullRaises, Frontier
<1>4. CASE CheckBudget
  BY <1>0, <1>4, <1>b DEF CheckBudget, Halt, AfterSubmit, Frontier
<1>5. CASE Claim
  <2> DEFINE j == nextJob - 1
  <2>1. /\ j \in Job /\ Frontier = j /\ Frontier' = nextJob
        /\ awaited = NoJob /\ UNCHANGED <<awaited, replies>>
        /\ inFlight' = Append(inFlight, j)
    BY <1>5, InHand DEF Claim, Frontier, AfterSubmit
  <2>2. /\ DOMAIN inFlight' = 1 .. (Len(inFlight) + 1)
        /\ \A a \in DOMAIN inFlight : inFlight'[a] = inFlight[a]
        /\ inFlight'[Len(inFlight) + 1] = j
        /\ DOMAIN inFlight = 1 .. Len(inFlight)
        /\ Len(inFlight) \in Nat
    BY <1>0, <2>1, AppendLast
  <2>3. \A a \in DOMAIN inFlight' :
          \/ a \in DOMAIN inFlight /\ inFlight'[a] = inFlight[a]
          \/ a = Len(inFlight) + 1 /\ inFlight'[a] = j
    BY <2>2
  <2> HIDE DEF j
  <2>4. \A a, b \in DOMAIN inFlight' : a < b => inFlight'[a] < inFlight'[b]
    BY <2>1, <2>2, <2>3 DEF Pipeline
  <2>5. \A a \in DOMAIN inFlight' : inFlight'[a] < Frontier'
    BY <1>0, <1>a, <2>1, <2>3 DEF Pipeline, j
  <2>6. \A a \in DOMAIN replies : replies[a] < Frontier'
    BY <1>0, <1>a, <2>1 DEF Pipeline, j
  <2>7. \A a \in DOMAIN replies, b \in DOMAIN inFlight' :
          replies[a] < inFlight'[b]
    BY <2>1, <2>3 DEF Pipeline
  <2>8. QED
    BY <2>1, <2>4, <2>5, <2>6, <2>7 DEF Pipeline
<1>6. CASE Take
  <2>1. Frontier' = Frontier
    BY <1>6 DEF Take, Frontier
  <2>2. CASE inFlight = <<>>
    <3>1. UNCHANGED <<inFlight, awaited, replies>>
      BY <1>6, <2>2 DEF Take
    <3>2. QED
      BY <1>0, <2>1, <3>1, <1>b DEF Frontier
  <2>3. CASE inFlight # <<>>
    <3>1. /\ awaited' = inFlight[1] /\ awaited = NoJob
          /\ inFlight' = Tail(inFlight) /\ replies' = replies
      BY <1>6, <2>3, PopFirst DEF Take, Phases
    <3>2. /\ 1 \in DOMAIN inFlight
          /\ DOMAIN inFlight = 1 .. Len(inFlight)
          /\ Len(inFlight) \in Nat
          /\ DOMAIN inFlight' = 1 .. (Len(inFlight) - 1)
          /\ \A a \in DOMAIN inFlight' :
               a + 1 \in DOMAIN inFlight /\ inFlight'[a] = inFlight[a + 1]
      BY <2>3, <3>1, PopFirst
    <3>3. \A a, b \in DOMAIN inFlight' : a < b => inFlight'[a] < inFlight'[b]
      BY <3>2 DEF Pipeline
    <3>4. \A a \in DOMAIN inFlight' : awaited' < inFlight'[a]
      BY <3>1, <3>2 DEF Pipeline
    <3>5. QED
      BY <2>1, <3>1, <3>2, <3>3, <3>4 DEF Pipeline
  <2>4. QED
    BY <2>2, <2>3
<1>7. CASE Collect
  <2>1. /\ awaited \in Job /\ awaited # NoJob /\ Frontier' = Frontier
        /\ awaited' = NoJob /\ inFlight' = inFlight
        /\ replies' = Append(replies, awaited)
    BY <1>7 DEF Collect, Phases, Frontier, TypeOK
  <2>2. /\ DOMAIN replies' = 1 .. (Len(replies) + 1)
        /\ \A a \in DOMAIN replies : replies'[a] = replies[a]
        /\ replies'[Len(replies) + 1] = awaited
        /\ DOMAIN replies = 1 .. Len(replies)
        /\ Len(replies) \in Nat
    BY <1>0, <2>1, AppendLast
  <2>3. \A a \in DOMAIN replies' :
          \/ a \in DOMAIN replies /\ replies'[a] = replies[a]
          \/ a = Len(replies) + 1 /\ replies'[a] = awaited
    BY <2>2
  <2>4. \A a, b \in DOMAIN replies' : a < b => replies'[a] < replies'[b]
    BY <2>1, <2>2, <2>3 DEF Pipeline
  <2>5. QED
    BY <2>1, <2>3, <2>4 DEF Pipeline
<1>8. CASE Close
  BY <1>0, <1>8, <1>b DEF Close, Frontier
<1>9. ASSUME NEW j \in Job, Worker(j) PROVE Pipeline'
  <2>1. UNCHANGED <<submitter, source>>
    BY <1>9 DEF Worker, Refuse, Issue, Answer, Fail
  <2>2. QED
    BY <1>0, <2>1, <1>b DEF Frontier
<1>10. CASE ClockRunsOut
  BY <1>0, <1>10, <1>b DEF ClockRunsOut, Frontier
<1>11. CASE UNCHANGED vars
  BY <1>0, <1>11, <1>b DEF vars, Frontier
<1>12. QED
  BY <1>1, <1>2, <1>3, <1>4, <1>5, <1>6, <1>7, <1>8, <1>9, <1>10, <1>11
  DEF Next, Submitter, Done

LEMMA PlacesInit == Init => Places
  BY DEF Init, Places, Frontier, NoJob, Job

LEMMA PlacesStep ==
  TypeOK /\ Phases /\ Pipeline /\ Places /\ [Next]_vars => Places'
<1> SUFFICES ASSUME TypeOK, Phases, Pipeline, Places, [Next]_vars
             PROVE  Places'
  OBVIOUS
<1> USE DEF source, submitter, ledger
<1>0. /\ inFlight \in Seq(Job) /\ replies \in Seq(Job) /\ nextJob \in Nat
      /\ Job \subseteq Nat /\ NoJob \notin Job
  BY WindowAssumption DEF WindowAssumption, TypeOK, Job, NoJob
<1>a. /\ \A a \in DOMAIN inFlight : inFlight[a] \in Job
      /\ \A a \in DOMAIN replies : replies[a] \in Job
      /\ awaited \in Job \cup {NoJob}
  BY <1>0, ElementOfSeq, LenProperties DEF TypeOK
<1>b. ASSUME UNCHANGED <<inFlight, awaited, replies, job>>, Frontier' = Frontier
      PROVE  Places'
  BY <1>b DEF Places, Finished
<1>1. CASE PullJob
  BY <1>0, <1>1, <1>b DEF PullJob, Frontier
<1>2. CASE PullNothing
  BY <1>2, <1>b DEF PullNothing, AfterSubmit, Frontier
<1>3. CASE PullRaises
  BY <1>3, <1>b DEF PullRaises, Frontier
<1>4. CASE CheckBudget
  <2>1. CASE pc' = "claim" /\ UNCHANGED <<filling, inFlight, awaited, replies,
                    halted, peak, source, job, ledger, carried>>
    BY <1>4, <2>1, <1>b DEF CheckBudget, Frontier
  <2>2. CASE Halt
    <3> DEFINE h == nextJob - 1
    <3>1. /\ h \in Job /\ Frontier = h /\ Frontier' = nextJob
          /\ awaited = NoJob /\ UNCHANGED <<inFlight, awaited, replies>>
          /\ job' = [job EXCEPT ![h] = "dropped"]
      BY <1>4, <2>2, InHand DEF CheckBudget, Halt, AfterSubmit, Frontier
    <3>2. \A k \in Job : k # h => job'[k] = job[k]
      BY <3>1 DEF TypeOK
    <3>3. job'[h] = "dropped"
      BY <3>1 DEF TypeOK
    <3>4. \A k \in Job : job'[k] = "idle" <=> k >= Frontier'
      BY <1>0, <3>1, <3>2, <3>3 DEF Places
    <3>5. /\ \A a \in DOMAIN inFlight : inFlight[a] # h
          /\ \A a \in DOMAIN replies : replies[a] # h
      BY <1>0, <1>a, <3>1 DEF Pipeline
    <3> HIDE DEF h
    <3>6. QED
      BY <1>0, <1>a, <3>1, <3>2, <3>3, <3>4, <3>5 DEF Places, Finished
  <2>3. QED
    BY <1>4, <2>1, <2>2 DEF CheckBudget
<1>5. CASE Claim
  <2> DEFINE h == nextJob - 1
  <2>1. /\ h \in Job /\ Frontier = h /\ Frontier' = nextJob
        /\ awaited = NoJob /\ UNCHANGED <<awaited, replies>>
        /\ inFlight' = Append(inFlight, h)
        /\ job' = [job EXCEPT ![h] = "queued"]
    BY <1>5, InHand DEF Claim, Frontier, AfterSubmit
  <2>2. /\ \A k \in Job : k # h => job'[k] = job[k]
        /\ job'[h] = "queued"
    BY <2>1 DEF TypeOK
  <2>3. /\ DOMAIN inFlight' = 1 .. (Len(inFlight) + 1)
        /\ \A a \in DOMAIN inFlight : inFlight'[a] = inFlight[a]
        /\ inFlight'[Len(inFlight) + 1] = h
        /\ DOMAIN inFlight = 1 .. Len(inFlight)
        /\ Len(inFlight) \in Nat
    BY <1>0, <2>1, AppendLast
  <2>4. \A k \in Job : job'[k] = "idle" <=> k >= Frontier'
    BY <1>0, <2>1, <2>2 DEF Places
  <2>5. /\ \A a \in DOMAIN inFlight : inFlight[a] # h
        /\ \A a \in DOMAIN replies : replies[a] # h
    BY <1>0, <1>a, <2>1 DEF Pipeline
  <2> HIDE DEF h
  <2>6. \A a \in DOMAIN inFlight' : job'[inFlight'[a]] # "dropped"
    <3>1. \A a \in DOMAIN inFlight' :
            a \in DOMAIN inFlight \/ a = Len(inFlight) + 1
      BY <2>3
    <3>2. \A a \in DOMAIN inFlight : job'[inFlight'[a]] # "dropped"
      BY <1>a, <2>2, <2>3, <2>5 DEF Places
    <3>3. job'[inFlight'[Len(inFlight) + 1]] # "dropped"
      BY <2>2, <2>3
    <3>4. QED
      BY <3>1, <3>2, <3>3
  <2>7. \A a \in DOMAIN replies : Finished(replies[a])'
    BY <1>a, <2>1, <2>2, <2>5 DEF Places, Finished
  <2>8. ASSUME NEW k \in Job, job'[k] \notin {"idle", "dropped"}
        PROVE  \/ \E a \in DOMAIN inFlight' : inFlight'[a] = k
               \/ \E a \in DOMAIN replies : replies[a] = k
    <3>1. CASE k = h
      <4>1. Len(inFlight) + 1 \in DOMAIN inFlight'
        BY <2>3
      <4>2. QED
        BY <2>3, <3>1, <4>1
    <3>2. CASE k # h
      <4>1. DOMAIN inFlight \subseteq DOMAIN inFlight'
        BY <2>3
      <4>2. \/ \E a \in DOMAIN inFlight : inFlight[a] = k
            \/ \E a \in DOMAIN replies : replies[a] = k
        BY <1>0, <2>1, <2>2, <2>8, <3>2 DEF Places
      <4>3. QED
        BY <2>3, <4>1, <4>2
    <3>3. QED
      BY <3>1, <3>2
  <2>9. QED
    BY <2>1, <2>4, <2>6, <2>7, <2>8 DEF Places
<1>6. CASE Take
  <2>1. Frontier' = Frontier /\ UNCHANGED <<job, replies>> /\ awaited = NoJob
    BY <1>6 DEF Take, Frontier, Phases
  <2>2. CASE inFlight = <<>>
    BY <1>6, <2>1, <2>2, <1>b DEF Take
  <2>3. CASE inFlight # <<>>
    <3>1. awaited' = inFlight[1] /\ inFlight' = Tail(inFlight)
      BY <1>6, <2>3, PopFirst DEF Take
    <3>2. /\ 1 \in DOMAIN inFlight
          /\ DOMAIN inFlight = 1 .. Len(inFlight)
          /\ Len(inFlight) \in Nat
          /\ DOMAIN inFlight' = 1 .. (Len(inFlight) - 1)
          /\ \A a \in DOMAIN inFlight' :
               a + 1 \in DOMAIN inFlight /\ inFlight'[a] = inFlight[a + 1]
      BY <2>3, <3>1, PopFirst
    <3>3. ASSUME NEW a \in DOMAIN inFlight
          PROVE  \/ awaited' = inFlight[a]
                 \/ \E b \in DOMAIN inFlight' : inFlight'[b] = inFlight[a]
      <4>1. CASE a = 1
        BY <3>1, <4>1
      <4>2. CASE a # 1
        <5>1. a - 1 \in DOMAIN inFlight' /\ (a - 1) + 1 = a
          BY <3>2, <4>2
        <5>2. inFlight'[a - 1] = inFlight[a]
          BY <3>2, <5>1
        <5>3. QED
          BY <5>1, <5>2
      <4>3. QED
        BY <4>1, <4>2
    <3>4. \A j \in Job : job[j] \notin {"idle", "dropped"} =>
            \/ awaited' = j
            \/ \E a \in DOMAIN inFlight' : inFlight'[a] = j
            \/ \E a \in DOMAIN replies : replies[a] = j
      BY <1>0, <2>1, <3>3 DEF Places
    <3>5. QED
      BY <2>1, <3>1, <3>2, <3>4 DEF Places, Finished
  <2>4. QED
    BY <2>2, <2>3
<1>7. CASE Collect
  <2>1. /\ awaited \in Job /\ awaited # NoJob /\ Frontier' = Frontier
        /\ awaited' = NoJob /\ UNCHANGED <<inFlight, job>>
        /\ replies' = Append(replies, awaited) /\ Finished(awaited)
    BY <1>7 DEF Collect, Phases, Frontier, TypeOK
  <2>2. /\ DOMAIN replies' = 1 .. (Len(replies) + 1)
        /\ \A a \in DOMAIN replies : replies'[a] = replies[a]
        /\ replies'[Len(replies) + 1] = awaited
        /\ DOMAIN replies = 1 .. Len(replies)
        /\ Len(replies) \in Nat
    BY <1>0, <2>1, AppendLast
  <2>3. /\ DOMAIN replies \subseteq DOMAIN replies'
        /\ Len(replies) + 1 \in DOMAIN replies'
        /\ \A a \in DOMAIN replies' :
             a \in DOMAIN replies \/ a = Len(replies) + 1
    BY <2>2
  <2>4. \A a \in DOMAIN replies' : Finished(replies'[a])
    BY <2>1, <2>2, <2>3 DEF Places
  <2>5. \A j \in Job : job[j] \notin {"idle", "dropped"} =>
          \/ \E a \in DOMAIN inFlight : inFlight[a] = j
          \/ \E a \in DOMAIN replies' : replies'[a] = j
    BY <2>2, <2>3 DEF Places
  <2>6. QED
    BY <2>1, <2>4, <2>5 DEF Places, Finished
<1>8. CASE Close
  BY <1>8, <1>b DEF Close, Frontier
<1>9. ASSUME NEW j \in Job, Worker(j) PROVE Places'
  <2>1. /\ UNCHANGED <<submitter, source>> /\ Frontier' = Frontier
        /\ UNCHANGED <<inFlight, awaited, replies>>
    BY <1>9 DEF Worker, Refuse, Issue, Answer, Fail, Frontier
  <2>2. /\ job[j] \in {"queued", "wire"}
        /\ job'[j] \in {"wire", "refused", "answered", "failed"}
        /\ \A k \in Job : k # j => job'[k] = job[k]
    BY <1>9 DEF Worker, Refuse, Issue, Answer, Fail, TypeOK
  <2>3. \A k \in Job : /\ job'[k] = "idle" <=> job[k] = "idle"
                       /\ job'[k] = "dropped" <=> job[k] = "dropped"
                       /\ Finished(k) => Finished(k)'
    BY <2>2 DEF Finished
  <2>4. QED
    BY <1>0, <1>a, <2>1, <2>3 DEF Places
<1>10. CASE ClockRunsOut
  BY <1>10, <1>b DEF ClockRunsOut, Frontier
<1>11. CASE UNCHANGED vars
  BY <1>11, <1>b DEF vars, Frontier
<1>12. QED
  BY <1>1, <1>2, <1>3, <1>4, <1>5, <1>6, <1>7, <1>8, <1>9, <1>10, <1>11
  DEF Next, Submitter, Done
-----------------------------------------------------------------------------
(***************************************************************************)
(* How a step changes the sets of jobs the counters are about.             *)
(***************************************************************************)
LEMMA JobSetsAreFinite ==
  /\ IsFiniteSet(Claimed) /\ Cardinality(Claimed) \in Nat
  /\ IsFiniteSet(Unfinished) /\ Cardinality(Unfinished) \in Nat
  /\ IsFiniteSet(Paid) /\ Cardinality(Paid) \in Nat
<1>1. Claimed \subseteq Job /\ Unfinished \subseteq Job /\ Paid \subseteq Job
  BY DEF Claimed, Unfinished, Paid
<1>2. QED
  BY <1>1, JobIsFinite, FS_Subset, FS_CardinalityType

LEMMA ClaimGrows ==
  ASSUME TypeOK, Phases, Places, Claim
  PROVE  /\ Cardinality(Claimed') = Cardinality(Claimed) + 1
         /\ Cardinality(Unfinished') = Cardinality(Unfinished) + 1
<1> DEFINE h == nextJob - 1
<1>1. h \in Job /\ job' = [job EXCEPT ![h] = "queued"] /\ Frontier = h
  BY InHand DEF Claim
<1>2. h \in Nat /\ job[h] = "idle"
  BY <1>1, WindowAssumption DEF WindowAssumption, Places, Job
<1>3. /\ \A k \in Job : k # h => job'[k] = job[k]
      /\ job'[h] = "queued"
  BY <1>1 DEF TypeOK
<1> HIDE DEF h
<1>4. /\ Claimed' = Claimed \cup {h} /\ h \notin Claimed
      /\ Unfinished' = Unfinished \cup {h} /\ h \notin Unfinished
  BY <1>1, <1>2, <1>3 DEF Claimed, Unfinished
<1>5. QED
  BY <1>4, JobSetsAreFinite, FS_AddElement

LEMMA RefuseShrinks ==
  ASSUME TypeOK, NEW j \in Job, Refuse(j)
  PROVE  /\ j \in Claimed /\ Cardinality(Claimed) > 0
         /\ Cardinality(Claimed') = Cardinality(Claimed) - 1
<1>1. /\ \A k \in Job : k # j => job'[k] = job[k]
      /\ job'[j] = "refused" /\ job[j] = "queued"
  BY DEF Refuse, TypeOK
<1>2. Claimed' = Claimed \ {j} /\ j \in Claimed
  BY <1>1 DEF Claimed
<1>3. Cardinality(Claimed) # 0
  BY <1>2, JobSetsAreFinite, FS_EmptySet
<1>4. Cardinality(Claimed \ {j}) = Cardinality(Claimed) - 1
  BY <1>2, JobSetsAreFinite, FS_RemoveElement
<1>5. Cardinality(Claimed) \in Nat
  BY JobSetsAreFinite
<1> HIDE DEF Claimed
<1>6. Cardinality(Claimed) > 0
  BY <1>3, <1>5
<1>7. QED
  BY <1>2, <1>4, <1>6

LEMMA LeavingShrinks ==
  ASSUME TypeOK, NEW j \in Job, Refuse(j) \/ Answer(j) \/ Fail(j)
  PROVE  /\ Cardinality(Unfinished') = Cardinality(Unfinished) - 1
         /\ Cardinality(Unfinished) > 0
<1>1. /\ \A k \in Job : k # j => job'[k] = job[k]
      /\ job'[j] \in {"refused", "answered", "failed"}
      /\ job[j] \in {"queued", "wire"}
  BY DEF Refuse, Answer, Fail, TypeOK
<1>2. Unfinished' = Unfinished \ {j} /\ j \in Unfinished
  BY <1>1 DEF Unfinished
<1>3. Cardinality(Unfinished) # 0
  BY <1>2, JobSetsAreFinite, FS_EmptySet
<1>4. Cardinality(Unfinished \ {j}) = Cardinality(Unfinished) - 1
  BY <1>2, JobSetsAreFinite, FS_RemoveElement
<1>5. Cardinality(Unfinished) \in Nat
  BY JobSetsAreFinite
<1> HIDE DEF Unfinished
<1>6. Cardinality(Unfinished) > 0
  BY <1>3, <1>5
<1>7. QED
  BY <1>2, <1>4, <1>6

(***************************************************************************)
(* A step that is no claim and no refusal keeps the claimed jobs; only a   *)
(* claim and a job that leaves the pool change the unfinished ones.        *)
(***************************************************************************)
LEMMA OthersKeepClaims ==
  ASSUME TypeOK, Phases, Places, [Next]_vars, ~Claim,
         \A j \in Job : ~Refuse(j)
  PROVE  /\ Claimed' = Claimed /\ UNCHANGED <<spent, carried>>
<1> USE DEF source, submitter, ledger, Claimed
<1>1. CASE Halt /\ pc = "check"
  <2> DEFINE h == nextJob - 1
  <2>1. h \in Job /\ job' = [job EXCEPT ![h] = "dropped"] /\ Frontier = h
    BY <1>1, InHand DEF Halt
  <2>2. h \in Nat /\ job[h] = "idle"
    BY <2>1, WindowAssumption DEF WindowAssumption, Places, Job
  <2>3. /\ \A k \in Job : k # h => job'[k] = job[k]
        /\ job'[h] = "dropped"
    BY <2>1 DEF TypeOK
  <2> HIDE DEF h
  <2>4. QED
    BY <1>1, <2>1, <2>2, <2>3 DEF Halt
<1>2. ASSUME NEW j \in Job, Issue(j) \/ Answer(j) \/ Fail(j)
      PROVE  Claimed' = Claimed /\ UNCHANGED <<spent, carried>>
  <2>1. /\ \A k \in Job : k # j => job'[k] = job[k]
        /\ job'[j] \in {"wire", "answered", "failed"}
        /\ job[j] \in {"queued", "wire"}
        /\ UNCHANGED <<spent, carried>>
    BY <1>2 DEF Issue, Answer, Fail, TypeOK
  <2>2. QED
    BY <2>1
<1>3. CASE UNCHANGED <<job, spent, carried>>
  BY <1>3
<1>4. QED
  BY <1>1, <1>2, <1>3
  DEF Next, Submitter, Done, PullJob, PullNothing, PullRaises, CheckBudget,
      Take, Collect, Close, Worker, ClockRunsOut, vars

LEMMA OthersKeepWork ==
  ASSUME TypeOK, Phases, Places, [Next]_vars, ~Claim,
         \A j \in Job : ~(Refuse(j) \/ Answer(j) \/ Fail(j))
  PROVE  Unfinished' = Unfinished /\ UNCHANGED tokens
<1> USE DEF source, submitter, ledger, Unfinished
<1>1. CASE Halt /\ pc = "check"
  <2> DEFINE h == nextJob - 1
  <2>1. h \in Job /\ job' = [job EXCEPT ![h] = "dropped"] /\ Frontier = h
    BY <1>1, InHand DEF Halt
  <2>2. h \in Nat /\ job[h] = "idle"
    BY <2>1, WindowAssumption DEF WindowAssumption, Places, Job
  <2>3. /\ \A k \in Job : k # h => job'[k] = job[k]
        /\ job'[h] = "dropped"
    BY <2>1 DEF TypeOK
  <2> HIDE DEF h
  <2>4. QED
    BY <1>1, <2>1, <2>2, <2>3 DEF Halt
<1>2. ASSUME NEW j \in Job, Issue(j)
      PROVE  Unfinished' = Unfinished /\ UNCHANGED tokens
  <2>1. /\ \A k \in Job : k # j => job'[k] = job[k]
        /\ job'[j] = "wire" /\ job[j] = "queued" /\ UNCHANGED tokens
    BY <1>2 DEF Issue, TypeOK
  <2>2. QED
    BY <2>1
<1>3. CASE UNCHANGED <<job, tokens>>
  BY <1>3
<1>4. QED
  BY <1>1, <1>2, <1>3
  DEF Next, Submitter, Done, PullJob, PullNothing, PullRaises, CheckBudget,
      Take, Collect, Close, Worker, ClockRunsOut, vars

(***************************************************************************)
(* The counter and the limit.                                              *)
(***************************************************************************)
Charges ==
  /\ ChargeIsExact
  /\ spent <= MaxSubcalls
  /\ ClaimIsGranted

LEMMA ChargesInit == Init => Charges
<1> SUFFICES ASSUME Init PROVE Charges
  OBVIOUS
<1>1. Claimed = {}
  BY DEF Init, Claimed
<1>2. QED
  BY <1>1, FS_EmptySet, LimitAssumption
  DEF Init, Charges, ChargeIsExact, ClaimIsGranted, LimitAssumption

LEMMA ChargesStep ==
  TypeOK /\ Phases /\ Places /\ Charges /\ [Next]_vars => Charges'
<1> SUFFICES ASSUME TypeOK, Phases, Places, Charges, [Next]_vars
             PROVE  Charges'
  OBVIOUS
<1>0. /\ spent \in Nat /\ carried \in Nat /\ MaxSubcalls \in Nat
      /\ Cardinality(Claimed) \in Nat
  BY JobSetsAreFinite, LimitAssumption DEF LimitAssumption, TypeOK
<1>1. CASE Claim
  <2>1. /\ spent' = spent + 1 /\ carried' = carried /\ spent < MaxSubcalls
        /\ pc' # "claim"
    BY <1>1 DEF Claim, AfterSubmit
  <2>2. QED
    BY <1>0, <1>1, <2>1, ClaimGrows DEF Charges, ChargeIsExact, ClaimIsGranted
<1>2. ASSUME NEW j \in Job, Refuse(j) PROVE Charges'
  <2>1. carried' = carried /\ pc' = pc /\ spent' = IF spent > 0 THEN spent - 1 ELSE 0
    BY <1>2 DEF Refuse, submitter
  <2>2. spent > 0
    BY <1>0, <1>2, RefuseShrinks DEF Charges, ChargeIsExact
  <2>3. QED
    BY <1>0, <1>2, <2>1, <2>2, RefuseShrinks
    DEF Charges, ChargeIsExact, ClaimIsGranted
<1>3. CASE ~Claim /\ \A j \in Job : ~Refuse(j)
  <2>1. Claimed' = Claimed /\ UNCHANGED <<spent, carried>>
    BY <1>3, OthersKeepClaims
  <2>2. ASSUME pc' = "claim" PROVE spent < MaxSubcalls
    <3>1. CASE pc = "claim"
      BY <3>1 DEF Charges, ClaimIsGranted
    <3>2. CASE pc # "claim"
      <4>1. CheckBudget
        BY <2>2, <3>2
        DEF Next, Submitter, Done, PullJob, PullNothing, PullRaises, Claim,
            AfterSubmit, Take, Collect, Close, Worker, Refuse, Issue, Answer,
            Fail, ClockRunsOut, vars, submitter
      <4>2. ~SubcallExhausted
        BY <2>2, <4>1 DEF CheckBudget, Halt, AfterSubmit
      <4>3. QED
        BY <1>0, <4>2 DEF SubcallExhausted
    <3>3. QED
      BY <3>1, <3>2
  <2>3. QED
    BY <2>1, <2>2 DEF Charges, ChargeIsExact, ClaimIsGranted
<1>4. QED
  BY <1>1, <1>2, <1>3

(***************************************************************************)
(* Everything proved so far, as one inductive invariant of a batch.        *)
(***************************************************************************)
IInv == TypeOK /\ Phases /\ Pipeline /\ Places /\ Charges

THEOREM Invariance == Spec => []IInv
<1>1. Init => IInv
  BY TypeInit, PhasesInit, PipelineInit, PlacesInit, ChargesInit DEF IInv
<1>2. IInv /\ [Next]_vars => IInv'
  BY TypeStep, PhasesStep, PipelineStep, PlacesStep, ChargesStep DEF IInv
<1>3. QED
  BY <1>1, <1>2, PTL DEF Spec

(***************************************************************************)
(* The ledger is exact and a check that passed is never followed by a      *)
(* refused claim, whatever the pool's threads do in between.               *)
(***************************************************************************)
THEOREM ChargeCorrect == Spec => []ChargeIsExact
<1>1. IInv => ChargeIsExact
  BY DEF IInv, Charges
<1>2. QED
  BY <1>1, Invariance, PTL

THEOREM GrantCorrect == Spec => []ClaimIsGranted
<1>1. IInv => ClaimIsGranted
  BY DEF IInv, Charges
<1>2. QED
  BY <1>1, Invariance, PTL

(***************************************************************************)
(* No interleaving sends more requests than max_subcalls allows.           *)
(***************************************************************************)
THEOREM LimitCorrect == Spec => []LimitHolds
<1>1. ASSUME IInv PROVE LimitHolds
  <2>1. Cardinality(Paid) <= Cardinality(Claimed)
    <3>1. Paid \subseteq Claimed
      BY DEF Paid, Claimed
    <3>2. QED
      BY <3>1, JobSetsAreFinite, FS_Subset
  <2>2. /\ carried \in Nat /\ spent \in Nat /\ MaxSubcalls \in Nat
        /\ spent = carried + Cardinality(Claimed) /\ spent <= MaxSubcalls
    BY <1>1, LimitAssumption
    DEF IInv, TypeOK, Charges, ChargeIsExact, LimitAssumption
  <2>3. QED
    BY <2>1, <2>2, JobSetsAreFinite DEF LimitHolds
<1>2. QED
  BY <1>1, Invariance, PTL

(***************************************************************************)
(* Replies are in job order, one per job that was submitted and finished.  *)
(***************************************************************************)
THEOREM OrderCorrect == Spec => []RepliesInOrder
<1>1. IInv => RepliesInOrder
  BY DEF IInv, Pipeline, Places, RepliesInOrder
<1>2. QED
  BY <1>1, Invariance, PTL

(***************************************************************************)
(* A batch that ends in order has handed over every reply that was paid.   *)
(***************************************************************************)
THEOREM DeliveryCorrect == Spec => []PaidIsDelivered
<1>1. ASSUME IInv, pc = "done", ~raised, NEW j \in Paid PROVE j \in Yielded
  <2>1. j \in Job /\ job[j] \notin {"idle", "dropped"}
    BY <1>1 DEF Paid
  <2>2. awaited = NoJob /\ inFlight = <<>> /\ NoJob \notin Job
    BY <1>1, WindowAssumption DEF IInv, Phases, Job, NoJob, WindowAssumption
  <2>3. \E a \in DOMAIN replies : replies[a] = j
    BY <1>1, <2>1, <2>2 DEF IInv, Places
  <2>4. QED
    BY <2>3 DEF Yielded
<1>2. IInv => PaidIsDelivered
  BY <1>1 DEF PaidIsDelivered
<1>3. QED
  BY <1>2, Invariance, PTL
-----------------------------------------------------------------------------
(***************************************************************************)
(* Room for the job that is being pulled: how long in_flight may be at     *)
(* each point of imap.                                                     *)
(***************************************************************************)
Room ==
  /\ pc \in {"pull", "check", "claim"} => Len(inFlight) + 1 <= Width
  /\ pc \in {"pull", "check", "claim"} => Len(inFlight) + filling <= Width
  /\ pc = "await" => Len(inFlight) + 1 <= Width
  /\ Len(inFlight) <= Width

LEMMA RoomInit == Init => Room
<1> SUFFICES ASSUME Init PROVE Room
  OBVIOUS
<1>1. Len(inFlight) = 0
  BY DEF Init
<1>2. QED
  BY <1>1, WindowAssumption DEF Init, Room, WindowAssumption

LEMMA RoomStep == TypeOK /\ Phases /\ Room /\ [Next]_vars => Room'
<1> SUFFICES ASSUME TypeOK, Phases, Room, [Next]_vars PROVE Room'
  OBVIOUS
<1> USE DEF source, submitter, ledger
<1>0. /\ Width \in Nat /\ Len(inFlight) \in Nat /\ filling \in Nat
      /\ inFlight \in Seq(Job)
  BY WindowAssumption, LenProperties DEF WindowAssumption, TypeOK
<1>1. CASE UNCHANGED inFlight /\ pc' \notin {"pull", "check", "claim", "await"}
  BY <1>1 DEF Room
<1>2. CASE PullJob
  BY <1>2 DEF PullJob, Room
<1>3. CASE CheckBudget
  BY <1>3 DEF CheckBudget, Halt, AfterSubmit, Room
<1>4. CASE Claim
  <2>1. Len(inFlight') = Len(inFlight) + 1
    BY <1>0, <1>4, InHand, AppendLast, LenProperties DEF Claim
  <2>2. QED
    BY <1>0, <1>4, <2>1 DEF Claim, AfterSubmit, Room
<1>5. CASE Take
  <2>1. CASE inFlight # <<>>
    <3>1. Len(inFlight') = Len(inFlight) - 1 /\ pc' = "await"
      BY <1>0, <1>5, <2>1, HeadTailProperties DEF Take
    <3>2. QED
      BY <1>0, <3>1 DEF Room
  <2>2. QED
    BY <1>1, <1>5, <2>1 DEF Take
<1>6. CASE Collect
  BY <1>0, <1>6 DEF Collect, Room, Phases
<1>7. CASE UNCHANGED submitter
  BY <1>7 DEF Room
<1>8. QED
  BY <1>1, <1>2, <1>3, <1>4, <1>5, <1>6, <1>7
  DEF Next, Submitter, Done, PullNothing, PullRaises, Close, AfterSubmit,
      Worker, Refuse, Issue, Answer, Fail, ClockRunsOut, vars

\* The futures of the window, as a set of jobs.
Windowed == {inFlight[a] : a \in DOMAIN inFlight}

LEMMA WindowIsSmall ==
  ASSUME TypeOK
  PROVE  /\ IsFiniteSet(Windowed)
         /\ Cardinality(Windowed) <= Len(inFlight)
         /\ Cardinality(Windowed) \in Nat
<1>1. /\ inFlight \in Seq(Job) /\ Len(inFlight) \in Nat
      /\ DOMAIN inFlight = 1 .. Len(inFlight)
      /\ inFlight \in [1 .. Len(inFlight) -> Job]
  BY LenProperties DEF TypeOK
<1>2. Windowed \subseteq Job
  BY <1>1 DEF Windowed
<1>3. IsFiniteSet(Windowed) /\ Cardinality(Windowed) \in Nat
  BY <1>2, JobIsFinite, FS_Subset, FS_CardinalityType
<1>4. inFlight \in Surjection(1 .. Len(inFlight), Windowed)
  <2>1. \A a \in 1 .. Len(inFlight) : inFlight[a] \in Windowed
    BY <1>1 DEF Windowed
  <2>2. inFlight \in [1 .. Len(inFlight) -> Windowed]
    BY <1>1, <2>1
  <2>3. QED
    BY <1>1, <2>2 DEF Windowed, Surjection
<1>5. ExistsSurjection(1 .. Len(inFlight), Windowed)
  BY <1>4 DEF ExistsSurjection
<1>6. QED
  BY <1>1, <1>3, <1>5, FS_SurjCardinalityBound

(***************************************************************************)
(* Between the source and the caller a batch holds the window and at most  *)
(* one job more: the one awaited, or the one in hand.                      *)
(***************************************************************************)
LEMMA WindowBound == IInv /\ Room => WindowHolds
<1> SUFFICES ASSUME IInv, Room PROVE WindowHolds
  OBVIOUS
<1>0. /\ TypeOK /\ Phases /\ Places /\ Pipeline
      /\ Width \in Nat /\ Len(inFlight) \in Nat /\ nextJob \in Nat
      /\ Job \subseteq Nat
  BY WindowAssumption, LenProperties DEF WindowAssumption, IInv, TypeOK, Job
<1>1. Unfinished \subseteq Materialised
  <2> SUFFICES ASSUME NEW j \in Unfinished PROVE j \in Materialised
    OBVIOUS
  <2>1. j \in Job /\ job[j] \in {"queued", "wire"}
    BY DEF Unfinished
  <2>2. j < nextJob
    BY <1>0, <2>1 DEF Places, Frontier
  <2>3. j \notin Yielded
    BY <1>0, <2>1 DEF Places, Yielded, Finished
  <2>4. QED
    BY <2>1, <2>2, <2>3 DEF Materialised
<1>2. ASSUME NEW j \in Materialised
      PROVE  \/ j \in Windowed
             \/ pc = "await" /\ j = awaited
             \/ pc \in {"check", "claim"} /\ j = nextJob - 1
  <2>1. j \in Job /\ j < nextJob /\ job[j] # "dropped" /\ j \notin Yielded
    BY <1>2 DEF Materialised
  <2>2. CASE j >= Frontier
    BY <1>0, <2>1, <2>2 DEF Frontier
  <2>3. CASE j < Frontier
    <3>1. job[j] # "idle" /\ j # NoJob
      BY <1>0, <2>1, <2>3 DEF Places, Frontier, Job, NoJob
    <3>2. QED
      BY <1>0, <2>1, <3>1 DEF Places, Windowed, Yielded, Phases
  <2>4. QED
    BY <1>0, <2>1, <2>2, <2>3 DEF Frontier
<1>3. Materialised \subseteq Job
  BY DEF Materialised
<1>4. CASE pc \in {"await", "check", "claim"}
  <2>1. PICK x : Materialised \subseteq Windowed \cup {x}
    <3>1. CASE pc = "await"
      <4>1. Materialised \subseteq Windowed \cup {awaited}
        BY <1>2, <3>1
      <4>2. QED
        BY <4>1
    <3>2. CASE pc \in {"check", "claim"}
      <4>1. Materialised \subseteq Windowed \cup {nextJob - 1}
        BY <1>2, <3>2
      <4>2. QED
        BY <4>1
    <3>3. QED
      BY <1>4, <3>1, <3>2
  <2>2. /\ IsFiniteSet(Windowed \cup {x})
        /\ Cardinality(Windowed \cup {x}) <= Cardinality(Windowed) + 1
    <3>1. IsFiniteSet(Windowed) /\ Cardinality(Windowed) \in Nat
      BY <1>0, WindowIsSmall
    <3>2. /\ IsFiniteSet(Windowed \cup {x})
          /\ \/ Cardinality(Windowed \cup {x}) = Cardinality(Windowed)
             \/ Cardinality(Windowed \cup {x}) = Cardinality(Windowed) + 1
      BY <3>1, FS_AddElement
    <3>3. QED
      BY <3>1, <3>2
  <2>3. /\ Cardinality(Materialised) <= Cardinality(Windowed \cup {x})
        /\ Cardinality(Materialised) \in Nat
        /\ Cardinality(Windowed \cup {x}) \in Nat
    BY <2>1, <2>2, FS_Subset, FS_CardinalityType
  <2>4. Len(inFlight) + 1 <= Width
    BY <1>4 DEF Room
  <2>5. QED
    BY <1>0, <1>1, <2>2, <2>3, <2>4, WindowIsSmall DEF WindowHolds
<1>5. CASE pc \notin {"await", "check", "claim"}
  <2>1. Materialised \subseteq Windowed
    BY <1>2, <1>5
  <2>2. /\ Cardinality(Materialised) <= Cardinality(Windowed)
        /\ Cardinality(Materialised) \in Nat
    BY <1>0, <2>1, WindowIsSmall, FS_Subset, FS_CardinalityType
  <2>3. Len(inFlight) <= Width
    BY DEF Room
  <2>4. QED
    BY <1>0, <1>1, <2>2, <2>3, WindowIsSmall DEF WindowHolds
<1>6. QED
  BY <1>4, <1>5

(***************************************************************************)
(* max_in_flight bounds what a batch materialises, for every window.       *)
(***************************************************************************)
THEOREM WindowCorrect == Spec => []WindowHolds
<1>1. Init => IInv /\ Room
  BY TypeInit, PhasesInit, PipelineInit, PlacesInit, ChargesInit, RoomInit
  DEF IInv
<1>2. IInv /\ Room /\ [Next]_vars => (IInv /\ Room)'
  BY TypeStep, PhasesStep, PipelineStep, PlacesStep, ChargesStep, RoomStep
  DEF IInv
<1>3. QED
  BY <1>1, <1>2, WindowBound, PTL DEF Spec

(***************************************************************************)
(* The allowance is kept: limit, counter and claims together.              *)
(***************************************************************************)
THEOREM AllowanceCorrect == Spec => []AllowanceKept
<1>1. LimitHolds /\ ChargeIsExact /\ ClaimIsGranted => AllowanceKept
  BY DEF AllowanceKept
<1>2. QED
  BY LimitCorrect, ChargeCorrect, GrantCorrect, <1>1, PTL

-----------------------------------------------------------------------------
(***************************************************************************)
(* What the jobs that are still out may yet cost, and what a job that the  *)
(* check let through may cost on top of them.                              *)
(***************************************************************************)
Overrun ==
  /\ tokens + Cardinality(Unfinished) * MaxReply < MaxTokens + Width * MaxReply
  /\ pc = "claim" =>
       tokens + (Cardinality(Unfinished) + 1) * MaxReply < MaxTokens + Width * MaxReply

LEMMA Multiples ==
  ASSUME NEW m \in Nat, NEW n \in Nat
  PROVE  /\ m * MaxReply \in Nat
         /\ (m + 1) * MaxReply = m * MaxReply + MaxReply
         /\ m <= n => m * MaxReply <= n * MaxReply
<1>1. MaxReply \in Nat
  BY LimitAssumption DEF LimitAssumption
<1>2. m <= n => m * MaxReply <= n * MaxReply
  <2> SUFFICES ASSUME m <= n PROVE m * MaxReply <= n * MaxReply
    OBVIOUS
  <2>1. PICK k \in Nat : n = m + k
    <3>1. n - m \in Nat /\ n = m + (n - m)
      OBVIOUS
    <3>2. QED
      BY <3>1
  <2>2. (m + k) * MaxReply = m * MaxReply + k * MaxReply
    BY <1>1
  <2>3. k * MaxReply \in Nat /\ m * MaxReply \in Nat
    BY <1>1
  <2>4. QED
    BY <2>1, <2>2, <2>3
<1>3. QED
  BY <1>1, <1>2

LEMMA Sums ==
  ASSUME NEW t \in Nat, NEW u \in Nat, NEW r \in Nat, u <= t + r,
         NEW out \in Nat, NEW cap \in Nat, t + (out + r) < cap
  PROVE  u + out < cap
  OBVIOUS

\* While a job is in hand every job that is out has its future in the window.
LEMMA OutIsWindowed ==
  ASSUME IInv, Room, pc \in {"check", "claim"}
  PROVE  Cardinality(Unfinished) + 1 <= Width
<1>1. TypeOK /\ Phases /\ Places
  BY DEF IInv
<1>2. Unfinished \subseteq Windowed
  <2> SUFFICES ASSUME NEW j \in Unfinished PROVE j \in Windowed
    OBVIOUS
  <2>1. j \in Job /\ job[j] \in {"queued", "wire"} /\ j # NoJob
    BY WindowAssumption DEF Unfinished, Job, NoJob
  <2>2. QED
    BY <1>1, <2>1 DEF Places, Phases, Finished, Windowed
<1>3. /\ Cardinality(Unfinished) <= Cardinality(Windowed)
      /\ Cardinality(Windowed) <= Len(inFlight) /\ Cardinality(Windowed) \in Nat
  BY <1>1, <1>2, WindowIsSmall, FS_Subset
<1>4. Len(inFlight) + 1 <= Width /\ Len(inFlight) \in Nat /\ Width \in Nat
  BY <1>1, WindowAssumption DEF Room, TypeOK, WindowAssumption
<1>5. QED
  BY <1>3, <1>4, JobSetsAreFinite

LEMMA OverrunInit == Init => Overrun
<1> SUFFICES ASSUME Init PROVE Overrun
  OBVIOUS
<1>1. Unfinished = {}
  BY DEF Init, Unfinished
<1>2. Cardinality(Unfinished) = 0
  BY <1>1, FS_EmptySet
<1>3. /\ 0 * MaxReply = 0 /\ 1 * MaxReply <= Width * MaxReply
      /\ 1 * MaxReply = MaxReply /\ Width * MaxReply \in Nat
  BY Multiples, LimitAssumption, WindowAssumption DEF LimitAssumption, WindowAssumption
<1>4. QED
  BY <1>2, <1>3, LimitAssumption DEF Init, Overrun, LimitAssumption

LEMMA OverrunStep == IInv /\ Room /\ Overrun /\ [Next]_vars => Overrun'
<1> SUFFICES ASSUME IInv, Room, Overrun, [Next]_vars PROVE Overrun'
  OBVIOUS
<1> DEFINE out == Cardinality(Unfinished)
           cap == MaxTokens + Width * MaxReply
<1>0. /\ TypeOK /\ Phases /\ Places /\ out \in Nat /\ out + 1 \in Nat
      /\ Width \in Nat /\ MaxReply \in Nat /\ MaxTokens \in Nat /\ tokens \in Nat
  BY JobSetsAreFinite, WindowAssumption, LimitAssumption
  DEF IInv, TypeOK, WindowAssumption, LimitAssumption
<1>1. /\ out * MaxReply \in Nat /\ Width * MaxReply \in Nat
      /\ (out + 1) * MaxReply = out * MaxReply + MaxReply
  BY <1>0, Multiples
<1>2. CASE Claim
  <2>1. Cardinality(Unfinished') = out + 1
    BY <1>0, <1>2, ClaimGrows
  <2>2. pc = "claim" /\ pc' # "claim" /\ tokens' = tokens
    BY <1>2 DEF Claim, AfterSubmit
  <2>3. QED
    BY <2>1, <2>2 DEF Overrun
<1>3. ASSUME NEW j \in Job, Refuse(j) \/ Answer(j) \/ Fail(j)
      PROVE  Overrun'
  <2> DEFINE before == out * MaxReply
             after == (out - 1) * MaxReply
             whole == Width * MaxReply
  <2>1. out > 0 /\ Cardinality(Unfinished') = out - 1 /\ out - 1 \in Nat
    BY <1>0, <1>3, LeavingShrinks
  <2>2. /\ after \in Nat /\ before = after + MaxReply
        /\ (out + 1) * MaxReply = before + MaxReply /\ whole \in Nat
    <3>1. after \in Nat /\ (out - 1 + 1) * MaxReply = after + MaxReply
      BY <2>1, Multiples
    <3>2. out - 1 + 1 = out
      BY <1>0
    <3>3. QED
      BY <1>1, <3>1, <3>2
  <2>3. /\ tokens + before < MaxTokens + whole
        /\ pc = "claim" => tokens + (out + 1) * MaxReply < MaxTokens + whole
    BY DEF Overrun
  <2>4. pc' = pc /\ tokens' \in Nat /\ tokens' <= tokens + MaxReply
    BY <1>0, <1>3 DEF Refuse, Answer, Fail, submitter, ledger
  <2>5. /\ Cardinality(Unfinished') * MaxReply = after
        /\ (Cardinality(Unfinished') + 1) * MaxReply = before
    <3>1. Cardinality(Unfinished') + 1 = out
      BY <1>0, <2>1
    <3>2. QED
      BY <2>1, <3>1
  <2>6. /\ tokens' + after < MaxTokens + whole
        /\ pc = "claim" => tokens' + before < MaxTokens + whole
    <3> HIDE DEF before, after, whole
    <3>1. /\ MaxTokens + whole \in Nat /\ before \in Nat
          /\ pc = "claim" => tokens + (before + MaxReply) < MaxTokens + whole
      BY <1>0, <2>2, <2>3
    <3>2. tokens' + after < MaxTokens + whole
      <4>1. tokens + (after + MaxReply) < MaxTokens + whole /\ after \in Nat
        BY <2>2, <2>3
      <4>2. QED
        BY <1>0, <2>4, <3>1, <4>1, Sums
    <3>3. pc = "claim" => tokens' + before < MaxTokens + whole
      BY <1>0, <2>4, <3>1, Sums
    <3>4. QED
      BY <3>2, <3>3
  <2>7. QED
    BY <2>4, <2>5, <2>6 DEF Overrun
<1>4. CASE ~Claim /\ \A j \in Job : ~(Refuse(j) \/ Answer(j) \/ Fail(j))
  <2>1. Unfinished' = Unfinished /\ tokens' = tokens
    BY <1>0, <1>4, OthersKeepWork
  <2>2. ASSUME pc' = "claim" PROVE tokens + (out + 1) * MaxReply < cap
    <3>1. CASE pc = "claim"
      BY <3>1 DEF Overrun
    <3>2. CASE pc # "claim"
      <4>1. CheckBudget
        BY <2>2, <3>2
        DEF Next, Submitter, Done, PullJob, PullNothing, PullRaises, Claim,
            AfterSubmit, Take, Collect, Close, Worker, Refuse, Issue, Answer,
            Fail, ClockRunsOut, vars, submitter
      <4>2. ~SubcallExhausted /\ pc = "check"
        BY <2>2, <4>1 DEF CheckBudget, Halt, AfterSubmit
      <4>3. tokens < MaxTokens
        BY <1>0, <4>2 DEF SubcallExhausted
      <4>4. (out + 1) * MaxReply <= Width * MaxReply
        BY <1>0, <4>2, OutIsWindowed, Multiples
      <4> HIDE DEF out
      <4>5. (out + 1) * MaxReply \in Nat
        BY <1>0, <1>1
      <4>6. QED
        BY <1>0, <1>1, <4>3, <4>4, <4>5
    <3>3. QED
      BY <3>1, <3>2
  <2>3. QED
    BY <2>1, <2>2 DEF Overrun
<1>5. QED
  BY <1>2, <1>3, <1>4

LEMMA OverrunBound == TypeOK /\ Overrun => TokenOverrunBounded
<1> SUFFICES ASSUME TypeOK, Overrun PROVE TokenOverrunBounded
  OBVIOUS
<1> DEFINE out == Cardinality(Unfinished)
<1>1. out * MaxReply \in Nat /\ Width * MaxReply \in Nat
  BY JobSetsAreFinite, Multiples, WindowAssumption DEF WindowAssumption
<1>2. tokens + out * MaxReply < MaxTokens + Width * MaxReply
  BY DEF Overrun
<1> HIDE DEF out
<1>3. QED
  BY <1>1, <1>2, LimitAssumption DEF TokenOverrunBounded, TypeOK, LimitAssumption

(***************************************************************************)
(* The token budget, checked before a claim and settled after the reply,   *)
(* is overrun by less than one window of replies (submit_next, _query).    *)
(***************************************************************************)
THEOREM OverrunCorrect == Spec => []TokenOverrunBounded
<1>1. Init => IInv /\ Room /\ Overrun
  BY TypeInit, PhasesInit, PipelineInit, PlacesInit, ChargesInit, RoomInit,
     OverrunInit DEF IInv
<1>2. IInv /\ Room /\ Overrun /\ [Next]_vars => (IInv /\ Room /\ Overrun)'
  BY TypeStep, PhasesStep, PipelineStep, PlacesStep, ChargesStep, RoomStep,
     OverrunStep DEF IInv
<1>3. IInv /\ Room /\ Overrun => TokenOverrunBounded
  BY OverrunBound DEF IInv
<1>4. QED
  BY <1>1, <1>2, <1>3, PTL DEF Spec
-----------------------------------------------------------------------------
(***************************************************************************)
(* The implementation of BatchContract: its step for each step of a batch. *)
(***************************************************************************)
LEMMA ContractInit == Init => BC!Init
<1> SUFFICES ASSUME Init PROVE BC!Init
  OBVIOUS
<1>1. Paid = {}
  BY DEF Init, Paid
<1>2. MaxSubcalls - carried \in 0 .. MaxSubcalls
  BY LimitAssumption DEF Init, LimitAssumption
<1>3. QED
  BY <1>1, <1>2 DEF Init, BC!Init

\* A request goes out: its job was claimed, and the claims keep the allowance.
LEMMA IssueSends ==
  ASSUME IInv, NEW j \in Job, Issue(j)
  PROVE  BC!Send(j)
<1>1. /\ \A k \in Job : k # j => job'[k] = job[k]
      /\ job'[j] = "wire" /\ job[j] = "queued"
      /\ UNCHANGED <<pc, raised, replies, carried>>
  BY DEF Issue, IInv, TypeOK, submitter, source
<1>2. Paid' = Paid \cup {j} /\ j \notin Paid
  BY <1>1 DEF Paid
<1>3. pc # "done" /\ j \notin Yielded
  BY <1>1 DEF IInv, Phases, Unfinished, Places, Finished, Yielded
<1>4. Cardinality(Paid) < MaxSubcalls - carried
  <2>1. Paid \cup {j} \subseteq Claimed
    BY <1>1 DEF Paid, Claimed
  <2>2. Cardinality(Paid \cup {j}) = Cardinality(Paid) + 1
    BY <1>2, JobSetsAreFinite, FS_AddElement
  <2>3. Cardinality(Paid \cup {j}) <= Cardinality(Claimed)
    BY <2>1, JobSetsAreFinite, FS_Subset
  <2>4. /\ carried \in Nat /\ MaxSubcalls \in Nat
        /\ carried + Cardinality(Claimed) <= MaxSubcalls
    BY LimitAssumption DEF IInv, TypeOK, Charges, ChargeIsExact, LimitAssumption
  <2>5. QED
    BY <2>2, <2>3, <2>4, JobSetsAreFinite
<1>5. BC!Cardinality(Paid) = Cardinality(Paid)
  BY DEF BC!Cardinality, Cardinality
<1>6. QED
  BY <1>1, <1>2, <1>3, <1>4, <1>5 DEF BC!Send, BC!Handed, Yielded

\* A future is collected: every request of an earlier job was handed over.
LEMMA CollectHands ==
  ASSUME IInv, Collect
  PROVE  awaited \in Job /\ BC!Hand(awaited)
<1>1. /\ pc = "await" /\ awaited \in Job /\ awaited # NoJob /\ ~raised
      /\ Paid' = Paid /\ Job \subseteq Nat
  BY WindowAssumption DEF Collect, IInv, TypeOK, Phases, Paid, Job, WindowAssumption
<1>2. \A a \in DOMAIN replies : replies[a] < awaited
  BY <1>1 DEF IInv, Pipeline
<1>3. ASSUME NEW k \in Paid, k < awaited PROVE \E a \in DOMAIN replies : replies[a] = k
  <2>1. k \in Job /\ job[k] \notin {"idle", "dropped"}
    BY <1>3 DEF Paid
  <2>2. \A a \in DOMAIN inFlight : awaited < inFlight[a] /\ inFlight[a] \in Job
    BY <1>1 DEF IInv, Pipeline, TypeOK
  <2>3. \A a \in DOMAIN inFlight : inFlight[a] # k
    BY <1>1, <1>3, <2>1, <2>2
  <2>4. awaited # k
    BY <1>1, <1>3, <2>1
  <2>5. QED
    BY <2>1, <2>3, <2>4 DEF IInv, Places
<1>4. replies' = Append(replies, awaited) /\ pc' = "pull" /\ raised' = raised
      /\ carried' = carried
  BY DEF Collect, source
<1>5. QED
  BY <1>1, <1>2, <1>3, <1>4 DEF BC!Hand, BC!Handed

\* The end of a batch: it is complete unless its source raised.
LEMMA CloseCompletes ==
  ASSUME IInv, Close
  PROVE  BC!Complete \/ UNCHANGED BC!vars
<1>1. /\ pc = "closing" /\ pc' = "done" /\ Paid' = Paid
      /\ UNCHANGED <<replies, raised, carried>>
  BY DEF Close, Paid, source
<1>2. CASE raised
  BY <1>1, <1>2 DEF BC!vars
<1>3. CASE ~raised
  <2>1. awaited = NoJob /\ inFlight = <<>> /\ NoJob \notin Job
    BY <1>1, <1>3, WindowAssumption DEF IInv, Phases, Job, NoJob, WindowAssumption
  <2>2. \A j \in Paid : j \in Job /\ job[j] \notin {"idle", "dropped"}
    BY DEF Paid
  <2>3. \A j \in Paid : \E a \in DOMAIN replies : replies[a] = j
    BY <2>1, <2>2 DEF IInv, Places
  <2>4. QED
    BY <1>1, <1>3, <2>3 DEF BC!Complete, BC!Handed
<1>4. QED
  BY <1>2, <1>3

\* What the contract forgets: the window, the claims and the dropped jobs.
LEMMA OthersStutter ==
  ASSUME IInv, [Next]_vars, ~Collect, ~Close, ~PullRaises,
         \A j \in Job : ~Issue(j)
  PROVE  UNCHANGED BC!vars
<1> USE DEF source, submitter, ledger, Paid
<1>0. TypeOK /\ Phases /\ Places
  BY DEF IInv
<1>1. ASSUME NEW h \in Job, NEW fate \in {"dropped", "queued", "refused"},
             job' = [job EXCEPT ![h] = fate], job[h] \in {"idle", "queued"}
      PROVE  Paid' = Paid
  <2>1. (\A k \in Job : k # h => job'[k] = job[k]) /\ job'[h] = fate
    BY <1>0, <1>1 DEF TypeOK
  <2>2. QED
    BY <1>1, <2>1
<1>2. ASSUME pc \in {"check", "claim"}
      PROVE  nextJob - 1 \in Job /\ job[nextJob - 1] = "idle"
  <2>1. nextJob - 1 \in Job /\ Frontier = nextJob - 1
    BY <1>0, <1>2, InHand
  <2>2. nextJob - 1 \in Nat
    BY <2>1, WindowAssumption DEF WindowAssumption, Job
  <2>3. QED
    BY <1>0, <2>1, <2>2 DEF Places
<1>3. CASE Halt /\ pc = "check"
  BY <1>1, <1>2, <1>3 DEF Halt, AfterSubmit, BC!vars
<1>4. CASE Claim
  BY <1>1, <1>2, <1>4 DEF Claim, AfterSubmit, BC!vars
<1>5. ASSUME NEW j \in Job, Refuse(j) PROVE UNCHANGED BC!vars
  BY <1>1, <1>5 DEF Refuse, BC!vars
<1>6. ASSUME NEW j \in Job, Answer(j) \/ Fail(j) PROVE UNCHANGED BC!vars
  <2>1. /\ \A k \in Job : k # j => job'[k] = job[k]
        /\ job'[j] \in {"answered", "failed"} /\ job[j] = "wire"
        /\ UNCHANGED <<pc, raised, replies, carried>>
    BY <1>0, <1>6 DEF Answer, Fail, TypeOK
  <2>2. QED
    BY <2>1 DEF BC!vars
<1>7. CASE UNCHANGED <<job, replies, raised, carried>> /\ pc # "done" /\ pc' # "done"
  BY <1>7 DEF BC!vars
<1>8. CASE UNCHANGED vars
  BY <1>8 DEF vars, BC!vars
<1>9. CASE ClockRunsOut
  BY <1>9 DEF ClockRunsOut, BC!vars
<1>10. QED
  BY <1>3, <1>4, <1>5, <1>6, <1>7, <1>8, <1>9
  DEF Next, Submitter, Done, PullJob, PullNothing, CheckBudget, AfterSubmit,
      Take, Worker

LEMMA ContractStep == IInv /\ [Next]_vars => [BC!Next]_(BC!vars)
<1> SUFFICES ASSUME IInv, [Next]_vars PROVE [BC!Next]_(BC!vars)
  OBVIOUS
<1>1. ASSUME NEW j \in Job, Issue(j) PROVE BC!Next
  BY <1>1, IssueSends DEF BC!Next, Job
<1>2. CASE Collect
  BY <1>2, CollectHands DEF BC!Next, Job
<1>3. CASE Close
  BY <1>3, CloseCompletes DEF BC!Next
<1>4. CASE PullRaises
  <2>1. /\ ~raised /\ raised' /\ pc # "done" /\ Paid' = Paid
        /\ UNCHANGED <<replies, carried>>
    BY <1>4 DEF PullRaises, IInv, Phases, Paid
  <2>2. BC!Abandon
    BY <2>1 DEF BC!Abandon
  <2>3. QED
    BY <2>2 DEF BC!Next
<1>5. QED
  BY <1>1, <1>2, <1>3, <1>4, OthersStutter

(***************************************************************************)
(* A batch keeps its contract with the caller, for every number of jobs,   *)
(* window and allowance: whatever the threads do, what goes out, what is   *)
(* handed over and how it ends is a behaviour of BatchContract.            *)
(***************************************************************************)
THEOREM ContractCorrect == Spec => Contract
<1>1. Init => BC!Init
  BY ContractInit
<1>2. IInv /\ [Next]_vars => [BC!Next]_(BC!vars)
  BY ContractStep
<1>3. QED
  BY <1>1, <1>2, Invariance, PTL DEF Spec, Contract, BC!Spec
=============================================================================
