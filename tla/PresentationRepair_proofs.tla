--------------------- MODULE PresentationRepair_proofs ---------------------
(***************************************************************************)
(* Proofs about the repair of a presentation, for every policy and every   *)
(* set of texts.                                                           *)
(***************************************************************************)
EXTENDS PresentationRepair, TLAPS

(***************************************************************************)
(* Before a request there is an attempt left, an ordinary one or the       *)
(* reserve, and the reserve was earned by a build in a commit-only turn;   *)
(* an attempt that is not over has not used up the candidates.             *)
(***************************************************************************)
Reserved == MaxReserve = 1 /\ earned /\ builds > 0
Position ==
  /\ at = "ask" => asked < Ordinary \/ (asked = Ordinary /\ Reserved /\ commitOnly)
  /\ asked > Ordinary => asked = Ordinary + 1 /\ Reserved
  /\ asked > Ordinary /\ at \in {"call", "block"} => commitOnly
  /\ at # "done" => count < MaxAttempts
  /\ at \in {"call", "block", "observed"} => builds < asked
  /\ attempt.progress => builds > 0

(***************************************************************************)
(* The candidate is empty from the opening of the window to the end of the *)
(* block, which sets it together with the history variable; nothing is     *)
(* promoted before the end.                                                *)
(***************************************************************************)
Window ==
  /\ at \in {"call", "block"} => candidate = NoText /\ fresh = NoText
  /\ at = "observed" => candidate = fresh
  /\ at # "done" => outcome = "open" /\ final = NoText
  /\ outcome = "promoted" => final = fresh
  /\ final # NoText => final \in Valid /\ outcome = "promoted"

Attempts == [progress : BOOLEAN, fault : BOOLEAN, committed : BOOLEAN]
Observations == [ok : BOOLEAN, progress : BOOLEAN, stdout : Maybe]

IInv == TypeOK /\ Position /\ Window /\ ReadyDraftIsValid
-----------------------------------------------------------------------------
LEMMA NumbersAreNatural ==
  /\ MaxAttempts \in Nat /\ MaxAttempts >= 1
  /\ Ordinary \in Nat /\ Ordinary >= 1
  /\ MaxReserve \in {0, 1}
  /\ MaxBuilds \in Nat
  BY PolicyAssumption DEF PolicyAssumption, Ordinary

\* The records are of their types, whatever the booleans put into them.
LEMMA AttemptTypes ==
  /\ NewAttempt \in Attempts
  /\ [NewAttempt EXCEPT !.fault = TRUE] \in Attempts
  /\ \A a \in Attempts, b \in BOOLEAN :
       /\ [a EXCEPT !.fault = TRUE] \in Attempts
       /\ [a EXCEPT !.progress = TRUE] \in Attempts
       /\ [a EXCEPT !.committed = TRUE, !.fault = b] \in Attempts
  BY DEF NewAttempt, Attempts

LEMMA ObservationTypes ==
  /\ NoObs \in Observations /\ FailedObs \in Observations
  /\ \A a, b \in BOOLEAN, text \in Maybe :
       [ok |-> a, progress |-> b, stdout |-> text] \in Observations
  BY DEF NoObs, FailedObs, Observations, Maybe

LEMMA InvInit == Init => IInv
<1> SUFFICES ASSUME Init PROVE IInv
  OBVIOUS
<1>1. TypeOK
  <2>1. attempt \in Attempts /\ obs \in Observations
    BY AttemptTypes, ObservationTypes DEF Init
  <2>2. /\ ready \in BOOLEAN /\ open \in BOOLEAN
        /\ commitOnly \in BOOLEAN /\ earned \in BOOLEAN
    BY DEF Init
  <2>3. /\ at = "ask" /\ asked = 0 /\ count = 0 /\ builds = 0
        /\ rejected = {} /\ printed = {} /\ origin = "none" /\ outcome = "open"
        /\ draft = NoText /\ last = NoText /\ final = NoText
        /\ pending = NoText /\ candidate = NoText /\ fresh = NoText
    BY DEF Init
  <2>4. QED
    BY <2>1, <2>2, <2>3, NumbersAreNatural DEF TypeOK, Maybe, Attempts, Observations
<1>2. Position
  BY NumbersAreNatural DEF Init, Position, NewAttempt
<1>3. Window /\ ReadyDraftIsValid
  BY DEF Init, Window, ReadyDraftIsValid
<1>4. QED
  BY <1>1, <1>2, <1>3 DEF IInv

(***************************************************************************)
(* Every step leaves each variable in its type; the bounds on the numbers  *)
(* of requests, builds and candidates come from Position.                  *)
(***************************************************************************)
LEMMA TypeStep == TypeOK /\ Position /\ [Next]_vars => TypeOK'
<1> SUFFICES ASSUME TypeOK, Position, [Next]_vars PROVE TypeOK'
  OBVIOUS
<1>1. attempt \in Attempts /\ obs \in Observations
  BY DEF TypeOK, Attempts, Observations
<1> USE NumbersAreNatural, <1>1
        DEF Position, Reserved, drafts, tally, policy, session, result
<1>2. attempt' \in Attempts /\ obs' \in Observations
  <2>1. CASE ReplyWithoutCall \/ ReplyWithCall \/ OpenFails
    BY <2>1, AttemptTypes, ObservationTypes
       DEF ReplyWithoutCall, ReplyWithCall, OpenFails
  <2>2. CASE NothingRuns \/ BlockRefused \/ BlockRaises \/ BlockTimesOut
    BY <2>2, ObservationTypes
       DEF NothingRuns, BlockRefused, BlockRaises, BlockTimesOut
  <2>3. CASE \E stdout \in Texts \cup {NoText}, traces, extra \in BOOLEAN :
               BlockEnds(stdout, traces, extra)
    <3> PICK stdout \in Maybe, traces \in BOOLEAN, extra \in BOOLEAN :
          BlockEnds(stdout, traces, extra)
      BY <2>3 DEF Maybe
    <3>1. (~extra) \in BOOLEAN /\ (traces \/ stdout # NoText) \in BOOLEAN
      OBVIOUS
    <3>2. obs' \in Observations
      BY <3>1, ObservationTypes DEF BlockEnds
    <3>3. QED
      BY <3>2 DEF BlockEnds
  <2>4. CASE Reject
    <3>1. (~obs.ok) \in BOOLEAN
      OBVIOUS
    <3>2. QED
      BY <2>4, <3>1, AttemptTypes DEF Reject
  <2>5. CASE NoCandidate \/ Build \/ Draft
    BY <2>5, AttemptTypes DEF NoCandidate, Build, Draft
  <2>6. CASE BlockStarts \/ (\E text \in Texts : BlockSubmits(text)) \/ Fails
             \/ Promote \/ NextAttempt \/ Done \/ UNCHANGED vars
    BY <2>6 DEF BlockStarts, BlockSubmits, Fails, Promote, NextAttempt, Done, vars
  <2>7. QED
    BY <2>1, <2>2, <2>3, <2>4, <2>5, <2>6 DEF Next
<1>3. /\ ready' \in BOOLEAN /\ open' \in BOOLEAN
      /\ commitOnly' \in BOOLEAN /\ earned' \in BOOLEAN
  <2> USE DEF TypeOK
  <2>1. CASE ReplyWithoutCall \/ ReplyWithCall \/ OpenFails \/ NothingRuns
             \/ BlockRefused \/ BlockStarts \/ BlockRaises \/ BlockTimesOut
    BY <2>1 DEF ReplyWithoutCall, ReplyWithCall, Open, OpenFails, NothingRuns,
                BlockRefused, BlockStarts, BlockRaises, BlockTimesOut
  <2>2. CASE \/ \E text \in Texts : BlockSubmits(text)
             \/ \E stdout \in Texts \cup {NoText}, traces, extra \in BOOLEAN :
                  BlockEnds(stdout, traces, extra)
    BY <2>2 DEF BlockSubmits, BlockEnds
  <2>3. CASE Fails \/ Promote \/ Reject \/ NoCandidate \/ Done \/ UNCHANGED vars
    BY <2>3 DEF Fails, Promote, Reject, NoCandidate, Done, vars
  <2>4. CASE Build
    BY <2>4 DEF Build
  <2>5. CASE Draft
    <3>1. ready' = ready \/ ready' = (obs.stdout \in Valid)
      BY <2>5 DEF Draft, Keep
    <3>2. commitOnly' = commitOnly \/ commitOnly' = (ready' \/ builds' >= MaxBuilds)
      BY <2>5 DEF Draft
    <3>3. (ready' \/ builds' >= MaxBuilds) \in BOOLEAN
      OBVIOUS
    <3>4. open' = open /\ earned' = earned
      BY <2>5 DEF Draft
    <3>5. (obs.stdout \in Valid) \in BOOLEAN
      OBVIOUS
    <3>6. ready' \in BOOLEAN /\ commitOnly' \in BOOLEAN
      BY <3>1, <3>2, <3>3, <3>5
    <3>7. QED
      BY <3>4, <3>6
  <2>6. CASE NextAttempt
    BY <2>6 DEF NextAttempt, Earns
  <2>7. QED
    BY <2>1, <2>2, <2>3, <2>4, <2>5, <2>6 DEF Next
<1>4. /\ asked' \in 0 .. Ordinary + MaxReserve
      /\ count' \in 0 .. MaxAttempts
      /\ builds' \in 0 .. asked'
  <2> USE DEF TypeOK
  <2>1. CASE ReplyWithoutCall \/ ReplyWithCall \/ OpenFails
    BY <2>1 DEF ReplyWithoutCall, ReplyWithCall, OpenFails
  <2>2. CASE Promote \/ Reject
    BY <2>2 DEF Promote, Reject
  <2>3. CASE Build \/ Draft
    BY <2>3 DEF Build, Draft
  <2>4. CASE \/ NothingRuns \/ BlockRefused \/ BlockStarts
             \/ \E text \in Texts : BlockSubmits(text)
             \/ \E stdout \in Texts \cup {NoText}, traces, extra \in BOOLEAN :
                  BlockEnds(stdout, traces, extra)
    BY <2>4 DEF NothingRuns, BlockRefused, BlockStarts, BlockSubmits, BlockEnds
  <2>5. CASE BlockRaises \/ BlockTimesOut \/ Fails \/ NoCandidate \/ NextAttempt
             \/ Done \/ UNCHANGED vars
    BY <2>5 DEF BlockRaises, BlockTimesOut, Fails, NoCandidate, NextAttempt, Done, vars
  <2>6. QED
    BY <2>1, <2>2, <2>3, <2>4, <2>5 DEF Next
<1>5. /\ at' \in {"ask", "call", "block", "observed", "judged", "done"}
      /\ outcome' \in {"open", "promoted", "repeated", "repeated_draft", "spent",
                       "failed", "open_failed", "raised"}
      /\ origin' \in {"none", "candidate", "stdout"}
  <2> USE DEF TypeOK, End
  <2>1. CASE ReplyWithoutCall \/ ReplyWithCall \/ OpenFails \/ NothingRuns
             \/ BlockRefused \/ BlockStarts \/ BlockRaises \/ BlockTimesOut
    BY <2>1 DEF ReplyWithoutCall, ReplyWithCall, OpenFails, NothingRuns,
                BlockRefused, BlockStarts, BlockRaises, BlockTimesOut
  <2>2. CASE \/ \E text \in Texts : BlockSubmits(text)
             \/ \E stdout \in Texts \cup {NoText}, traces, extra \in BOOLEAN :
                  BlockEnds(stdout, traces, extra)
    BY <2>2 DEF BlockSubmits, BlockEnds
  <2>3. CASE Fails \/ Promote \/ NoCandidate \/ Build \/ Done \/ UNCHANGED vars
    BY <2>3 DEF Fails, Promote, NoCandidate, Build, Done, vars
  <2>4. CASE Reject \/ NextAttempt
    BY <2>4 DEF Reject, NextAttempt
  <2>5. CASE Draft
    BY <2>5 DEF Draft, Keep
  <2>6. QED
    BY <2>1, <2>2, <2>3, <2>4, <2>5 DEF Next
<1>6. /\ rejected' \subseteq Texts /\ printed' \subseteq Texts
      /\ draft' \in Maybe /\ last' \in Maybe /\ final' \in Maybe
      /\ pending' \in Maybe /\ candidate' \in Maybe /\ fresh' \in Maybe
  <2> USE TextAssumption DEF TypeOK, Maybe, TextAssumption
  <2>1. CASE ReplyWithoutCall \/ ReplyWithCall \/ OpenFails \/ NothingRuns
             \/ BlockRefused \/ BlockStarts \/ BlockRaises \/ BlockTimesOut
    BY <2>1 DEF ReplyWithoutCall, ReplyWithCall, Open, OpenFails, NothingRuns,
                BlockRefused, BlockStarts, BlockRaises, BlockTimesOut
  <2>2. CASE \/ \E text \in Texts : BlockSubmits(text)
             \/ \E stdout \in Texts \cup {NoText}, traces, extra \in BOOLEAN :
                  BlockEnds(stdout, traces, extra)
    BY <2>2 DEF BlockSubmits, BlockEnds
  <2>3. CASE Fails \/ NoCandidate \/ Build \/ NextAttempt \/ Done \/ UNCHANGED vars
    BY <2>3 DEF Fails, NoCandidate, Build, NextAttempt, Done, vars
  <2>4. CASE Promote \/ Reject
    BY <2>4 DEF Promote, Reject
  <2>5. CASE Draft
    BY <2>5 DEF Draft, Keep
  <2>6. QED
    BY <2>1, <2>2, <2>3, <2>4, <2>5 DEF Next
<1>7. QED
  BY <1>2, <1>3, <1>4, <1>5, <1>6 DEF TypeOK, Attempts, Observations

(***************************************************************************)
(* Position: attempts are counted down where they begin, builds and        *)
(* candidates where an attempt is judged.                                  *)
(***************************************************************************)
LEMMA PositionStep == TypeOK /\ Position /\ [Next]_vars => Position'
<1> SUFFICES ASSUME TypeOK, Position, [Next]_vars PROVE Position'
  OBVIOUS
<1> USE NumbersAreNatural
        DEF TypeOK, Position, Reserved, drafts, tally, policy, session, result, End
<1>1. CASE ReplyWithoutCall
  BY <1>1 DEF ReplyWithoutCall, NewAttempt
<1>2. CASE ReplyWithCall
  BY <1>2 DEF ReplyWithCall, NewAttempt
<1>3. CASE OpenFails
  BY <1>3 DEF OpenFails, NewAttempt
<1>4. CASE NothingRuns \/ BlockRefused \/ BlockStarts
  BY <1>4 DEF NothingRuns, BlockRefused, BlockStarts
<1>5. CASE \/ \E text \in Texts : BlockSubmits(text)
           \/ \E stdout \in Texts \cup {NoText}, traces, extra \in BOOLEAN :
                BlockEnds(stdout, traces, extra)
  BY <1>5 DEF BlockSubmits, BlockEnds
<1>6. CASE BlockRaises \/ BlockTimesOut \/ Fails \/ Promote
  BY <1>6 DEF BlockRaises, BlockTimesOut, Fails, Promote
<1>7. CASE Reject
  BY <1>7 DEF Reject, Spent
<1>8. CASE NoCandidate
  BY <1>8 DEF NoCandidate
<1>9. CASE Build
  BY <1>9 DEF Build
<1>10. CASE Draft
  BY <1>10 DEF Draft
<1>11. CASE NextAttempt
  BY <1>11 DEF NextAttempt, Earns
<1>12. CASE Done \/ UNCHANGED vars
  BY <1>12 DEF Done, vars
<1>13. QED
  BY <1>1, <1>2, <1>3, <1>4, <1>5, <1>6, <1>7, <1>8, <1>9, <1>10, <1>11,
     <1>12 DEF Next

(***************************************************************************)
(* Window: what is read after a block is what that block ended with.       *)
(***************************************************************************)
LEMMA WindowStep == TypeOK /\ Window /\ [Next]_vars => Window'
<1> SUFFICES ASSUME TypeOK, Window, [Next]_vars PROVE Window'
  OBVIOUS
<1> USE TextAssumption
        DEF TypeOK, TextAssumption, Window, drafts, tally, policy, session, result, End
<1>1. CASE ReplyWithoutCall \/ OpenFails \/ Fails
  BY <1>1 DEF ReplyWithoutCall, OpenFails, Fails
<1>2. CASE ReplyWithCall
  BY <1>2 DEF ReplyWithCall, Open
<1>3. CASE NothingRuns \/ BlockRefused \/ BlockStarts
  BY <1>3 DEF NothingRuns, BlockRefused, BlockStarts
<1>4. CASE \E text \in Texts : BlockSubmits(text)
  BY <1>4 DEF BlockSubmits
<1>5. CASE \E stdout \in Texts \cup {NoText}, traces, extra \in BOOLEAN :
             BlockEnds(stdout, traces, extra)
  BY <1>5 DEF BlockEnds
<1>6. CASE BlockRaises \/ BlockTimesOut
  BY <1>6 DEF BlockRaises, BlockTimesOut
<1>7. CASE Promote
  BY <1>7 DEF Promote
<1>8. CASE Reject
  BY <1>8 DEF Reject
<1>9. CASE NoCandidate \/ Build
  BY <1>9 DEF NoCandidate, Build
<1>10. CASE Draft
  BY <1>10 DEF Draft
<1>11. CASE NextAttempt
  BY <1>11 DEF NextAttempt
<1>12. CASE Done \/ UNCHANGED vars
  BY <1>12 DEF Done, vars
<1>13. QED
  BY <1>1, <1>2, <1>3, <1>4, <1>5, <1>6, <1>7, <1>8, <1>9, <1>10, <1>11,
     <1>12 DEF Next

(***************************************************************************)
(* Only a rejected candidate and a printed text change the draft, and each *)
(* sets its readiness again.                                               *)
(***************************************************************************)
LEMMA ReadyStep == TypeOK /\ ReadyDraftIsValid /\ [Next]_vars => ReadyDraftIsValid'
<1> SUFFICES ASSUME TypeOK, ReadyDraftIsValid, [Next]_vars PROVE ReadyDraftIsValid'
  OBVIOUS
<1> USE DEF ReadyDraftIsValid, drafts
<1>1. CASE Reject
  BY <1>1 DEF Reject
<1>2. CASE Draft
  BY <1>2 DEF Draft, Keep
<1>3. CASE ReplyWithoutCall \/ ReplyWithCall \/ OpenFails \/ NothingRuns
           \/ BlockRefused \/ BlockStarts \/ BlockRaises \/ BlockTimesOut
  BY <1>3 DEF ReplyWithoutCall, ReplyWithCall, OpenFails, NothingRuns,
              BlockRefused, BlockStarts, BlockRaises, BlockTimesOut
<1>4. CASE \/ \E text \in Texts : BlockSubmits(text)
           \/ \E stdout \in Texts \cup {NoText}, traces, extra \in BOOLEAN :
                BlockEnds(stdout, traces, extra)
  BY <1>4 DEF BlockSubmits, BlockEnds
<1>5. CASE Fails \/ Promote \/ NoCandidate \/ Build \/ NextAttempt
           \/ Done \/ UNCHANGED vars
  BY <1>5 DEF Fails, Promote, NoCandidate, Build, NextAttempt, Done, vars
<1>6. QED
  BY <1>1, <1>2, <1>3, <1>4, <1>5 DEF Next
-----------------------------------------------------------------------------
(***************************************************************************)
(* The inductive invariant holds in every state of a repair.               *)
(***************************************************************************)
LEMMA InvCorrect == Spec => []IInv
<1>1. IInv /\ [Next]_vars => IInv'
  BY TypeStep, PositionStep, WindowStep, ReadyStep DEF IInv
<1>2. QED
  BY InvInit, <1>1, PTL DEF Spec

(***************************************************************************)
(* Every variable stays in its type; no policy lets a repair send more     *)
(* requests than its attempts, retries and reserve, or judge more          *)
(* candidates than max_presentation_attempts.                              *)
(***************************************************************************)
THEOREM TypeCorrect == Spec => []TypeOK
<1>1. IInv => TypeOK
  BY DEF IInv
<1>2. QED
  BY InvCorrect, <1>1, PTL

(***************************************************************************)
(* The text the loop reads and promotes is the one the block of the        *)
(* current attempt ended with, and it validates.                           *)
(***************************************************************************)
THEOREM FreshCorrect == Spec => []CandidateIsFresh
<1>1. IInv => CandidateIsFresh
  BY DEF IInv, Window, CandidateIsFresh
<1>2. QED
  BY InvCorrect, <1>1, PTL

(***************************************************************************)
(* The request beyond the ordinary ones is earned, single, commit-only and *)
(* with a candidate left to submit.                                        *)
(***************************************************************************)
THEOREM ReserveCorrect == Spec => []ReserveIsEarned
<1>1. IInv => ReserveIsEarned
  BY NumbersAreNatural DEF IInv, TypeOK, Position, Reserved, ReserveIsEarned
<1>2. QED
  BY InvCorrect, <1>1, PTL

(***************************************************************************)
(* A draft that is called ready validates.                                 *)
(***************************************************************************)
THEOREM ReadyCorrect == Spec => []ReadyDraftIsValid
<1>1. IInv => ReadyDraftIsValid
  BY DEF IInv
<1>2. QED
  BY InvCorrect, <1>1, PTL

(***************************************************************************)
(* Every text a repair acts on is current: the two theorems together.      *)
(***************************************************************************)
THEOREM TextsCorrect == Spec => []TextsAreCurrent
<1>1. CandidateIsFresh /\ ReadyDraftIsValid => TextsAreCurrent
  BY DEF TextsAreCurrent
<1>2. QED
  BY FreshCorrect, ReadyCorrect, <1>1, PTL
=============================================================================
