------------------------- MODULE EpisodeLoop_proofs -------------------------
(***************************************************************************)
(* Proofs about one episode, for every budget, every policy and every set  *)
(* of values the model may submit.                                         *)
(***************************************************************************)
EXTENDS EpisodeLoop, TLAPS

(***************************************************************************)
(* "Half-finished work must never be published": the answer an episode     *)
(* returns was offered in a block that ended without raising, whatever     *)
(* blocks that raised, timed out or were voided before it offered, and a   *)
(* reference to an artifact nobody wrote is never the answer.              *)
(***************************************************************************)
OnlyFinishedBlocksDeliver ==
  /\ submitted \in clean \cup {NoValue}
  /\ answer \in (clean \ Dangling) \cup {NoValue}

(***************************************************************************)
(* While the model is asked again, the session holds no committed answer:  *)
(* a delivery is either returned or voided in the same turn, in the        *)
(* ordinary loop and in the commit phase, so the channel is never closed   *)
(* by an answer that nobody will read.                                     *)
(***************************************************************************)
ChannelStaysOpen == stage # "done" /\ at = "ask" => submitted = NoValue

(***************************************************************************)
(* Only what a finished block offered is delivered, and no delivery is left *)
(* in the session for nobody (Session.execute, read_submission).           *)
(***************************************************************************)
DeliveryIsSound == OnlyFinishedBlocksDeliver /\ ChannelStaysOpen

(***************************************************************************)
(* Requests are turns, and afterwards commit attempts.                     *)
(***************************************************************************)
Requests ==
  /\ stage = "run" => attempt = 0
  /\ asked <= turns + attempt

(***************************************************************************)
(* Errors and truncations count each barren turn once.  A turn in progress *)
(* was begun below every limit and is not counted yet.                     *)
(***************************************************************************)
Barren ==
  /\ barren = errs + truncs
  /\ barren <= turns
  /\ StallIsCaught
  /\ stage = "run" /\ at # "ask" =>
       /\ barren < turns
       /\ MaxErrors > 0 => errs < MaxErrors
       /\ truncs < MaxTruncations /\ dups < MaxDuplicates

Flags ==
  /\ ran \in BOOLEAN /\ partial \in BOOLEAN /\ cut \in BOOLEAN
  /\ spent \in BOOLEAN /\ sweep \in BOOLEAN
Observations == [ok : BOOLEAN, progress : BOOLEAN, repeat : BOOLEAN,
                 sweep : {"none", "partial", "complete"}]

(***************************************************************************)
(* A block begins with nothing committed: every delivery was returned or   *)
(* voided before the model was asked.  None runs when the episode is over. *)
(***************************************************************************)
BlockIsFresh ==
  /\ at = "block" => submitted = NoValue
  /\ stage = "done" => at = "ask"

IInv == TypeOK /\ DeliveryIsSound /\ BlockIsFresh /\ Requests /\ Barren
-----------------------------------------------------------------------------
LEMMA Limits ==
  /\ MaxTurns \in Nat /\ MaxErrors \in Nat /\ MaxCommits \in Nat
  /\ MaxRecoveries \in Nat /\ MaxSubmits \in Nat
  /\ MaxTruncations \in Nat /\ MaxTruncations > 0
  /\ MaxDuplicates \in Nat /\ MaxDuplicates > 0
  BY LoopAssumption DEF LoopAssumption

\* An observation keeps its form whatever is put into its fields.
LEMMA ObservationTypes ==
  /\ Nothing \in Observations
  /\ \A b \in BOOLEAN : [Nothing EXCEPT !.repeat = b] \in Observations
  /\ \A o \in Observations, b \in BOOLEAN, s \in {"none", "complete", "partial"} :
       /\ [o EXCEPT !.ok = b] \in Observations
       /\ [o EXCEPT !.progress = TRUE, !.sweep = s] \in Observations
       /\ [Nothing EXCEPT !.repeat = o.repeat] \in Observations
  BY DEF Nothing, Observations

\* What the last turn's observation makes of the memory of a partial sweep.
LEMMA PartialTypes == ASSUME TypeOK PROVE NextPartial \in BOOLEAN
  BY DEF TypeOK, NextPartial

LEMMA InvInit == Init => IInv
<1> SUFFICES ASSUME Init PROVE IInv
  OBVIOUS
<1> USE Limits
<1>1. TypeOK
  <2>1. obs \in Observations
    BY ObservationTypes DEF Init
  <2>2. Flags
    BY DEF Init, Flags
  <2>3. QED
    BY <2>1, <2>2 DEF Init, TypeOK, Observations, Flags
<1>2. DeliveryIsSound /\ BlockIsFresh
  BY DEF Init, DeliveryIsSound, OnlyFinishedBlocksDeliver, ChannelStaysOpen, BlockIsFresh
<1>3. Requests /\ Barren
  BY DEF Init, Requests, Barren, StallIsCaught
<1>4. QED
  BY <1>1, <1>2, <1>3 DEF IInv
-----------------------------------------------------------------------------
\* The observation of a turn keeps its form.
LEMMA ObservationStep == IInv /\ [Next]_vars => obs' \in Observations
<1> SUFFICES ASSUME IInv, [Next]_vars PROVE obs' \in Observations
  OBVIOUS
<1>1. obs \in Observations
  BY DEF IInv, TypeOK, Observations
<1>2. CASE \/ RunText \/ RunEmpty \/ RunTruncated \/ RunMalformed \/ CommitText
           \/ CommitTruncated \/ BlockSubmits \/ Deliver \/ StartCommit \/ CommitEnds
           \/ EpisodeFails
  BY <1>1, <1>2 DEF RunText, RunEmpty, RunTruncated, RunMalformed, CommitText,
     CommitTruncated, BlockSubmits, Deliver, StartCommit, CommitEnds, EpisodeFails
<1>3. CASE RunNoBlock \/ CommitNoBlock \/ RunGoesOn \/ CommitGoesOn
  BY <1>3, ObservationTypes DEF RunNoBlock, CommitNoBlock, RunGoesOn, CommitGoesOn
<1>4. CASE RunBlock \/ CommitBlock
  BY <1>4, ObservationTypes DEF RunBlock, CommitBlock, Begin
<1>5. CASE BlockWorks
  <2>1. PICK s \in {"none", "complete", "partial"} :
          obs' = [obs EXCEPT !.progress = TRUE, !.sweep = s]
    BY <1>5 DEF BlockWorks
  <2>2. QED
    BY <1>1, <2>1, ObservationTypes
<1>6. ASSUME NEW ok \in BOOLEAN, EndBlock(ok) PROVE obs' \in Observations
  BY <1>1, <1>6, ObservationTypes DEF EndBlock
<1>7. CASE BlockTimesOut
  BY <1>1, <1>7, ObservationTypes DEF BlockTimesOut
<1>8. CASE Over \/ UNCHANGED vars
  BY <1>1, <1>8 DEF Over, vars
<1>9. QED
  BY <1>2, <1>3, <1>4, <1>5, <1>6, <1>7, <1>8 DEF Next, Model, Block, Harness

\* Everything that is true or false stays so.
LEMMA FlagStep == IInv /\ [Next]_vars => Flags'
<1> SUFFICES ASSUME IInv, [Next]_vars PROVE Flags'
  OBVIOUS
<1>0. Flags
  BY DEF IInv, TypeOK, Flags
<1>00. NextPartial \in BOOLEAN
  BY PartialTypes DEF IInv
<1> USE <1>0 DEF Flags, counters, budget, commit, session, result
<1>1. CASE RunText
  BY <1>1 DEF RunText, AskRun, Spends, Finish
<1>2. CASE RunEmpty
  BY <1>2 DEF RunEmpty, AskRun, Spends, Finish
<1>3. CASE RunTruncated
  BY <1>3 DEF RunTruncated, AskRun, Spends
<1>4. CASE RunMalformed
  BY <1>4 DEF RunMalformed, AskRun, Spends
<1>5. CASE RunNoBlock
  BY <1>5 DEF RunNoBlock, AskRun, Spends
<1>6. CASE RunBlock
  BY <1>6 DEF RunBlock, AskRun, Spends, Begin
<1>7. CASE CommitText
  BY <1>7 DEF CommitText, AskCommit, Spends, Finish
<1>8. CASE CommitTruncated
  BY <1>8 DEF CommitTruncated, AskCommit, Spends
<1>9. CASE CommitNoBlock
  BY <1>9 DEF CommitNoBlock, AskCommit, Spends
<1>10. CASE CommitBlock
  BY <1>10 DEF CommitBlock, AskCommit, Spends, Begin
<1>11. CASE BlockSubmits
  BY <1>11 DEF BlockSubmits
<1>12. CASE BlockWorks
  BY <1>12 DEF BlockWorks, Spends
<1>13. CASE BlockTimesOut
  BY <1>13 DEF BlockTimesOut, Spends
<1>14. ASSUME NEW ok \in BOOLEAN, EndBlock(ok) PROVE Flags'
  BY <1>14 DEF EndBlock
<1>15. CASE RunGoesOn
  BY <1>15, <1>00 DEF RunGoesOn
<1>16. CASE Deliver
  BY <1>16, <1>00 DEF Deliver, Finish
<1>17. CASE StartCommit
  BY <1>17 DEF StartCommit
<1>18. CASE CommitGoesOn
  BY <1>18, <1>00 DEF CommitGoesOn
<1>19. CASE CommitEnds
  BY <1>19 DEF CommitEnds, Finish
<1>20. CASE EpisodeFails
  BY <1>20 DEF EpisodeFails, Finish
<1>21. CASE Over \/ UNCHANGED vars
  BY <1>21 DEF Over, vars
<1>22. QED
  BY <1>1, <1>2, <1>3, <1>4, <1>5, <1>6, <1>7, <1>8, <1>9, <1>10, <1>11, <1>12,
     <1>13, <1>14, <1>15, <1>16, <1>17, <1>18, <1>19, <1>20, <1>21 DEF Next, Model,
     Block, Harness

\* Limits are checked where a turn begins, and counted up by one.
LEMMA TypeStep == IInv /\ [Next]_vars => TypeOK'
<1> SUFFICES ASSUME IInv, [Next]_vars PROVE TypeOK'
  OBVIOUS
<1> USE Limits DEF IInv, TypeOK, Observations, Flags, Barren, counters, budget,
   commit, session, result
<1>1. CASE RunText
  BY <1>1, FlagStep, ObservationStep DEF RunText, AskRun, Exhausted, Stalled, Finish
<1>2. CASE RunEmpty
  BY <1>2, FlagStep, ObservationStep DEF RunEmpty, AskRun, Exhausted, Stalled,
     Finish
<1>3. CASE RunTruncated
  BY <1>3, FlagStep, ObservationStep DEF RunTruncated, AskRun, Exhausted, Stalled
<1>4. CASE RunMalformed
  BY <1>4, FlagStep, ObservationStep DEF RunMalformed, AskRun, Exhausted, Stalled
<1>5. CASE RunNoBlock
  BY <1>5, FlagStep, ObservationStep DEF RunNoBlock, AskRun, Exhausted, Stalled
<1>6. CASE RunBlock
  BY <1>6, FlagStep, ObservationStep DEF RunBlock, AskRun, Exhausted, Stalled, Begin
<1>7. CASE CommitText
  BY <1>7, FlagStep, ObservationStep DEF CommitText, AskCommit, Finish
<1>8. CASE CommitTruncated
  BY <1>8, FlagStep, ObservationStep DEF CommitTruncated, AskCommit
<1>9. CASE CommitNoBlock
  BY <1>9, FlagStep, ObservationStep DEF CommitNoBlock, AskCommit
<1>10. CASE CommitBlock
  BY <1>10, FlagStep, ObservationStep DEF CommitBlock, AskCommit, Begin
<1>11. CASE BlockSubmits
  BY <1>11, FlagStep, ObservationStep DEF BlockSubmits
<1>12. CASE BlockWorks
  BY <1>12, FlagStep, ObservationStep DEF BlockWorks
<1>13. CASE BlockTimesOut
  BY <1>13, FlagStep, ObservationStep DEF BlockTimesOut
<1>14. ASSUME NEW ok \in BOOLEAN, EndBlock(ok) PROVE TypeOK'
  BY <1>14, FlagStep, ObservationStep DEF EndBlock
<1>15. CASE RunGoesOn
  BY <1>15, FlagStep, ObservationStep DEF RunGoesOn, Absent, Void, Count
<1>16. CASE Deliver
  BY <1>16, FlagStep, ObservationStep DEF Deliver, Finish
<1>17. CASE StartCommit
  BY <1>17, FlagStep, ObservationStep DEF StartCommit
<1>18. CASE CommitGoesOn
  BY <1>18, FlagStep, ObservationStep DEF CommitGoesOn, Absent, Void
<1>19. CASE CommitEnds
  BY <1>19, FlagStep, ObservationStep DEF CommitEnds, Finish
<1>20. CASE EpisodeFails
  BY <1>20, FlagStep, ObservationStep DEF EpisodeFails, Finish
<1>21. CASE Over \/ UNCHANGED vars
  BY <1>21 DEF Over, vars
<1>22. QED
  BY <1>1, <1>2, <1>3, <1>4, <1>5, <1>6, <1>7, <1>8, <1>9, <1>10, <1>11, <1>12,
     <1>13, <1>14, <1>15, <1>16, <1>17, <1>18, <1>19, <1>20, <1>21 DEF Next, Model,
     Block, Harness

(***************************************************************************)
(* A value enters the session only at the end of a block that did not      *)
(* raise, and the loop asks again only after it took or voided it.         *)
(***************************************************************************)
LEMMA DeliveryStep == IInv /\ [Next]_vars => (DeliveryIsSound /\ BlockIsFresh)'
<1> SUFFICES ASSUME IInv, [Next]_vars PROVE (DeliveryIsSound /\ BlockIsFresh)'
  OBVIOUS
<1> USE Limits DEF IInv, TypeOK, DeliveryIsSound, OnlyFinishedBlocksDeliver,
   ChannelStaysOpen, BlockIsFresh, counters, budget, commit, session, result
<1>1. CASE RunText
  BY <1>1 DEF RunText, AskRun, Finish
<1>2. CASE RunEmpty
  BY <1>2 DEF RunEmpty, AskRun, Finish
<1>3. CASE RunTruncated
  BY <1>3 DEF RunTruncated, AskRun
<1>4. CASE RunMalformed
  BY <1>4 DEF RunMalformed, AskRun
<1>5. CASE RunNoBlock
  BY <1>5 DEF RunNoBlock, AskRun
<1>6. CASE RunBlock
  BY <1>6 DEF RunBlock, AskRun, Begin
<1>7. CASE CommitText
  BY <1>7 DEF CommitText, AskCommit, Finish
<1>8. CASE CommitTruncated
  BY <1>8 DEF CommitTruncated, AskCommit
<1>9. CASE CommitNoBlock
  BY <1>9 DEF CommitNoBlock, AskCommit
<1>10. CASE CommitBlock
  BY <1>10 DEF CommitBlock, AskCommit, Begin
<1>11. CASE BlockSubmits
  BY <1>11 DEF BlockSubmits
<1>12. CASE BlockWorks
  BY <1>12 DEF BlockWorks
<1>13. CASE BlockTimesOut
  BY <1>13 DEF BlockTimesOut
<1>14. ASSUME NEW ok \in BOOLEAN, EndBlock(ok) PROVE (DeliveryIsSound /\ BlockIsFresh)'
  BY <1>14 DEF EndBlock
<1>15. CASE RunGoesOn
  BY <1>15 DEF RunGoesOn, Absent, Void
<1>16. CASE Deliver
  BY <1>16 DEF Deliver, Finish
<1>17. CASE StartCommit
  BY <1>17 DEF StartCommit
<1>18. CASE CommitGoesOn
  BY <1>18 DEF CommitGoesOn, Absent, Void
<1>19. CASE CommitEnds
  BY <1>19 DEF CommitEnds, Finish
<1>20. CASE EpisodeFails
  BY <1>20 DEF EpisodeFails, Finish
<1>21. CASE Over \/ UNCHANGED vars
  BY <1>21 DEF Over, vars
<1>22. QED
  BY <1>1, <1>2, <1>3, <1>4, <1>5, <1>6, <1>7, <1>8, <1>9, <1>10, <1>11, <1>12,
     <1>13, <1>14, <1>15, <1>16, <1>17, <1>18, <1>19, <1>20, <1>21 DEF Next, Model,
     Block, Harness

\* Each request is a turn or an attempt, each barren turn one count.
LEMMA EffortStep == IInv /\ [Next]_vars => (Requests /\ Barren)'
<1> SUFFICES ASSUME IInv, [Next]_vars PROVE (Requests /\ Barren)'
  OBVIOUS
<1> USE Limits DEF IInv, TypeOK, Requests, Barren, StallIsCaught, counters,
   budget, commit, session, result
<1>1. CASE RunText
  BY <1>1 DEF RunText, AskRun, Exhausted, Stalled, Finish
<1>2. CASE RunEmpty
  BY <1>2 DEF RunEmpty, AskRun, Exhausted, Stalled, Finish
<1>3. CASE RunTruncated
  BY <1>3 DEF RunTruncated, AskRun, Exhausted, Stalled
<1>4. CASE RunMalformed
  BY <1>4 DEF RunMalformed, AskRun, Exhausted, Stalled
<1>5. CASE RunNoBlock
  BY <1>5 DEF RunNoBlock, AskRun, Exhausted, Stalled
<1>6. CASE RunBlock
  BY <1>6 DEF RunBlock, AskRun, Exhausted, Stalled, Begin
<1>7. CASE CommitText
  BY <1>7 DEF CommitText, AskCommit, Finish
<1>8. CASE CommitTruncated
  BY <1>8 DEF CommitTruncated, AskCommit
<1>9. CASE CommitNoBlock
  BY <1>9 DEF CommitNoBlock, AskCommit
<1>10. CASE CommitBlock
  BY <1>10 DEF CommitBlock, AskCommit, Begin
<1>11. CASE BlockSubmits
  BY <1>11 DEF BlockSubmits
<1>12. CASE BlockWorks
  BY <1>12 DEF BlockWorks
<1>13. CASE BlockTimesOut
  BY <1>13 DEF BlockTimesOut
<1>14. ASSUME NEW ok \in BOOLEAN, EndBlock(ok) PROVE (Requests /\ Barren)'
  BY <1>14 DEF EndBlock
<1>15. CASE RunGoesOn
  BY <1>15 DEF RunGoesOn, Count
<1>16. CASE Deliver
  BY <1>16 DEF Deliver, Finish
<1>17. CASE StartCommit
  BY <1>17 DEF StartCommit
<1>18. CASE CommitGoesOn
  BY <1>18 DEF CommitGoesOn
<1>19. CASE CommitEnds
  BY <1>19 DEF CommitEnds, Finish
<1>20. CASE EpisodeFails
  BY <1>20 DEF EpisodeFails, Finish
<1>21. CASE Over \/ UNCHANGED vars
  BY <1>21 DEF Over, vars
<1>22. QED
  BY <1>1, <1>2, <1>3, <1>4, <1>5, <1>6, <1>7, <1>8, <1>9, <1>10, <1>11, <1>12,
     <1>13, <1>14, <1>15, <1>16, <1>17, <1>18, <1>19, <1>20, <1>21 DEF Next, Model,
     Block, Harness
-----------------------------------------------------------------------------
LEMMA InvStep == IInv /\ [Next]_vars => IInv'
  BY TypeStep, DeliveryStep, EffortStep DEF IInv

LEMMA InvCorrect == Spec => []IInv
<1>1. QED
  BY InvInit, InvStep, PTL DEF Spec

(***************************************************************************)
(* The types; no limit of the ordinary loop and no allowance of the commit *)
(* phase is passed (run and _commit of NativeLoop).                        *)
(***************************************************************************)
THEOREM TypeCorrect == Spec => []TypeOK
<1>1. IInv => TypeOK
  BY DEF IInv
<1>2. QED
  BY <1>1, InvCorrect, PTL

(***************************************************************************)
(* Only what a finished block offered is delivered, whatever blocks raise, *)
(* time out or are voided, and no delivery is left in the session while    *)
(* the model is asked again (Session.execute, read_submission).            *)
(***************************************************************************)
THEOREM DeliveryCorrect == Spec => []DeliveryIsSound
<1>1. IInv => DeliveryIsSound
  BY DEF IInv
<1>2. QED
  BY <1>1, InvCorrect, PTL

(***************************************************************************)
(* An episode that gets nowhere stops before both limits together, and the *)
(* requests it sends are bounded by the turns and the commit attempts      *)
(* (run and _commit of NativeLoop).                                        *)
(***************************************************************************)
THEOREM EffortCorrect == Spec => []EffortIsBounded
<1>1. IInv => EffortIsBounded
  <2> SUFFICES ASSUME IInv PROVE EffortIsBounded
    OBVIOUS
  <2>1. /\ turns <= MaxTurns /\ attempt <= MaxCommits + MaxRecoveries
        /\ asked <= turns + attempt
        /\ {turns, attempt, asked} \subseteq Nat
    BY Limits DEF IInv, TypeOK, Requests
  <2>2. RequestsAreBounded
    BY <2>1, Limits DEF RequestsAreBounded
  <2>3. StallIsCaught
    BY DEF IInv, Barren
  <2>4. QED
    BY <2>2, <2>3 DEF EffortIsBounded
<1>2. QED
  BY <1>1, InvCorrect, PTL
-----------------------------------------------------------------------------
(***************************************************************************)
(* The episode implements DeliveryContract.                                *)
(***************************************************************************)
LEMMA ContractInit == Init => DC!Init
  BY DEF Init, DC!Init

\* A request of either stage is one of those the contract allows.
LEMMA RequestsAllowed ==
  ASSUME IInv, AskRun \/ AskCommit
  PROVE  /\ stage # "done" /\ at = "ask"
         /\ asked < MaxTurns + MaxCommits + MaxRecoveries
         /\ asked' = asked + 1
<1>1. /\ asked \in Nat /\ turns \in Nat /\ attempt \in Nat /\ allowed \in Nat
      /\ asked <= turns + attempt /\ turns <= MaxTurns
      /\ allowed <= MaxCommits + MaxRecoveries
      /\ stage = "run" => attempt = 0
  BY Limits DEF IInv, TypeOK, Requests
<1>2. CASE AskRun
  BY <1>1, <1>2, Limits DEF AskRun, Exhausted
<1>3. CASE AskCommit
  BY <1>1, <1>3, Limits DEF AskCommit
<1>4. QED
  BY <1>2, <1>3

\* A reply that does not end the episode.
LEMMA ReplyAsks ==
  ASSUME IInv,
         \/ RunTruncated \/ RunMalformed \/ RunNoBlock \/ RunBlock
         \/ CommitTruncated \/ CommitNoBlock \/ CommitBlock
  PROVE  DC!Ask
<1>1. AskRun \/ AskCommit
  BY DEF RunTruncated, RunMalformed, RunNoBlock, RunBlock, CommitTruncated,
     CommitNoBlock, CommitBlock
<1>2. /\ stage # "done" /\ at = "ask" /\ asked' = asked + 1
      /\ asked < MaxTurns + MaxCommits + MaxRecoveries
  BY <1>1, RequestsAllowed
<1>3. /\ at' \in {"ask", "block", "observed"} /\ stage' = stage
      /\ UNCHANGED <<submitted, clean, outcome, answer>>
  <2>1. CASE RunTruncated \/ RunMalformed \/ CommitTruncated
    BY <1>2, <2>1 DEF RunTruncated, RunMalformed, CommitTruncated, result, session
  <2>2. CASE RunNoBlock \/ CommitNoBlock
    BY <2>2 DEF RunNoBlock, CommitNoBlock, result, session
  <2>3. CASE RunBlock \/ CommitBlock
    BY <2>3 DEF RunBlock, CommitBlock, Begin, result
  <2>4. QED
    BY <2>1, <2>2, <2>3
<1>4. QED
  BY <1>2, <1>3 DEF DC!Ask, DC!Request

\* A reply that ends it.
LEMMA ReplyEnds ==
  ASSUME IInv, RunText \/ RunEmpty \/ CommitText
  PROVE  DC!AskLast
<1>1. AskRun \/ AskCommit
  BY DEF RunText, RunEmpty, CommitText
<1>2. /\ stage # "done" /\ at = "ask" /\ asked' = asked + 1
      /\ asked < MaxTurns + MaxCommits + MaxRecoveries
  BY <1>1, RequestsAllowed
<1>3. /\ stage' = "done" /\ outcome' \in {"text", "nothing"}
      /\ answer' = NoValue /\ UNCHANGED <<submitted, clean>>
  BY DEF RunText, RunEmpty, CommitText, Finish, session
<1>4. QED
  BY <1>2, <1>3 DEF DC!AskLast, DC!Request, DC!End

\* What a block does is seen when it ends, and then it leaves one value or none.
LEMMA BlockLeaves ==
  ASSUME IInv, BlockTimesOut \/ \E ok \in BOOLEAN : EndBlock(ok)
  PROVE  DC!LeaveNothing \/ \E value \in Values : DC!Leave(value)
<1>1. at = "block" /\ at' = "observed" /\ UNCHANGED <<stage, asked, outcome, answer>>
  BY DEF BlockTimesOut, EndBlock, result
<1>2. stage # "done"
  BY <1>1 DEF IInv, BlockIsFresh
<1>3. submitted = NoValue
  BY <1>1, <1>2 DEF IInv, BlockIsFresh
<1>4. \/ submitted' = submitted /\ clean' = clean
      \/ submitted' \in Values /\ clean' = clean \cup {submitted'}
  <2>1. offer \in Values \cup {NoValue}
    BY DEF IInv, TypeOK
  <2>2. CASE BlockTimesOut
    BY <1>3, <2>2 DEF BlockTimesOut
  <2>3. CASE \E ok \in BOOLEAN : EndBlock(ok)
    BY <2>1, <2>3 DEF EndBlock
  <2>4. QED
    BY <2>2, <2>3
<1>5. CASE submitted' = submitted /\ clean' = clean
  BY <1>1, <1>2, <1>3, <1>5 DEF DC!LeaveNothing
<1>6. CASE submitted' \in Values /\ clean' = clean \cup {submitted'}
  <2>1. DC!Leave(submitted')
    BY <1>1, <1>2, <1>3, <1>6 DEF DC!Leave
  <2>2. QED
    BY <1>6, <2>1
<1>7. QED
  BY <1>4, <1>5, <1>6

\* After the observation of a turn.
LEMMA ObservedSettles ==
  ASSUME IInv, RunGoesOn \/ CommitGoesOn \/ Deliver
  PROVE  DC!Drop \/ DC!Hand
<1>1. CASE RunGoesOn \/ CommitGoesOn
  <2>1. /\ stage # "done" /\ stage' = stage /\ at = "observed" /\ at' = "ask"
        /\ UNCHANGED <<asked, clean, outcome, answer>>
    BY <1>1 DEF RunGoesOn, CommitGoesOn, result
  <2>2. submitted \in Dangling \cup {NoValue} /\ submitted' = NoValue
    BY <1>1 DEF RunGoesOn, CommitGoesOn, Absent, Void
  <2>3. DC!Drop
    BY <2>1, <2>2 DEF DC!Drop
  <2>4. QED
    BY <2>3
<1>2. CASE Deliver
  <2>1. /\ at = "observed" /\ submitted \in Values \ Dangling
        /\ stage' = "done" /\ outcome' = "value" /\ answer' = submitted
        /\ UNCHANGED <<asked, submitted, clean>>
    BY <1>2 DEF Deliver, Finish, session
  <2>2. stage # "done"
    BY <2>1 DEF IInv, BlockIsFresh
  <2>3. DC!Hand
    BY <2>1, <2>2 DEF DC!Hand, DC!End
  <2>4. QED
    BY <2>3
<1>3. QED
  BY <1>1, <1>2

LEMMA ContractStep == IInv /\ [Next]_vars => [DC!Next]_(DC!vars)
<1> SUFFICES ASSUME IInv, [Next]_vars PROVE [DC!Next]_(DC!vars)
  OBVIOUS
<1>1. CASE Model
  <2>1. DC!Ask \/ DC!AskLast
    BY <1>1, ReplyAsks, ReplyEnds DEF Model
  <2>2. QED
    BY <2>1 DEF DC!Next
<1>2. CASE BlockTimesOut \/ \E ok \in BOOLEAN : EndBlock(ok)
  BY <1>2, BlockLeaves DEF DC!Next
<1>3. CASE BlockSubmits \/ BlockWorks
  <2>1. UNCHANGED <<stage, at, asked, submitted, clean, outcome, answer>>
    BY <1>3 DEF BlockSubmits, BlockWorks, result
  <2>2. QED
    BY <2>1 DEF DC!vars
<1>4. CASE RunGoesOn \/ CommitGoesOn \/ Deliver
  BY <1>4, ObservedSettles DEF DC!Next
<1>5. CASE StartCommit
  <2>1. /\ stage # "done" /\ stage' # "done"
        /\ UNCHANGED <<at, asked, submitted, clean, outcome, answer>>
    BY <1>5 DEF StartCommit, result, session
  <2>2. QED
    BY <2>1 DEF DC!vars
<1>6. CASE CommitEnds
  <2>1. /\ stage # "done" /\ at = "ask" /\ stage' = "done"
        /\ outcome' = "nothing" /\ answer' = NoValue
        /\ UNCHANGED <<asked, submitted, clean>>
    BY <1>6 DEF CommitEnds, Finish, session
  <2>2. DC!GiveUp
    BY <2>1 DEF DC!GiveUp, DC!End
  <2>3. QED
    BY <2>2 DEF DC!Next
<1>7. CASE EpisodeFails
  <2>1. /\ stage # "done" /\ stage' = "done" /\ outcome' = "error"
        /\ answer' = NoValue /\ submitted' = NoValue
        /\ asked' = asked /\ clean' = clean
    BY <1>7 DEF EpisodeFails, Finish
  <2>2. at # "over"
    BY DEF IInv, TypeOK
  <2>3. DC!Fail
    BY <2>1, <2>2 DEF DC!Fail, DC!End
  <2>4. QED
    BY <2>3 DEF DC!Next
<1>8. CASE Over \/ UNCHANGED vars
  BY <1>8 DEF Over, vars, result, session, DC!vars
<1>9. QED
  BY <1>1, <1>2, <1>3, <1>4, <1>5, <1>6, <1>7, <1>8 DEF Next, Block, Harness

(***************************************************************************)
(* The loop and the session together deliver what DeliveryContract says: a *)
(* usable value is the answer of the turn that left it, none is lost or    *)
(* overtaken by a later block, and nothing follows the end (run, _commit   *)
(* and _submission of NativeLoop, read_submission).                        *)
(***************************************************************************)
THEOREM ContractCorrect == Spec => Contract
<1>1. Init => DC!Init
  BY ContractInit
<1>2. IInv /\ [Next]_vars => [DC!Next]_(DC!vars)
  BY ContractStep
<1>3. QED
  BY <1>1, <1>2, InvCorrect, PTL DEF Spec, Contract, DC!Spec
=============================================================================
