------------------------ MODULE SemanticSweep_proofs ------------------------
(***************************************************************************)
(* SemanticSweep's type invariant, that no judgement is paid for twice,    *)
(* and that settled values stay, for every list of fragments, every set of *)
(* values and every number of calls.                                       *)
(*                                                                         *)
(* The invariant says how the four places that hold values agree: what the *)
(* cache holds is what the registry holds, the model was shown no more,    *)
(* and while a sweep is sent nothing is cached, so nothing is settled that *)
(* its jobs do not know of.  Of one run, a pass that presented nothing     *)
(* issued nothing.  The first part is about the positions of a list: that  *)
(* Nth finds one, by induction on the last position.                       *)
(*                                                                         *)
(* The last part is about Segmentation, the segmenter the sweep's          *)
(* fragments come from, and has an invariant of its own.                   *)
(***************************************************************************)
EXTENDS SemanticSweep, Segmentation, FiniteSetTheorems, SequenceTheorems,
        WellFoundedInduction, TLAPS

\* Every inhabited set of naturals has a least member.
LEMMA Least ==
  ASSUME NEW T, T \subseteq Nat, T # {}
  PROVE  \E x \in T : \A y \in T : ~(y < x)
<1> DEFINE R == {p \in Nat \X Nat : p[1] < p[2]}
<1>1. IsWellFoundedOn(R, Nat)
  BY NatLessThanWellFounded DEF OpToRel
<1>2. \E x \in T : \A y \in T : <<y, x>> \notin R
  <2> HIDE DEF R
  <2>1. QED
    BY <1>1, WFMin
<1>3. QED
  BY <1>2

\* Induction over the naturals, for a set of those that have a property.
LEMMA Induction ==
  ASSUME NEW P, 0 \in P, \A n \in P \cap Nat : n + 1 \in P
  PROVE  Nat \subseteq P
<1> SUFFICES ASSUME Nat \ P # {} PROVE FALSE
  OBVIOUS
<1>1. PICK x \in Nat \ P : \A y \in Nat \ P : ~(y < x)
  BY Least
<1>2. x # 0 /\ x - 1 \in Nat
  BY <1>1
<1>3. x - 1 \in P
  BY <1>1, <1>2
<1>4. (x - 1) + 1 \in P
  BY <1>2, <1>3
<1>5. QED
  BY <1>1, <1>2, <1>4
-----------------------------------------------------------------------------
\* Positions up to n are finitely many, and no more than n.
LEMMA Positions ==
  ASSUME NEW n \in Nat, NEW S \in SUBSET (1 .. n)
  PROVE  IsFiniteSet(S) /\ Cardinality(S) \in Nat /\ Cardinality(S) <= n
<1>1. IsFiniteSet(1 .. n) /\ Cardinality(1 .. n) = n
  BY FS_Interval
<1>2. IsFiniteSet(S) /\ Cardinality(S) <= Cardinality(1 .. n)
  BY <1>1, FS_Subset
<1>3. Cardinality(S) \in Nat
  BY <1>2, FS_CardinalityType
<1>4. QED
  BY <1>1, <1>2, <1>3

\* Some position of a set is its a-th.
Ranked(S) ==
  \A a \in 1 .. Cardinality(S) :
    \E j \in S : Cardinality({k \in S : k <= j}) = a

\* Every set of positions has them.
LEMMA PositionsAreRanked ==
  ASSUME NEW n \in Nat, NEW S \in SUBSET (1 .. n)
  PROVE  Ranked(S)
<1> DEFINE P == {m \in Nat : \A T \in SUBSET (1 .. m) : Ranked(T)}
<1>1. 0 \in P
  <2>1. ASSUME NEW T \in SUBSET (1 .. 0) PROVE Ranked(T)
    <3>1. T = {}
      OBVIOUS
    <3>2. Cardinality(T) = 0
      BY <3>1, FS_EmptySet
    <3>3. QED
      BY <3>2 DEF Ranked
  <2>2. QED
    BY <2>1
<1>2. ASSUME NEW m \in P \cap Nat PROVE m + 1 \in P
  <2>1. ASSUME NEW T \in SUBSET (1 .. m + 1) PROVE Ranked(T)
    <3> DEFINE U == T \ {m + 1}
    <3>1. U \in SUBSET (1 .. m) /\ m + 1 \in Nat
      OBVIOUS
    <3>2. Ranked(U)
      BY <3>1
    <3>3. CASE m + 1 \notin T
      <4>1. U = T
        BY <3>3
      <4>2. QED
        BY <3>2, <4>1
    <3>4. CASE m + 1 \in T
      <4>1. /\ IsFiniteSet(U) /\ Cardinality(U) \in Nat
            /\ IsFiniteSet(T) /\ Cardinality(T) \in Nat
        BY <3>1, Positions
      <4>2. Cardinality(T) = Cardinality(U) + 1
        <5>1. T = U \cup {m + 1} /\ m + 1 \notin U
          BY <3>4
        <5> HIDE DEF U
        <5>2. QED
          BY <4>1, <5>1, FS_AddElement
      <4>3. ASSUME NEW a \in 1 .. Cardinality(T)
            PROVE  \E j \in T : Cardinality({k \in T : k <= j}) = a
        <5>1. CASE a = Cardinality(T)
          <6>1. {k \in T : k <= m + 1} = T
            <7>1. \A k \in T : k <= m + 1
              OBVIOUS
            <7>2. QED
              BY <7>1
          <6>2. QED
            BY <3>4, <5>1, <6>1
        <5>2. CASE a # Cardinality(T)
          <6>1. a \in 1 .. Cardinality(U)
            BY <4>1, <4>2, <5>2
          <6>2. PICK j \in U : Cardinality({k \in U : k <= j}) = a
            BY <3>2, <6>1 DEF Ranked
          <6>3. j \in T /\ {k \in U : k <= j} = {k \in T : k <= j}
            BY <3>1
          <6>4. QED
            BY <6>2, <6>3
        <5>3. QED
          BY <5>1, <5>2
      <4>4. QED
        BY <4>3 DEF Ranked
    <3>5. QED
      BY <3>3, <3>4
  <2>2. QED
    BY <2>1
<1>3. n \in P
  <2> HIDE DEF P
  <2>1. QED
    BY <1>1, <1>2, Induction
<1>4. QED
  BY <1>3

\* So Nth finds one.
LEMMA NthIsOne ==
  ASSUME NEW n \in Nat, NEW S \in SUBSET (1 .. n), NEW a \in 1 .. Cardinality(S)
  PROVE  Nth(S, a) \in S
<1>1. \E j \in S : Cardinality({k \in S : k <= j}) = a
  BY PositionsAreRanked DEF Ranked
<1>2. QED
  BY <1>1 DEF Nth
-----------------------------------------------------------------------------
\* A function on 1 .. n is a sequence.
LEMMA FunctionIsSeq ==
  ASSUME NEW S, NEW n \in Nat, NEW f \in [1 .. n -> S]
  PROVE  f \in Seq(S) /\ Len(f) = n
  BY SeqDef

\* Found, without its definition.
LEMMA FoundIs ==
  ASSUME NEW f
  PROVE  f \in Found <=> /\ DOMAIN f \subseteq Items
                         /\ f \in [DOMAIN f -> Values]
<1>1. ASSUME f \in Found PROVE DOMAIN f \subseteq Items /\ f \in [DOMAIN f -> Values]
  BY <1>1 DEF Found
<1>2. ASSUME DOMAIN f \subseteq Items, f \in [DOMAIN f -> Values] PROVE f \in Found
  BY <1>2 DEF Found
<1>3. QED
  BY <1>1, <1>2

\* No values are values.
LEMMA NothingFound == NoFound \in Found /\ DOMAIN NoFound = {}
<1>1. DOMAIN NoFound = {} /\ NoFound \in [{} -> Values]
  BY DEF NoFound
<1>2. QED
  BY <1>1, FoundIs

\* Merge keeps its first argument and covers both.
LEMMA MergeIs ==
  ASSUME NEW f \in Found, NEW g \in Found
  PROVE  /\ Merge(f, g) \in Found
         /\ DOMAIN Merge(f, g) = DOMAIN f \cup DOMAIN g
         /\ Extends(f, Merge(f, g))
<1>1. /\ DOMAIN f \subseteq Items /\ f \in [DOMAIN f -> Values]
      /\ DOMAIN g \subseteq Items /\ g \in [DOMAIN g -> Values]
  BY FoundIs
<1>2. DOMAIN Merge(f, g) = DOMAIN f \cup DOMAIN g
  BY DEF Merge
<1>3. Merge(f, g) \in [DOMAIN f \cup DOMAIN g -> Values]
  BY <1>1 DEF Merge
<1>4. Merge(f, g) \in Found
  BY <1>1, <1>2, <1>3, FoundIs
<1>5. QED
  BY <1>2, <1>4 DEF Extends, Merge

\* Extends is a preorder.
LEMMA ExtendsOn ==
  ASSUME NEW f, NEW g, NEW h
  PROVE  /\ Extends(f, f)
         /\ Extends(f, g) /\ Extends(g, h) => Extends(f, h)
         /\ Extends(f, g) => DOMAIN f \subseteq DOMAIN g
         /\ DOMAIN f = {} => Extends(f, g)
  BY DEF Extends
-----------------------------------------------------------------------------
\* What is invariant of a run and of a list of jobs.
RunFits(r) ==
  /\ r \in Runs
  /\ r.presented \cap r.unsent = {}
  /\ DOMAIN r.values \subseteq r.returned
  /\ r.returned \subseteq r.presented
  /\ r.presented = {} => r.issued = {}
JobsFit(jobs, settled) ==
  /\ jobs \in Seq(Job)
  /\ \A a \in DOMAIN jobs : jobs[a].ids # {} /\ jobs[a].ids \cap settled = {}

\* The fragments, position by position.
LEMMA FragmentsAre ==
  /\ Len(Fragments) \in Nat /\ DOMAIN Fragments = 1 .. Len(Fragments)
  /\ \A f \in DOMAIN Fragments : Fragments[f] \in SUBSET Items /\ Fragments[f] # {}
<1>1. Fragments \in Seq(SUBSET Items)
  BY FragmentAssumption
<1>2. Len(Fragments) \in Nat /\ DOMAIN Fragments = 1 .. Len(Fragments)
  BY <1>1, LenProperties
<1>3. \A f \in DOMAIN Fragments : Fragments[f] \in SUBSET Items
  BY <1>1, <1>2, ElementOfSeq
<1>4. QED
  BY <1>2, <1>3, FragmentAssumption

\* A sequence of jobs, position by position.
LEMMA JobsAre ==
  ASSUME NEW jobs \in Seq(Job)
  PROVE  /\ Len(jobs) \in Nat /\ DOMAIN jobs = 1 .. Len(jobs)
         /\ \A a \in DOMAIN jobs : jobs[a] \in Job /\ jobs[a].ids \subseteq Items
<1>1. Len(jobs) \in Nat /\ DOMAIN jobs = 1 .. Len(jobs)
  BY LenProperties
<1>2. \A a \in DOMAIN jobs : jobs[a] \in Job
  BY <1>1, ElementOfSeq
<1>3. QED
  BY <1>1, <1>2 DEF Job

\* MapSends asks every fragment for all its items.
AllJobs == [f \in DOMAIN Fragments |-> [frag |-> f, ids |-> Fragments[f]]]

\* They are jobs that ask for something.
LEMMA AllJobsFit == JobsFit(AllJobs, {})
<1>1. \A f \in DOMAIN Fragments : [frag |-> f, ids |-> Fragments[f]] \in Job
  BY FragmentsAre DEF Job
<1>2. AllJobs \in [1 .. Len(Fragments) -> Job]
  BY <1>1, FragmentsAre DEF AllJobs
<1>3. AllJobs \in Seq(Job)
  BY <1>2, FragmentsAre, FunctionIsSeq
<1>4. \A f \in DOMAIN AllJobs : AllJobs[f].ids # {}
  BY FragmentsAre DEF AllJobs
<1>5. QED
  BY <1>3, <1>4 DEF JobsFit

\* What is left of a list of jobs asks for something, and for nothing settled.
LEMMA NarrowFits ==
  ASSUME NEW jobs \in Seq(Job), NEW settled
  PROVE  JobsFit(Narrow(jobs, settled), settled)
<1> DEFINE left == {a \in DOMAIN jobs : ~(jobs[a].ids \subseteq settled)}
           job(a) == [jobs[Nth(left, a)] EXCEPT !.ids = @ \ settled]
<1>1. left \in SUBSET (1 .. Len(jobs)) /\ Len(jobs) \in Nat
  BY JobsAre
<1>2. Cardinality(left) \in Nat
  BY <1>1, Positions
<1>3. ASSUME NEW a \in 1 .. Cardinality(left)
      PROVE  job(a) \in Job /\ job(a).ids # {} /\ job(a).ids \cap settled = {}
  <2>1. Nth(left, a) \in left
    <3> HIDE DEF left
    <3>1. QED
      BY <1>1, NthIsOne
  <2>2. PICK j : j = jobs[Nth(left, a)]
    OBVIOUS
  <2>3. j \in Job /\ ~(j.ids \subseteq settled)
    BY <2>1, <2>2, JobsAre
  <2>4. [j EXCEPT !.ids = @ \ settled] \in Job
    BY <2>3 DEF Job
  <2>5. [j EXCEPT !.ids = @ \ settled].ids = j.ids \ settled
    BY <2>3 DEF Job
  <2>6. QED
    BY <2>2, <2>3, <2>4, <2>5
<1>4. Narrow(jobs, settled) = [a \in 1 .. Cardinality(left) |-> job(a)]
  BY DEF Narrow
<1> HIDE DEF left, job
<1>5. Narrow(jobs, settled) \in [1 .. Cardinality(left) -> Job]
  BY <1>3, <1>4
<1>6. Narrow(jobs, settled) \in Seq(Job)
  BY <1>2, <1>5, FunctionIsSeq
<1>7. QED
  BY <1>3, <1>4, <1>6 DEF JobsFit
-----------------------------------------------------------------------------
\* The replies of a batch are no more than its jobs, and none if none went in.
LEMMA SlotsAre ==
  ASSUME batch \in Seq(Job), NEW b \in Batches
  PROVE  /\ b.submitted \subseteq DOMAIN batch
         /\ 1 .. Cardinality(b.submitted) \subseteq DOMAIN batch
         /\ b.submitted # {} => 1 .. Cardinality(b.submitted) # {}
<1>1. b.submitted \in SUBSET DOMAIN batch
  BY DEF Batches
<1>2. DOMAIN batch = 1 .. Len(batch) /\ Len(batch) \in Nat
  BY JobsAre
<1>3. PICK S, n : S = b.submitted /\ n = Len(batch)
  OBVIOUS
<1>4. n \in Nat /\ S \in SUBSET (1 .. n)
  BY <1>1, <1>2, <1>3
<1>5. IsFiniteSet(S) /\ Cardinality(S) \in Nat /\ Cardinality(S) <= n
  BY <1>4, Positions
<1>6. 1 .. Cardinality(S) \subseteq 1 .. n
  BY <1>4, <1>5
<1>7. ASSUME S # {} PROVE 1 .. Cardinality(S) # {}
  <2>1. Cardinality(S) # 0
    BY <1>5, <1>7, FS_EmptySet
  <2>2. 1 \in 1 .. Cardinality(S)
    BY <1>5, <2>1
  <2>3. QED
    BY <2>2
<1>8. QED
  BY <1>1, <1>2, <1>3, <1>6, <1>7

\* Jobs ask for items.
LEMMA AskedAre ==
  ASSUME batch \in Seq(Job), NEW S \in SUBSET DOMAIN batch
  PROVE  Asked(S) \subseteq Items
  BY JobsAre DEF Asked

\* A pass keeps what is invariant of a run, and what the run has settled.
LEMMA AfterFits ==
  ASSUME NEW settled, JobsFit(batch, settled), NEW r, RunFits(r),
         NEW b \in Batches, NEW reading \in Readings(b)
  PROVE  /\ RunFits(After(r, b, reading))
         /\ Extends(r.values, After(r, b, reading).values)
<1> DEFINE filled == 1 .. Cardinality(b.submitted)
           legible == Asked({a \in filled : ReplyOf(b, a) \notin b.refused})
           after == After(r, b, reading)
<1>1. batch \in Seq(Job) /\ \A a \in DOMAIN batch : batch[a].ids # {}
  BY DEF JobsFit
<1>2. /\ b.submitted \subseteq DOMAIN batch /\ filled \subseteq DOMAIN batch
      /\ b.submitted # {} => filled # {}
  BY <1>1, SlotsAre
<1>3. PICK found \in Found, other \in SUBSET legible :
        /\ DOMAIN found \subseteq legible
        /\ reading = [values |-> found, returned |-> DOMAIN found \cup other]
  BY DEF Readings
<1>4. reading.values = found /\ reading.returned = DOMAIN found \cup other
  BY <1>3
<1>5. legible \subseteq Asked(filled)
  BY DEF Asked
<1>6. /\ Asked(filled) \subseteq Items /\ Asked(DOMAIN batch \ filled) \subseteq Items
      /\ Asked(b.submitted \ b.refused) \subseteq Items
  BY <1>1, <1>2, AskedAre
<1>7. /\ after.values = Merge(r.values, found)
      /\ after.presented = r.presented \cup Asked(filled)
      /\ after.returned = r.returned \cup DOMAIN found \cup other
      /\ after.unsent = (r.unsent \cup Asked(DOMAIN batch \ filled)) \ after.presented
      /\ after.issued = r.issued \cup Asked(b.submitted \ b.refused)
      /\ after = [values |-> after.values, presented |-> after.presented,
                 returned |-> after.returned, unsent |-> after.unsent, issued |-> after.issued]
  BY <1>4 DEF After
<1>8. /\ r.values \in Found /\ r.presented \subseteq Items /\ r.returned \subseteq Items
      /\ r.unsent \subseteq Items /\ r.issued \subseteq Items
      /\ DOMAIN r.values \subseteq r.returned /\ r.returned \subseteq r.presented
      /\ r.presented = {} => r.issued = {}
  BY DEF RunFits, Runs
<1>9. /\ Merge(r.values, found) \in Found
      /\ DOMAIN Merge(r.values, found) = DOMAIN r.values \cup DOMAIN found
      /\ Extends(r.values, Merge(r.values, found))
  BY <1>8, MergeIs
<1>10. ASSUME after.presented = {} PROVE after.issued = {}
  <2>1. r.issued = {} /\ Asked(filled) = {}
    BY <1>7, <1>8, <1>10
  <2>2. filled = {}
    <3>1. SUFFICES ASSUME NEW a \in filled PROVE FALSE
      OBVIOUS
    <3>2. batch[a].ids # {} /\ batch[a].ids \subseteq Asked(filled)
      BY <1>1, <1>2, <3>1 DEF Asked
    <3>3. QED
      BY <2>1, <3>2
  <2>3. b.submitted = {}
    BY <1>2, <2>2
  <2>4. Asked(b.submitted \ b.refused) = {}
    BY <2>3 DEF Asked
  <2>5. QED
    BY <1>7, <2>1, <2>4
<1> HIDE DEF filled, legible, after
<1>11. after \in Runs
  <2>1. /\ after.values \in Found /\ after.presented \subseteq Items
        /\ after.returned \subseteq Items /\ after.unsent \subseteq Items
        /\ after.issued \subseteq Items
    BY <1>3, <1>5, <1>6, <1>7, <1>8, <1>9
  <2>2. QED
    BY <1>7, <2>1 DEF Runs
<1>12. /\ after.presented \cap after.unsent = {}
       /\ DOMAIN after.values \subseteq after.returned
       /\ after.returned \subseteq after.presented
  BY <1>3, <1>5, <1>7, <1>8, <1>9
<1>13. RunFits(after) /\ Extends(r.values, after.values)
  BY <1>7, <1>9, <1>10, <1>11, <1>12 DEF RunFits
<1>14. QED
  BY <1>13 DEF after
-----------------------------------------------------------------------------
\* The types that the other conjuncts do not give.
Record == [held : BOOLEAN, run : Runs, retryUsed : BOOLEAN]
Shape ==
  /\ pass \in {"none", "first", "second", "retry"}
  /\ large \subseteq DOMAIN Fragments
  /\ calls \in 0 .. MaxCalls
  /\ record \in Record
  /\ cache \in Envelopes /\ shown \in Envelopes

\* What no job may ask for.
Settled == DOMAIN run.values \cup DOMAIN record.run.values

\* What the cache holds is what the registry holds.
CacheIsRecord ==
  /\ cache.held => /\ Extends(cache.values, record.run.values)
                   /\ Extends(record.run.values, cache.values)
  /\ ~cache.held => DOMAIN record.run.values = {}

\* The model was shown nothing the registry does not have.
ShownIsRecord == Extends(shown.values, record.run.values)

\* A sweep is sent only when nothing is cached.
PassIsFresh == pass \in {"first", "second"} => ~cache.held

\* The retry that was paid for is on record.
RetryIsRecorded == retries \in {0, 1} /\ (retries = 1 => record.retryUsed)

\* The inductive invariant.
IInv ==
  /\ Shape
  /\ RunFits(run) /\ RunFits(record.run)
  /\ JobsFit(batch, Settled)
  /\ CacheIsRecord
  /\ ShownIsRecord
  /\ PassIsFresh
  /\ RetryIsRecorded

\* A registry entry and its retry flag.
LEMMA RecordHas ==
  ASSUME NEW r \in Record
  PROVE  /\ r.held \in BOOLEAN /\ r.run \in Runs /\ r.retryUsed \in BOOLEAN
         /\ [r EXCEPT !.retryUsed = TRUE] \in Record
         /\ [r EXCEPT !.retryUsed = TRUE].run = r.run
         /\ [r EXCEPT !.retryUsed = TRUE].held = r.held
         /\ [r EXCEPT !.retryUsed = TRUE].retryUsed = TRUE
  BY DEF Record

\* The run that has not begun, and no jobs.
LEMMA NoRunFits == RunFits(NoRun) /\ DOMAIN NoRun.values = {}
<1>1. /\ NoRun.values = NoFound /\ NoRun.presented = {} /\ NoRun.returned = {}
      /\ NoRun.unsent = {} /\ NoRun.issued = {}
  BY DEF NoRun
<1>2. NoRun \in Runs
  BY NothingFound DEF NoRun, Runs
<1>3. QED
  BY <1>1, <1>2, NothingFound DEF RunFits

\* An empty batch asks for nothing.
LEMMA NoJobsFit == \A settled : JobsFit(<<>>, settled)
  BY DEF JobsFit

\* The envelope has the values; without a good status there are none.
LEMMA EnvelopeIs ==
  ASSUME NEW r, RunFits(r), NEW exhausted \in BOOLEAN
  PROVE  /\ Envelope(r, exhausted) \in Envelopes
         /\ Envelope(r, exhausted).held = TRUE
         /\ Envelope(r, exhausted).values = r.values
         /\ Envelope(r, exhausted).status = Status(r)
         /\ Status(r) \notin {"complete", "partial"} => DOMAIN r.values = {}
<1>1. r.values \in Found
  BY DEF RunFits, Runs
<1>2. Status(r) \in {"complete", "partial", "failed", "unsent"}
  BY DEF Status
<1>3. Status(r) \notin {"complete", "partial"} => DOMAIN r.values = {}
  BY NothingFound DEF Status, RunFits
<1>4. Envelope(r, exhausted) \in Envelopes
  BY <1>1, <1>2 DEF Envelope, Envelopes
<1>5. QED
  BY <1>3, <1>4 DEF Envelope

\* Publishing a run that extends the registry's keeps the cache in step.
LEMMA CachedKeeps ==
  ASSUME NEW r, RunFits(r), NEW exhausted \in BOOLEAN,
         CacheIsRecord, cache \in Envelopes,
         Extends(record.run.values, r.values),
         cache' = Cached(Envelope(r, exhausted)), record'.run = r
  PROVE  CacheIsRecord' /\ cache' \in Envelopes
<1>1. CASE Status(r) \in {"complete", "partial"}
  <2>1. cache' = Envelope(r, exhausted)
    BY <1>1, EnvelopeIs DEF Cached
  <2>2. cache'.held = TRUE /\ cache'.values = r.values /\ cache' \in Envelopes
    <3>1. PICK e : e = Envelope(r, exhausted)
      OBVIOUS
    <3>2. e.held = TRUE /\ e.values = r.values /\ e \in Envelopes
      BY <3>1, EnvelopeIs
    <3>3. QED
      BY <2>1, <3>1, <3>2
  <2>3. Extends(cache'.values, record'.run.values) /\ Extends(record'.run.values, cache'.values)
    BY <2>2, ExtendsOn
  <2>4. QED
    BY <2>2, <2>3 DEF CacheIsRecord, Extends
<1>2. CASE Status(r) \notin {"complete", "partial"}
  <2>1. cache' = cache
    BY <1>2, EnvelopeIs DEF Cached
  <2>2. DOMAIN r.values = {}
    BY <1>2, EnvelopeIs
  <2>3. DOMAIN record.run.values = {}
    BY <2>2, ExtendsOn
  <2>4. cache.held => DOMAIN cache.values = {}
    BY <2>3, ExtendsOn DEF CacheIsRecord
  <2>5. cache.held => /\ Extends(cache.values, r.values)
                      /\ Extends(r.values, cache.values)
    BY <2>2, <2>4, ExtendsOn
  <2>6. QED
    BY <2>1, <2>2, <2>5 DEF CacheIsRecord, Extends
<1>3. QED
  BY <1>1, <1>2

\* The step loses none of the values shown.
Stays == record'.held => Extends(shown.values, shown'.values)

\* The end of a sweep that was sent.
LEMMA RegisterKeeps ==
  ASSUME IInv, pass \in {"first", "second"}, NEW r, RunFits(r),
         Register(r), Over, UNCHANGED <<large, calls, retries>>
  PROVE  IInv' /\ Stays
<1>1. ~cache.held /\ DOMAIN record.run.values = {} /\ record \in Record
  BY DEF IInv, PassIsFresh, CacheIsRecord, Shape
<1>2. record.retryUsed \in BOOLEAN
  BY <1>1, RecordHas
<1>3. /\ record' = [held |-> TRUE, run |-> r, retryUsed |-> record.retryUsed]
      /\ shown' = Envelope(r, record.retryUsed)
      /\ cache' = Cached(Envelope(r, record.retryUsed))
      /\ pass' = "none" /\ batch' = <<>> /\ run' = NoRun
  BY DEF Register, Over
<1>4. /\ record' \in Record /\ record'.run = r /\ record'.retryUsed = record.retryUsed
  BY <1>2, <1>3 DEF Record, RunFits
<1>5. Extends(record.run.values, r.values)
  BY <1>1, ExtendsOn
<1>6. CacheIsRecord' /\ cache' \in Envelopes
  BY <1>2, <1>3, <1>4, <1>5, CachedKeeps DEF IInv, Shape
<1>7. shown' \in Envelopes /\ shown'.values = r.values
  BY <1>2, <1>3, EnvelopeIs
<1>8. Shape'
  BY <1>3, <1>4, <1>6, <1>7 DEF IInv, Shape
<1>9. RunFits(run)' /\ RunFits(record.run)'
  BY <1>3, <1>4, NoRunFits DEF RunFits
<1>10. JobsFit(batch, Settled)'
  BY <1>3, NoJobsFit DEF JobsFit
<1>11. ShownIsRecord'
  BY <1>4, <1>7, ExtendsOn DEF ShownIsRecord, Extends
<1>12. PassIsFresh' /\ RetryIsRecorded'
  BY <1>3, <1>4 DEF IInv, PassIsFresh, RetryIsRecorded
<1>13. Stays
  <2>1. DOMAIN shown.values = {}
    BY <1>1, ExtendsOn DEF IInv, ShownIsRecord
  <2>2. QED
    BY <2>1, ExtendsOn DEF Stays
<1>14. QED
  BY <1>6, <1>8, <1>9, <1>10, <1>11, <1>12, <1>13 DEF IInv

\* A call that leaves run, batch and the registry's run as they are.
LEMMA CallKeeps ==
  ASSUME IInv, UNCHANGED <<pass, batch, run, large>>,
         calls' \in 0 .. MaxCalls, record' \in Record, record'.run = record.run,
         cache' \in Envelopes, shown' \in Envelopes,
         CacheIsRecord', ShownIsRecord', PassIsFresh', RetryIsRecorded'
  PROVE  IInv'
<1>1. Shape'
  BY DEF IInv, Shape
<1>2. RunFits(run)' /\ RunFits(record.run)'
  BY DEF IInv, RunFits
<1>3. JobsFit(batch, Settled)'
  BY DEF IInv, JobsFit, Settled
<1>4. QED
  BY <1>1, <1>2, <1>3 DEF IInv

\* A call is counted.
LEMMA CallCounts == ASSUME IInv, Call PROVE calls' \in 0 .. MaxCalls
  BY ValueAssumption DEF IInv, Shape, Call

\* A session starts in the invariant.
LEMMA InitStarts == Init => IInv
<1> SUFFICES ASSUME Init PROVE IInv
  OBVIOUS
<1>1. /\ pass = "none" /\ batch = <<>> /\ run = NoRun /\ record = NoRecord
      /\ cache = NoEnvelope /\ shown = NoEnvelope /\ retries = 0 /\ calls = 0
      /\ large \subseteq DOMAIN Fragments
  BY DEF Init
<1>2. /\ NoRecord \in Record /\ NoRecord.run = NoRun
  BY NoRunFits DEF NoRecord, Record, RunFits
<1>3. NoEnvelope \in Envelopes /\ NoEnvelope.values = NoFound /\ NoEnvelope.held = FALSE
  BY NothingFound DEF NoEnvelope, Envelopes
<1>4. Shape
  BY <1>1, <1>2, <1>3, ValueAssumption DEF Shape
<1>5. RunFits(run) /\ RunFits(record.run)
  BY <1>1, <1>2, NoRunFits
<1>6. JobsFit(batch, Settled)
  BY <1>1, NoJobsFit
<1>7. CacheIsRecord /\ PassIsFresh
  BY <1>1, <1>2, <1>3, NoRunFits DEF CacheIsRecord, PassIsFresh
<1>8. ShownIsRecord
  BY <1>1, <1>2, <1>3, NothingFound, ExtendsOn DEF ShownIsRecord
<1>9. RetryIsRecorded
  BY <1>1 DEF RetryIsRecorded
<1>10. QED
  BY <1>4, <1>5, <1>6, <1>7, <1>8, <1>9 DEF IInv

\* Every step keeps it, and the values shown.
LEMMA NextKeeps == IInv /\ [Next]_vars => IInv' /\ (Stays \/ UNCHANGED vars)
<1> SUFFICES ASSUME IInv, [Next]_vars PROVE IInv' /\ (Stays \/ UNCHANGED vars)
  OBVIOUS
<1>a. /\ record \in Record /\ cache \in Envelopes /\ shown \in Envelopes
      /\ RunFits(run) /\ RunFits(record.run) /\ JobsFit(batch, Settled)
  BY DEF IInv, Shape
<1>b. CacheIsRecord /\ ShownIsRecord /\ PassIsFresh /\ RetryIsRecorded
  BY DEF IInv
<1>1. CASE MapCached
  <2>1. /\ Call /\ cache.held /\ shown' = cache
        /\ UNCHANGED <<pass, batch, run, record, cache, large, retries>>
    BY <1>1 DEF MapCached
  <2>2. ShownIsRecord'
    BY <1>b, <2>1 DEF CacheIsRecord, ShownIsRecord
  <2>3. CacheIsRecord' /\ PassIsFresh' /\ RetryIsRecorded'
    BY <1>b, <2>1 DEF CacheIsRecord, PassIsFresh, RetryIsRecorded
  <2>4. IInv'
    BY <1>a, <2>1, <2>2, <2>3, CallKeeps, CallCounts
  <2>5. Extends(shown.values, cache.values)
    BY <1>b, <2>1, ExtendsOn DEF CacheIsRecord, ShownIsRecord
  <2>6. QED
    BY <2>1, <2>4, <2>5 DEF Stays
<1>2. CASE MapSends
  <2>1. /\ Call /\ ~cache.held /\ pass' = "first" /\ batch' = AllJobs /\ run' = NoRun
        /\ UNCHANGED <<record, cache, shown, large, retries>>
    BY <1>2 DEF MapSends, AllJobs
  <2>2. Shape'
    BY <1>a, <2>1, CallCounts DEF IInv, Shape
  <2>3. RunFits(run)' /\ RunFits(record.run)'
    BY <1>a, <2>1, NoRunFits DEF RunFits
  <2>4. JobsFit(batch, Settled)'
    <3>1. DOMAIN run'.values \cup DOMAIN record'.run.values = {}
      BY <1>b, <2>1, NoRunFits DEF CacheIsRecord
    <3>2. QED
      BY <2>1, <3>1, AllJobsFit DEF JobsFit, Settled
  <2>5. /\ CacheIsRecord' /\ ShownIsRecord' /\ PassIsFresh' /\ RetryIsRecorded'
    BY <1>b, <2>1 DEF CacheIsRecord, ShownIsRecord, PassIsFresh, RetryIsRecorded
  <2>6. Stays
    BY <2>1, ExtendsOn DEF Stays
  <2>7. QED
    BY <2>2, <2>3, <2>4, <2>5, <2>6 DEF IInv
<1>3. CASE RetryRepeats
  <2>1. /\ Call /\ shown' = Envelope(record.run, TRUE)
        /\ UNCHANGED <<pass, batch, run, record, cache, large, retries>>
    BY <1>3 DEF RetryRepeats
  <2>2. shown' \in Envelopes /\ shown'.values = record.run.values
    BY <1>a, <2>1, EnvelopeIs
  <2>3. ShownIsRecord'
    BY <2>1, <2>2, ExtendsOn DEF ShownIsRecord, Extends
  <2>4. CacheIsRecord' /\ PassIsFresh' /\ RetryIsRecorded'
    BY <1>b, <2>1 DEF CacheIsRecord, PassIsFresh, RetryIsRecorded
  <2>5. IInv'
    BY <1>a, <2>1, <2>2, <2>3, <2>4, CallKeeps, CallCounts
  <2>6. Stays
    BY <1>b, <2>2 DEF Stays, ShownIsRecord
  <2>7. QED
    BY <2>5, <2>6
<1>4. CASE RetrySends
  <2>1. /\ Call /\ ~record.retryUsed
        /\ record' = [record EXCEPT !.retryUsed = TRUE] /\ pass' = "retry"
        /\ batch' = Narrow(AllJobs, DOMAIN record.run.values)
        /\ run' = NoRun /\ retries' = retries + 1 /\ UNCHANGED <<cache, shown, large>>
    BY <1>4 DEF RetrySends, AllJobs
  <2>2. record' \in Record /\ record'.run = record.run /\ record'.retryUsed = TRUE
    BY <1>a, <2>1, RecordHas
  <2>3. Shape'
    BY <1>a, <2>1, <2>2, CallCounts DEF IInv, Shape
  <2>4. RunFits(run)' /\ RunFits(record.run)'
    BY <1>a, <2>1, <2>2, NoRunFits DEF RunFits
  <2>5. JobsFit(batch, Settled)'
    <3>1. DOMAIN run'.values \cup DOMAIN record'.run.values = DOMAIN record.run.values
      BY <2>1, <2>2, NoRunFits
    <3>2. JobsFit(batch', DOMAIN record.run.values)
      BY <2>1, AllJobsFit, NarrowFits DEF JobsFit
    <3>3. QED
      BY <3>1, <3>2 DEF JobsFit, Settled
  <2>6. CacheIsRecord' /\ ShownIsRecord' /\ PassIsFresh'
    BY <1>b, <2>1, <2>2 DEF CacheIsRecord, ShownIsRecord, PassIsFresh
  <2>7. RetryIsRecorded'
    <3>1. retries = 0
      BY <1>b, <2>1 DEF RetryIsRecorded
    <3>2. QED
      BY <2>1, <2>2, <3>1 DEF RetryIsRecorded
  <2>8. Stays
    BY <2>1, ExtendsOn DEF Stays
  <2>9. QED
    BY <2>3, <2>4, <2>5, <2>6, <2>7, <2>8 DEF IInv
<1>5. CASE RetryNothing
  <2>1. /\ Call /\ record' = [record EXCEPT !.retryUsed = TRUE]
        /\ shown' = Envelope(record.run, TRUE) /\ cache' = shown'
        /\ UNCHANGED <<pass, batch, run, large, retries>>
    BY <1>5 DEF RetryNothing
  <2>2. pass = "none"
    BY <2>1 DEF Call
  <2>3. record' \in Record /\ record'.run = record.run /\ record'.retryUsed = TRUE
    BY <1>a, <2>1, RecordHas
  <2>4. shown' \in Envelopes /\ shown'.values = record.run.values /\ shown'.held = TRUE
    BY <1>a, <2>1, EnvelopeIs
  <2>5. ShownIsRecord' /\ CacheIsRecord'
    BY <2>1, <2>3, <2>4, ExtendsOn DEF ShownIsRecord, CacheIsRecord, Extends
  <2>6. PassIsFresh' /\ RetryIsRecorded'
    BY <1>b, <2>1, <2>2, <2>3 DEF PassIsFresh, RetryIsRecorded
  <2>7. IInv'
    BY <1>a, <2>1, <2>3, <2>4, <2>5, <2>6, CallKeeps, CallCounts
  <2>8. Stays
    BY <1>b, <2>4 DEF Stays, ShownIsRecord
  <2>9. QED
    BY <2>7, <2>8
<1>6. CASE FirstPass
  <2>1. PICK b, reading :
          /\ b \in Batches /\ reading \in Readings(b)
          /\ LET r == After(run, b, reading)
                 again == Narrow(batch, DOMAIN r.values)
             IN  IF again = <<>>
                 THEN Over /\ Register(r)
                 ELSE /\ pass' = "second" /\ batch' = again /\ run' = r
                      /\ UNCHANGED <<record, shown, cache>>
    BY <1>6 DEF FirstPass
  <2>2. PICK r, again : r = After(run, b, reading) /\ again = Narrow(batch, DOMAIN r.values)
    OBVIOUS
  <2>3. RunFits(r)
    BY <1>a, <2>1, <2>2, AfterFits
  <2>4. pass = "first" /\ UNCHANGED <<large, calls, retries>>
    BY <1>6 DEF FirstPass
  <2>5. CASE again = <<>>
    <3>1. Over /\ Register(r)
      BY <2>1, <2>2, <2>5
    <3>2. QED
      BY <2>3, <2>4, <3>1, RegisterKeeps
  <2>6. CASE again # <<>>
    <3>1. /\ pass' = "second" /\ batch' = again /\ run' = r
          /\ UNCHANGED <<record, shown, cache>>
      BY <2>1, <2>2, <2>6
    <3>2. Shape'
      BY <1>a, <2>4, <3>1 DEF IInv, Shape
    <3>3. RunFits(run)' /\ RunFits(record.run)'
      BY <1>a, <2>3, <3>1 DEF RunFits
    <3>4. JobsFit(batch, Settled)'
      <4>1. DOMAIN record.run.values = {}
        BY <1>b, <2>4 DEF PassIsFresh, CacheIsRecord
      <4>2. JobsFit(again, DOMAIN r.values)
        BY <1>a, <2>2, NarrowFits DEF JobsFit
      <4>3. DOMAIN run'.values \cup DOMAIN record'.run.values = DOMAIN r.values
        BY <3>1, <4>1
      <4>4. QED
        BY <3>1, <4>2, <4>3 DEF JobsFit, Settled
    <3>5. CacheIsRecord' /\ ShownIsRecord' /\ PassIsFresh' /\ RetryIsRecorded'
      BY <1>b, <2>4, <3>1 DEF CacheIsRecord, ShownIsRecord, PassIsFresh, RetryIsRecorded
    <3>6. Stays
      BY <3>1, ExtendsOn DEF Stays
    <3>7. QED
      BY <3>2, <3>3, <3>4, <3>5, <3>6 DEF IInv
  <2>7. QED
    BY <2>5, <2>6
<1>7. CASE SecondPass
  <2>1. PICK b, reading :
          b \in Batches /\ reading \in Readings(b) /\ Register(After(run, b, reading))
    BY <1>7 DEF SecondPass
  <2>2. RunFits(After(run, b, reading))
    BY <1>a, <2>1, AfterFits
  <2>3. pass = "second" /\ Over /\ UNCHANGED <<large, calls, retries>>
    BY <1>7 DEF SecondPass
  <2>4. QED
    BY <2>1, <2>2, <2>3, RegisterKeeps
<1>8. CASE RetryPass
  <2>1. PICK b, reading :
          /\ b \in Batches /\ reading \in Readings(b)
          /\ LET r == After(record.run, b, reading)
                 envelope == Envelope(r, TRUE)
             IN  /\ record' = [record EXCEPT !.run = r]
                 /\ shown' = envelope
                 /\ cache' = Cached(envelope)
    BY <1>8 DEF RetryPass
  <2>2. PICK r : r = After(record.run, b, reading)
    OBVIOUS
  <2>3. RunFits(r) /\ Extends(record.run.values, r.values)
    BY <1>a, <2>1, <2>2, AfterFits
  <2>4. /\ record' = [record EXCEPT !.run = r] /\ shown' = Envelope(r, TRUE)
        /\ cache' = Cached(Envelope(r, TRUE))
    BY <2>1, <2>2
  <2>5. /\ pass' = "none" /\ batch' = <<>> /\ run' = NoRun
        /\ UNCHANGED <<large, calls, retries>>
    BY <1>8 DEF RetryPass, Over
  <2>6. record' \in Record /\ record'.run = r /\ record'.retryUsed = record.retryUsed
    <3>1. r \in Runs
      BY <2>3 DEF RunFits
    <3>2. [record EXCEPT !.run = r] \in Record
      BY <1>a, <3>1 DEF Record
    <3>3. /\ [record EXCEPT !.run = r].run = r
          /\ [record EXCEPT !.run = r].retryUsed = record.retryUsed
      BY <1>a DEF Record
    <3>4. QED
      BY <2>4, <3>2, <3>3
  <2>7. shown' \in Envelopes /\ shown'.values = r.values
    BY <2>3, <2>4, EnvelopeIs
  <2>8. CacheIsRecord' /\ cache' \in Envelopes
    BY <1>a, <1>b, <2>3, <2>4, <2>6, CachedKeeps
  <2>9. Shape'
    BY <2>5, <2>6, <2>7, <2>8 DEF IInv, Shape
  <2>10. RunFits(run)' /\ RunFits(record.run)'
    BY <2>3, <2>5, <2>6, NoRunFits DEF RunFits
  <2>11. JobsFit(batch, Settled)'
    BY <2>5, NoJobsFit DEF JobsFit
  <2>12. ShownIsRecord'
    BY <2>6, <2>7, ExtendsOn DEF ShownIsRecord, Extends
  <2>13. PassIsFresh' /\ RetryIsRecorded'
    BY <1>b, <2>5, <2>6 DEF PassIsFresh, RetryIsRecorded
  <2>14. Stays
    BY <1>b, <2>3, <2>7, ExtendsOn DEF Stays, ShownIsRecord
  <2>15. QED
    BY <2>8, <2>9, <2>10, <2>11, <2>12, <2>13, <2>14 DEF IInv
<1>9. CASE PassRaises
  <2>1. /\ pass' = "none" /\ batch' = <<>> /\ run' = NoRun
        /\ UNCHANGED <<record, cache, shown, large, calls, retries>>
    BY <1>9 DEF PassRaises, Over
  <2>2. Shape'
    BY <2>1 DEF IInv, Shape
  <2>3. RunFits(run)' /\ RunFits(record.run)'
    BY <1>a, <2>1, NoRunFits DEF RunFits
  <2>4. JobsFit(batch, Settled)'
    BY <2>1, NoJobsFit DEF JobsFit
  <2>5. CacheIsRecord' /\ ShownIsRecord' /\ PassIsFresh' /\ RetryIsRecorded'
    BY <1>b, <2>1 DEF CacheIsRecord, ShownIsRecord, PassIsFresh, RetryIsRecorded
  <2>6. Stays
    BY <2>1, ExtendsOn DEF Stays
  <2>7. QED
    BY <2>2, <2>3, <2>4, <2>5, <2>6 DEF IInv
<1>10. CASE SessionLost
  <2>1. /\ pass' = "none" /\ batch' = <<>> /\ run' = NoRun /\ record' = NoRecord
        /\ cache' = NoEnvelope /\ shown' = NoEnvelope /\ retries' = 0
        /\ calls < MaxCalls /\ calls' = calls + 1 /\ UNCHANGED large
    BY <1>10 DEF SessionLost, NewSession
  <2>2. /\ NoRecord \in Record /\ NoRecord.run = NoRun /\ NoRecord.held = FALSE
    BY NoRunFits DEF NoRecord, Record, RunFits
  <2>3. NoEnvelope \in Envelopes /\ NoEnvelope.values = NoFound /\ NoEnvelope.held = FALSE
    BY NothingFound DEF NoEnvelope, Envelopes
  <2>4. calls' \in 0 .. MaxCalls
    BY <2>1, ValueAssumption DEF IInv, Shape
  <2>5. Shape'
    BY <2>1, <2>2, <2>3, <2>4 DEF IInv, Shape
  <2>6. RunFits(run)' /\ RunFits(record.run)'
    BY <2>1, <2>2, NoRunFits DEF RunFits
  <2>7. JobsFit(batch, Settled)'
    BY <2>1, NoJobsFit DEF JobsFit
  <2>8. CacheIsRecord' /\ PassIsFresh' /\ RetryIsRecorded'
    BY <2>1, <2>2, <2>3, NoRunFits DEF CacheIsRecord, PassIsFresh, RetryIsRecorded
  <2>9. ShownIsRecord'
    BY <2>1, <2>2, <2>3, NothingFound, ExtendsOn DEF ShownIsRecord, Extends
  <2>10. Stays
    BY <2>1, <2>2 DEF Stays
  <2>11. QED
    BY <2>5, <2>6, <2>7, <2>8, <2>9, <2>10 DEF IInv
<1>11. CASE Done \/ UNCHANGED vars
  <2>1. UNCHANGED vars
    BY <1>11 DEF Done
  <2>2. Shape'
    BY <2>1 DEF IInv, Shape, vars
  <2>3. RunFits(run)' /\ RunFits(record.run)'
    BY <1>a, <2>1 DEF RunFits, vars
  <2>4. JobsFit(batch, Settled)'
    BY <1>a, <2>1 DEF JobsFit, Settled, vars
  <2>5. CacheIsRecord' /\ ShownIsRecord' /\ PassIsFresh' /\ RetryIsRecorded'
    BY <1>b, <2>1 DEF CacheIsRecord, ShownIsRecord, PassIsFresh, RetryIsRecorded, vars
  <2>6. QED
    BY <2>1, <2>2, <2>3, <2>4, <2>5 DEF IInv
<1>12. QED
  BY <1>1, <1>2, <1>3, <1>4, <1>5, <1>6, <1>7, <1>8, <1>9, <1>10, <1>11 DEF Next
-----------------------------------------------------------------------------
\* So it always holds.
LEMMA InvariantHolds == Spec => []IInv
<1>1. IInv /\ [Next]_vars => IInv'
  BY NextKeeps
<1>2. QED
  BY <1>1, InitStarts, PTL DEF Spec

\* The variables keep their types, and no item is presented and unsent at once.
THEOREM TypeCorrect == Spec => []TypeOK
<1>1. IInv => TypeOK
  <2> SUFFICES ASSUME IInv PROVE TypeOK
    OBVIOUS
  <2>1. /\ pass \in {"none", "first", "second", "retry"} /\ large \subseteq DOMAIN Fragments
        /\ calls \in 0 .. MaxCalls /\ {cache, shown} \subseteq Envelopes
        /\ batch \in Seq(Job)
    BY DEF IInv, Shape, JobsFit
  <2>2. retries \in Nat
    BY DEF IInv, RetryIsRecorded
  <2>3. record.held \in BOOLEAN /\ record.retryUsed \in BOOLEAN
    BY RecordHas DEF IInv, Shape
  <2>4. RunFits(run) /\ RunFits(record.run)
    BY DEF IInv
  <2>5. QED
    BY <2>1, <2>2, <2>3, <2>4 DEF TypeOK, RunFits
<1>2. QED
  BY <1>1, InvariantHolds, PTL

(***************************************************************************)
(* However calls, caches, retries and failures alternate, no job asks for  *)
(* an item that has a value, the retry is paid for at most once, and a     *)
(* sweep reported as unsent issued nothing (_map, _retry_failed, run).     *)
(***************************************************************************)
THEOREM PaysOnceCorrect == Spec => []PaysOnce
<1>1. IInv => PaysOnce
  <2> SUFFICES ASSUME IInv PROVE PaysOnce
    OBVIOUS
  <2>1. NeverAskedAgain
    BY DEF IInv, JobsFit, Settled, NeverAskedAgain
  <2>2. OneRetry
    BY DEF IInv, RetryIsRecorded, OneRetry
  <2>3. UnsentIsUnpaid
    BY DEF IInv, RunFits, UnsentIsUnpaid, Status
  <2>4. QED
    BY <2>1, <2>2, <2>3 DEF PaysOnce
<1>2. QED
  BY <1>1, InvariantHolds, PTL

(***************************************************************************)
(* In a session no envelope loses or changes a value an earlier one        *)
(* returned: an action property, from the agreement of cache, registry and *)
(* envelope.                                                               *)
(***************************************************************************)
THEOREM SettledCorrect == Spec => SettledValuesStay
<1>1. IInv /\ [Next]_vars => [Stays]_vars
  BY NextKeeps
<1>2. QED
  BY <1>1, InvariantHolds, PTL DEF Spec, SettledValuesStay, Stays
-----------------------------------------------------------------------------
(***************************************************************************)
(* Where the fragments of a sweep come from: the segmenter, of any text    *)
(* and any band.                                                           *)
(***************************************************************************)
\* What Segmentation calls a segment, and a unit.
SpanType == [from : Nat, to : Nat]
UnitType == [from : Nat, to : Nat, blank : BOOLEAN]

\* The spans of a sequence have offsets.
Offsets(S) == \A e \in S : e.from \in Nat /\ e.to \in Nat

\* Both kinds of span have them.
LEMMA TypesHaveOffsets == Offsets(SpanType) /\ Offsets(UnitType)
BY DEF Offsets, SpanType, UnitType

\* Tile, over positions.
LEMMA TileIs ==
  ASSUME NEW S, NEW s \in Seq(S), NEW to, NEW n \in Nat, n = Len(s)
  PROVE  Tile(s, to) <=>
           /\ n = 0 => to = 0
           /\ n # 0 => s[1].from = 0 /\ s[n].to = to
           /\ \A a \in 1 .. n : s[a].from < s[a].to
           /\ \A a \in 1 .. n - 1 : s[a].to = s[a + 1].from
<1>1. DOMAIN s = 1 .. n BY LenProperties
<1>2. s = <<>> <=> n = 0 BY EmptySeq
<1>3. Last(s) = s[n] BY DEF Last
<1> QED BY <1>1, <1>2, <1>3 DEF Tile

\* A span at the end of the last one extends the tiling.
LEMMA TileAppended ==
  ASSUME NEW S, NEW s \in Seq(S), Offsets(S), NEW to \in Nat, Tile(s, to),
         NEW e \in S, e.from = to, e.from < e.to
  PROVE  Tile(Append(s, e), e.to)
<1> DEFINE t == Append(s, e)
<1>1. PICK n \in Nat : n = Len(s) BY LenProperties
<1>2. /\ t \in Seq(S) /\ Len(t) = n + 1 /\ t[n + 1] = e
      /\ \A a \in 1 .. n : t[a] = s[a]
  BY <1>1, AppendProperties
<1> HIDE DEF t
<1>3. /\ n = 0 => to = 0
      /\ n # 0 => s[1].from = 0 /\ s[n].to = to
      /\ \A a \in 1 .. n : s[a].from < s[a].to
      /\ \A a \in 1 .. n - 1 : s[a].to = s[a + 1].from
  BY <1>1, TileIs
<1>4. t[1].from = 0
  <2>1. CASE n = 0 BY <1>2, <1>3, <2>1
  <2>2. CASE n # 0
    <3>1. 1 \in 1 .. n BY <2>2
    <3> QED BY <1>2, <1>3, <2>2, <3>1
  <2> QED BY <2>1, <2>2
<1>5. \A a \in 1 .. n + 1 : t[a].from < t[a].to
  <2> SUFFICES ASSUME NEW a \in 1 .. n + 1 PROVE t[a].from < t[a].to OBVIOUS
  <2>1. CASE a = n + 1 BY <1>2, <2>1
  <2>2. CASE a # n + 1
    <3>1. a \in 1 .. n BY <2>2
    <3> QED BY <1>2, <1>3, <3>1
  <2> QED BY <2>1, <2>2
<1>6. \A a \in 1 .. n : t[a].to = t[a + 1].from
  <2> SUFFICES ASSUME NEW a \in 1 .. n PROVE t[a].to = t[a + 1].from OBVIOUS
  <2>1. t[a] = s[a] BY <1>2
  <2>2. CASE a = n
    <3>1. s[n].to = to BY <1>3, <2>2
    <3> QED BY <1>2, <2>1, <2>2, <3>1
  <2>3. CASE a # n
    <3>1. a \in 1 .. n - 1 /\ a + 1 \in 1 .. n BY <2>3
    <3> QED BY <1>2, <1>3, <2>1, <3>1
  <2> QED BY <2>2, <2>3
<1>7. n + 1 \in Nat /\ n + 1 # 0 /\ (n + 1) - 1 = n OBVIOUS
<1>8. t[n + 1].to = e.to BY <1>2
<1>9. Tile(t, e.to) BY <1>2, <1>4, <1>5, <1>6, <1>7, <1>8, TileIs
<1> QED BY <1>9 DEF t

\* The last span may end elsewhere, behind its start.
LEMMA TileLastEnds ==
  ASSUME NEW S, NEW s \in Seq(S), Offsets(S), NEW to, Tile(s, to), s # <<>>,
         NEW t \in Seq(S), Len(t) = Len(s),
         \A a \in 1 .. Len(s) - 1 : t[a] = s[a],
         t[Len(s)].from = s[Len(s)].from,
         t[Len(s)].from < t[Len(s)].to
  PROVE  Tile(t, t[Len(s)].to)
<1>1. PICK n \in Nat : n = Len(s) /\ n # 0 BY LenProperties, EmptySeq
<1>2. /\ s[1].from = 0
      /\ \A a \in 1 .. n : s[a].from < s[a].to
      /\ \A a \in 1 .. n - 1 : s[a].to = s[a + 1].from
  BY <1>1, TileIs
<1>3. /\ \A a \in 1 .. n - 1 : t[a] = s[a]
      /\ t[n].from = s[n].from /\ t[n].from < t[n].to
  BY <1>1
<1>4. \A a \in 1 .. n : t[a].from = s[a].from
  <2> SUFFICES ASSUME NEW a \in 1 .. n PROVE t[a].from = s[a].from OBVIOUS
  <2>1. CASE a = n BY <1>3, <2>1
  <2>2. CASE a # n
    <3>1. a \in 1 .. n - 1 BY <2>2
    <3> QED BY <1>3, <3>1
  <2> QED BY <2>1, <2>2
<1>5. \A a \in 1 .. n : t[a].from < t[a].to
  <2> SUFFICES ASSUME NEW a \in 1 .. n PROVE t[a].from < t[a].to OBVIOUS
  <2>1. CASE a = n BY <1>3, <2>1
  <2>2. CASE a # n
    <3>1. a \in 1 .. n - 1 BY <2>2
    <3> QED BY <1>2, <1>3, <3>1
  <2> QED BY <2>1, <2>2
<1>6. \A a \in 1 .. n - 1 : t[a].to = t[a + 1].from
  <2> SUFFICES ASSUME NEW a \in 1 .. n - 1 PROVE t[a].to = t[a + 1].from OBVIOUS
  <2>1. a + 1 \in 1 .. n /\ a \in 1 .. n OBVIOUS
  <2>2. t[a + 1].from = s[a + 1].from BY <1>4, <2>1
  <2> QED BY <1>2, <1>3, <2>2
<1>7. 1 \in 1 .. n BY <1>1
<1>8. t[1].from = 0 BY <1>2, <1>4, <1>7
<1>9. n = Len(t) BY <1>1
<1>10. Tile(t, t[n].to) BY <1>1, <1>5, <1>6, <1>8, <1>9, TileIs
<1> QED BY <1>1, <1>10

\* All spans but the last one.
LEMMA TileFront ==
  ASSUME NEW S, NEW s \in Seq(S), Offsets(S), NEW to, Tile(s, to), Len(s) > 1
  PROVE  /\ Front(s) \in Seq(S) /\ Len(Front(s)) = Len(s) - 1
         /\ \A a \in 1 .. Len(s) - 1 : Front(s)[a] = s[a]
         /\ Tile(Front(s), s[Len(s)].from)
<1>1. PICK n \in Nat : n = Len(s) /\ n > 1 BY LenProperties
<1>2. /\ s[1].from = 0
      /\ \A a \in 1 .. n : s[a].from < s[a].to
      /\ \A a \in 1 .. n - 1 : s[a].to = s[a + 1].from
  BY <1>1, TileIs
<1> DEFINE t == SubSeq(s, 1, n - 1)
<1>3. /\ t \in Seq(S) /\ Len(t) = n - 1
      /\ \A a \in 1 .. n - 1 : t[a] = s[a]
  BY <1>1
<1>4. Front(s) = t BY <1>1 DEF Front
<1> HIDE DEF t
<1>5. n - 1 \in Nat /\ n - 1 # 0 /\ 1 \in 1 .. n - 1 /\ n - 1 \in 1 .. n - 1
      /\ (n - 1) + 1 = n
  BY <1>1
<1>6. t[1].from = 0 /\ t[n - 1].to = s[n].from BY <1>2, <1>3, <1>5
<1>7. \A a \in 1 .. n - 1 : t[a].from < t[a].to BY <1>2, <1>3
<1>8. \A a \in 1 .. (n - 1) - 1 : t[a].to = t[a + 1].from
  <2> SUFFICES ASSUME NEW a \in 1 .. (n - 1) - 1 PROVE t[a].to = t[a + 1].from OBVIOUS
  <2>1. a \in 1 .. n - 1 /\ a + 1 \in 1 .. n - 1 OBVIOUS
  <2> QED BY <1>2, <1>3, <2>1
<1>9. n - 1 = Len(t) BY <1>3
<1>10. Tile(t, s[n].from) BY <1>3, <1>5, <1>6, <1>7, <1>8, <1>9, TileIs
<1> QED BY <1>1, <1>3, <1>4, <1>10

\* All spans but the first, the second of them stretched to the start.
LEMMA TileTail ==
  ASSUME NEW S, NEW s \in Seq(S), Offsets(S), NEW to, Tile(s, to), Len(s) > 1,
         NEW t \in Seq(S), Len(t) = Len(s) - 1,
         t[1].from = 0, t[1].to = s[2].to,
         \A a \in 2 .. Len(s) - 1 : t[a] = s[a + 1]
  PROVE  Tile(t, to)
<1>1. PICK n \in Nat : n = Len(s) /\ n > 1 BY LenProperties
<1>2. /\ s[1].from = 0 /\ s[n].to = to
      /\ \A a \in 1 .. n : s[a].from < s[a].to
      /\ \A a \in 1 .. n - 1 : s[a].to = s[a + 1].from
  BY <1>1, TileIs
<1>3. \A a \in 2 .. n - 1 : t[a] = s[a + 1] BY <1>1
<1>4. \A a \in 1 .. n - 1 : t[a].to = s[a + 1].to
  <2> SUFFICES ASSUME NEW a \in 1 .. n - 1 PROVE t[a].to = s[a + 1].to OBVIOUS
  <2>1. CASE a = 1 BY <2>1
  <2>2. CASE a # 1
    <3>1. a \in 2 .. n - 1 BY <2>2
    <3> QED BY <1>3, <3>1
  <2> QED BY <2>1, <2>2
<1>5. \A a \in 1 .. n - 1 : t[a].from < t[a].to
  <2> SUFFICES ASSUME NEW a \in 1 .. n - 1 PROVE t[a].from < t[a].to OBVIOUS
  <2>1. a + 1 \in 1 .. n OBVIOUS
  <2>2. CASE a = 1
    <3>1. 2 \in 1 .. n BY <1>1
    <3>2. s[2].from < s[2].to BY <1>2, <3>1
    <3>3. s[2] \in S BY <1>1, <3>1, ElementOfSeq
    <3> QED BY <2>2, <3>2, <3>3 DEF Offsets
  <2>3. CASE a # 1
    <3>1. a \in 2 .. n - 1 BY <2>3
    <3> QED BY <1>2, <1>3, <2>1, <3>1
  <2> QED BY <2>2, <2>3
<1>6. \A a \in 1 .. (n - 1) - 1 : t[a].to = t[a + 1].from
  <2> SUFFICES ASSUME NEW a \in 1 .. (n - 1) - 1 PROVE t[a].to = t[a + 1].from OBVIOUS
  <2>1. a \in 1 .. n - 1 /\ a + 1 \in 2 .. n - 1 /\ a + 1 \in 1 .. n - 1
        /\ (a + 1) + 1 = a + 2
    OBVIOUS
  <2>2. t[a].to = s[a + 1].to BY <1>4, <2>1
  <2>3. t[a + 1] = s[a + 2] BY <1>3, <2>1
  <2>4. s[a + 1].to = s[a + 2].from BY <1>2, <2>1
  <2> QED BY <2>2, <2>3, <2>4
<1>7. n - 1 \in Nat /\ n - 1 # 0 /\ n - 1 \in 1 .. n - 1 /\ (n - 1) + 1 = n BY <1>1
<1>8. t[n - 1].to = to BY <1>2, <1>4, <1>7
<1>9. n - 1 = Len(t) BY <1>1
<1> QED BY <1>5, <1>6, <1>7, <1>8, <1>9, TileIs

\* Spans that lie end to end are in order.
LEMMA TileOrder ==
  ASSUME NEW S, NEW s \in Seq(S), Offsets(S), NEW to \in Nat, Tile(s, to),
         NEW n \in Nat, n = Len(s)
  PROVE  /\ \A a, b \in 1 .. n : a < b => s[a].to <= s[b].from
         /\ \A a \in 1 .. n : s[a].to <= to
<1>1. /\ n = 0 => to = 0
      /\ n # 0 => s[1].from = 0 /\ s[n].to = to
      /\ \A a \in 1 .. n : s[a].from < s[a].to
      /\ \A a \in 1 .. n - 1 : s[a].to = s[a + 1].from
  BY TileIs
<1>2. \A a \in 1 .. n : s[a].from \in Nat /\ s[a].to \in Nat
  BY ElementOfSeq DEF Offsets
<1>3. ASSUME NEW a \in 1 .. n
      PROVE  \A b \in 1 .. n : a < b => s[a].to <= s[b].from
  <2> DEFINE P == {k \in Nat : a + 1 + k \in 1 .. n => s[a].to <= s[a + 1 + k].from}
  <2>1. 0 \in P
    <3> SUFFICES ASSUME a + 1 \in 1 .. n PROVE s[a].to <= s[a + 1].from OBVIOUS
    <3>1. a \in 1 .. n - 1 OBVIOUS
    <3>2. s[a].to = s[a + 1].from BY <1>1, <3>1
    <3> QED BY <1>2, <3>2
  <2>2. ASSUME NEW k \in P \cap Nat PROVE k + 1 \in P
    <3> SUFFICES ASSUME a + 1 + (k + 1) \in 1 .. n
                 PROVE  s[a].to <= s[a + 1 + (k + 1)].from
      OBVIOUS
    <3> DEFINE c == a + 1 + k
    <3>1. c \in 1 .. n /\ c \in 1 .. n - 1 /\ c + 1 \in 1 .. n /\ a + 1 + (k + 1) = c + 1
      OBVIOUS
    <3>2. s[a].to <= s[c].from BY <3>1
    <3> HIDE DEF c
    <3>3. s[c].from < s[c].to /\ s[c].to = s[c + 1].from BY <1>1, <3>1
    <3>4. s[a].to <= s[c + 1].from BY <1>2, <3>1, <3>2, <3>3
    <3> QED BY <3>1, <3>4
  <2> HIDE DEF P
  <2>3. Nat \subseteq P BY <2>1, <2>2, Induction
  <2> SUFFICES ASSUME NEW b \in 1 .. n, a < b PROVE s[a].to <= s[b].from OBVIOUS
  <2>4. b - a - 1 \in P /\ a + 1 + (b - a - 1) = b BY <2>3
  <2> QED BY <2>4 DEF P
<1>4. ASSUME NEW a \in 1 .. n PROVE s[a].to <= to
  <2>1. CASE a = n
    <3>1. s[n].to = to BY <1>1, <2>1
    <3> QED BY <1>2, <2>1, <3>1
  <2>2. CASE a # n
    <3>1. n \in 1 .. n /\ a < n BY <2>2
    <3>2. s[a].to <= s[n].from BY <1>3, <3>1
    <3>3. s[n].from < s[n].to /\ s[n].to = to BY <1>1, <3>1
    <3> QED BY <1>2, <3>1, <3>2, <3>3
  <2> QED BY <2>1, <2>2
<1> QED BY <1>3, <1>4

\* Every offset is in one of the spans.
LEMMA TileCovers ==
  ASSUME NEW S, NEW s \in Seq(S), Offsets(S), NEW to \in Nat, Tile(s, to),
         NEW n \in Nat, n = Len(s), NEW x \in Nat, x < to
  PROVE  \E a \in 1 .. n : s[a].from <= x /\ x < s[a].to
<1>1. /\ n = 0 => to = 0
      /\ n # 0 => s[1].from = 0 /\ s[n].to = to
      /\ \A a \in 1 .. n : s[a].from < s[a].to
      /\ \A a \in 1 .. n - 1 : s[a].to = s[a + 1].from
  BY TileIs
<1>2. \A a \in 1 .. n : s[a].from \in Nat /\ s[a].to \in Nat
  BY ElementOfSeq DEF Offsets
<1>3. n # 0 BY <1>1
<1> DEFINE Past == {a \in 1 .. n : x < s[a].to}
<1>4. n \in Past BY <1>1, <1>3
<1>5. PICK a \in Past : \A b \in Past : ~(b < a)
  <2>1. Past \in SUBSET Nat /\ Past # {} BY <1>4
  <2> HIDE DEF Past
  <2> QED BY <2>1, Least
<1>6. s[a].from <= x
  <2>1. CASE a = 1
    <3>1. s[a].from = 0 BY <1>1, <1>3, <2>1
    <3> QED BY <3>1
  <2>2. CASE a # 1
    <3>1. a - 1 \in 1 .. n - 1 /\ a - 1 \in 1 .. n /\ (a - 1) + 1 = a /\ a - 1 < a
      BY <2>2
    <3>2. ~(x < s[a - 1].to) BY <1>5, <3>1
    <3>3. s[a - 1].to = s[a].from BY <1>1, <3>1
    <3>4. s[a - 1].to \in Nat BY <1>2, <3>1
    <3> QED BY <3>2, <3>3, <3>4
  <2> QED BY <2>1, <2>2
<1> QED BY <1>5, <1>6
-----------------------------------------------------------------------------
\* An offset on the edge of a unit of us, or inside one that is cut.
Edge(us, end, x) ==
  \/ x = end
  \/ \E u \in DOMAIN us :
       \/ x = us[u].from
       \/ us[u].from < x /\ x < us[u].to /\ Chars(us[u]) > MaxChars

\* A segment before a short tail is folded into it, and a list of them.
Fits(us, end, e) ==
  Edge(us, end, e.from) /\ Edge(us, end, e.to) /\ Chars(e) < TargetChars + MaxChars
Spanned(us, end, s, to) ==
  /\ s \in Seq(SpanType) /\ Tile(s, to)
  /\ \A a \in 1 .. Len(s) : Fits(us, end, s[a])

UnitsTile ==
  /\ phase = "units" => Tile(units, size) /\ \A u \in 2 .. Len(units) : ~units[u].blank
  /\ phase # "units" =>
       /\ units # <<>> => Tile(units, size)
       /\ \A u \in 1 .. Len(units) : ~units[u].blank

Fresh ==
  /\ phase = "units" => next = 1 /\ head = 0 /\ open = NoSpan /\ segs = <<>>
  /\ phase \in {"units", "pack"} => tries = 1 /\ cuts = <<>>

\* Where segment is in the units: at the start of one, in one that is cut, behind all.
HeadFits ==
  IF next <= Len(units)
  THEN \/ head = units[next].from
       \/ /\ units[next].from < head /\ head < units[next].to
          /\ Chars(units[next]) > MaxChars
  ELSE head = IF units = <<>> THEN 0 ELSE size

Packing ==
  phase = "pack" =>
    /\ HeadFits
    /\ Spanned(units, size, segs, IF open = NoSpan THEN head ELSE open.from)
    /\ open # NoSpan =>
         /\ open.from < open.to /\ open.to = head /\ Chars(open) < TargetChars
         /\ Fits(units, size, open)

Packed ==
  phase \in {"group", "done"} =>
    /\ Tile(segs, IF units = <<>> THEN 0 ELSE size)
    /\ SegmentsAreWhole

\* The cuts of grouped_parts so far.
Cutting ==
  phase \in {"group", "done"} =>
    /\ Len(cuts) < tries
    /\ \A i \in 1 .. Len(cuts) : cuts[i] \in Ends
    /\ \A i \in 1 .. Len(cuts) - 1 : cuts[i] < cuts[i + 1]

SegmentsInv == SegmenterTypeOK /\ UnitsTile /\ Fresh /\ Packing /\ Packed /\ Cutting
-----------------------------------------------------------------------------

\* One more segment that fits.
LEMMA SpannedAppend ==
  ASSUME NEW us, NEW end, NEW s, NEW to \in Nat, Spanned(us, end, s, to),
         NEW e \in SpanType, e.from = to, e.from < e.to, Fits(us, end, e)
  PROVE  Spanned(us, end, Append(s, e), e.to)
<1>1. s \in Seq(SpanType) /\ Tile(s, to) BY DEF Spanned
<1>2. PICK n \in Nat : n = Len(s) BY <1>1, LenProperties
<1>3. Tile(Append(s, e), e.to) BY <1>1, TileAppended, TypesHaveOffsets
<1>4. /\ Append(s, e) \in Seq(SpanType) /\ Len(Append(s, e)) = n + 1
      /\ Append(s, e)[n + 1] = e
      /\ \A a \in 1 .. n : Append(s, e)[a] = s[a]
  BY <1>1, <1>2, AppendProperties
<1>5. \A a \in 1 .. n + 1 : Fits(us, end, Append(s, e)[a])
  <2> SUFFICES ASSUME NEW a \in 1 .. n + 1 PROVE Fits(us, end, Append(s, e)[a]) OBVIOUS
  <2>1. CASE a = n + 1 BY <1>4, <2>1
  <2>2. CASE a # n + 1
    <3>1. a \in 1 .. n BY <2>2
    <3> QED BY <1>2, <1>4, <3>1 DEF Spanned
  <2> QED BY <2>1, <2>2
<1> QED BY <1>3, <1>4, <1>5 DEF Spanned

\* What is packed when the open group is closed.
LEMMA FlushedSpans ==
  ASSUME SegmenterTypeOK, Packing, phase = "pack"
  PROVE  Spanned(units, size, Flushed, head)
<1>1. CASE open = NoSpan BY <1>1 DEF Packing, Flushed
<1>2. CASE open # NoSpan
  <2>1. /\ Spanned(units, size, segs, open.from)
        /\ open.from < open.to /\ open.to = head /\ Fits(units, size, open)
    BY <1>2 DEF Packing
  <2>2. open \in SpanType /\ open.from \in Nat BY DEF SegmenterTypeOK, SpanType
  <2>3. Spanned(units, size, Append(segs, open), open.to)
    BY <2>1, <2>2, SpannedAppend
  <2> QED BY <1>2, <2>1, <2>3 DEF Flushed
<1> QED BY <1>1, <1>2

\* A unit, in the sequence of them.
LEMMA UnitsAre ==
  ASSUME SegmenterTypeOK
  PROVE  /\ units \in Seq(UnitType) /\ Len(units) \in Nat /\ DOMAIN units = 1 .. Len(units)
         /\ \A u \in 1 .. Len(units) : units[u] \in UnitType
         /\ units = <<>> <=> Len(units) = 0
<1>1. units \in Seq(UnitType) BY DEF SegmenterTypeOK, UnitType
<1> QED BY <1>1, LenProperties, ElementOfSeq, EmptySeq

\* The unit that segment has reached, and what is left of it.
LEMMA UnitReached ==
  ASSUME SegmenterTypeOK, UnitsTile, Packing, phase = "pack", next <= Len(units)
  PROVE  /\ next \in 1 .. Len(units)
         /\ units[next].from \in Nat /\ units[next].to \in Nat
         /\ head \in Nat /\ units[next].from <= head /\ head < units[next].to
         /\ head # units[next].from => Chars(units[next]) > MaxChars
         /\ Edge(units, size, head)
         /\ Edge(units, size, units[next].to)
         /\ next + 1 <= Len(units) => units[next].to = units[next + 1].from
         /\ next = Len(units) => units[next].to = size
<1>1. PICK n \in Nat : n = Len(units) /\ DOMAIN units = 1 .. n BY UnitsAre
<1>2. next \in 1 .. n BY <1>1 DEF SegmenterTypeOK
<1>3. units[next] \in UnitType BY <1>1, <1>2, UnitsAre
<1>4. units[next].from \in Nat /\ units[next].to \in Nat BY <1>3 DEF UnitType
<1>5. Tile(units, size) BY <1>1, <1>2, UnitsAre DEF UnitsTile
<1>6. /\ units[n].to = size
      /\ \A u \in 1 .. n : units[u].from < units[u].to
      /\ \A u \in 1 .. n - 1 : units[u].to = units[u + 1].from
  <2>1. units \in Seq(UnitType) /\ n # 0 BY <1>1, <1>2, UnitsAre
  <2> QED BY <1>1, <1>5, <2>1, TileIs
<1>7. units[next].from < units[next].to BY <1>2, <1>6
<1>8. HeadFits BY DEF Packing
<1>9. head \in Nat /\ units[next].from <= head /\ head < units[next].to
      /\ (head # units[next].from => Chars(units[next]) > MaxChars)
  <2>1. head \in Nat BY DEF SegmenterTypeOK
  <2> QED BY <1>4, <1>7, <1>8, <2>1 DEF HeadFits
<1>10. Edge(units, size, head) BY <1>1, <1>2, <1>8 DEF HeadFits, Edge
<1>11. next + 1 <= n => units[next].to = units[next + 1].from
  <2> SUFFICES ASSUME next + 1 <= n PROVE units[next].to = units[next + 1].from OBVIOUS
  <2>1. next \in 1 .. n - 1 BY <1>2
  <2> QED BY <1>6, <2>1
<1>12. next = n => units[next].to = size BY <1>6
<1>13. Edge(units, size, units[next].to)
  <2>1. CASE next = n BY <1>12, <2>1 DEF Edge
  <2>2. CASE next # n
    <3>1. next + 1 \in 1 .. n BY <1>2, <2>2
    <3> QED BY <1>1, <1>11, <3>1 DEF Edge
  <2> QED BY <2>1, <2>2
<1> QED BY <1>1, <1>2, <1>4, <1>9, <1>10, <1>11, <1>12, <1>13

\* The last span of a list, ending elsewhere.
LEMMA EndMoved ==
  ASSUME NEW S, NEW s \in Seq(S), s # <<>>, NEW v, [s[Len(s)] EXCEPT !.to = v] \in S
  PROVE  LET t == [s EXCEPT ![Len(s)].to = v]
         IN  /\ t \in Seq(S) /\ Len(t) = Len(s)
             /\ t[Len(s)] = [s[Len(s)] EXCEPT !.to = v]
             /\ \A a \in 1 .. Len(s) - 1 : t[a] = s[a]
<1>1. PICK n \in Nat : n = Len(s) /\ DOMAIN s = 1 .. n BY LenProperties
<1>2. n \in 1 .. n BY <1>1, EmptySeq
<1> DEFINE e == [s[n] EXCEPT !.to = v]
           t == [s EXCEPT ![n] = e]
<1>3. e \in S BY <1>1
<1> HIDE DEF e
<1>4. t \in Seq(S) /\ Len(t) = n BY <1>1, <1>2, <1>3, ExceptSeq
<1>5. t[n] = e /\ \A a \in 1 .. n - 1 : t[a] = s[a] BY <1>1, <1>2
<1>6. t = [s EXCEPT ![n].to = v] BY DEF e
<1> QED BY <1>1, <1>4, <1>5, <1>6 DEF e

\* A unit's fields.
LEMMA UnitHas ==
  ASSUME NEW e \in UnitType, NEW v \in Nat
  PROVE  /\ e.from \in Nat /\ e.to \in Nat /\ e.blank \in BOOLEAN
         /\ [e EXCEPT !.to = v] \in UnitType /\ [e EXCEPT !.from = v] \in UnitType
         /\ [e EXCEPT !.to = v].from = e.from /\ [e EXCEPT !.to = v].to = v
         /\ [e EXCEPT !.to = v].blank = e.blank
         /\ [e EXCEPT !.from = v].from = v /\ [e EXCEPT !.from = v].to = e.to
         /\ [e EXCEPT !.from = v].blank = e.blank
  BY DEF UnitType

\* The sequence without its first element.
LEMMA TailIs ==
  ASSUME NEW S, NEW s \in Seq(S), s # <<>>
  PROVE  /\ Head(s) \in S /\ Tail(s) \in Seq(S) /\ Len(Tail(s)) = Len(s) - 1
         /\ \A a \in 1 .. Len(s) - 1 : Tail(s)[a] = s[a + 1]
  BY HeadTailProperties, EmptySeq, LenProperties

\* Nothing has been read, packed or cut.
LEMMA SegmentsInit == SegmenterInit => SegmentsInv
<1> SUFFICES ASSUME SegmenterInit PROVE SegmentsInv OBVIOUS
<1>1. text \in Seq(Stretch)
  <2>1. PICK n \in 0 .. MaxStretches : text \in [1 .. n -> Stretch] BY DEF SegmenterInit, Texts
  <2> QED BY <2>1
<1>2. slots \in Nat \ {0} /\ 1 \in 1 .. slots BY BoundAssumption DEF BoundAssumption, SegmenterInit
<1>3. SegmenterTypeOK
  <2>1. <<>> \in Seq([from : Nat, to : Nat, blank : BOOLEAN])
        /\ <<>> \in Seq([from : Nat, to : Nat]) /\ <<>> \in Seq(Nat) /\ Len(<<>>) = 0
        /\ 1 \in 1 .. 0 + 1
    OBVIOUS
  <2>2. NoSpan \in [from : Nat, to : Nat] BY DEF NoSpan, Span
  <2> QED BY <1>1, <1>2, <2>1, <2>2 DEF SegmenterInit, SegmenterTypeOK
<1>4. UnitsTile
  <2>1. Tile(units, size) BY DEF SegmenterInit, Tile
  <2>2. 2 .. Len(<<>>) = {} OBVIOUS
  <2> QED BY <2>1, <2>2 DEF SegmenterInit, UnitsTile
<1> QED BY <1>3, <1>4 DEF SegmenterInit, SegmentsInv, Fresh, Packing, Packed, Cutting
-----------------------------------------------------------------------------
\* A stretch that was read: the units end where the text read so far does.
LEMMA ReadStep ==
  ASSUME SegmentsInv, ReadStretch
  PROVE  SegmentsInv'
<1> DEFINE s == Head(text)
<1>1. /\ phase = "units" /\ phase' = "units" /\ text # <<>> /\ text' = Tail(text)
      /\ UNCHANGED <<slots, next, head, open, segs, tries, cuts>>
      /\ size' = size + s.len
      /\ units' = IF s.blank /\ units # <<>>
                  THEN [units EXCEPT ![Len(units)].to = size + s.len]
                  ELSE Append(units, Unit(size, size + s.len, s.blank))
  BY DEF ReadStretch
<1>2. SegmenterTypeOK /\ text \in Seq(Stretch) /\ size \in Nat /\ next = 1
  BY <1>1 DEF SegmentsInv, SegmenterTypeOK, Fresh
<1>3. s \in Stretch /\ text' \in Seq(Stretch) BY <1>1, <1>2, TailIs
<1>4. s.len \in Nat /\ s.len > 0 /\ s.blank \in BOOLEAN
  BY <1>3, BoundAssumption DEF BoundAssumption, Stretch
<1> HIDE DEF s
<1>5. size' \in Nat /\ size < size' /\ size' = size + s.len BY <1>1, <1>2, <1>4
<1>6. PICK n \in Nat : n = Len(units) BY <1>2, UnitsAre
<1>7. /\ units \in Seq(UnitType) /\ Tile(units, size) /\ Offsets(UnitType)
      /\ \A u \in 2 .. n : ~units[u].blank
      /\ \A u \in 1 .. n : units[u] \in UnitType
      /\ units = <<>> <=> n = 0
  BY <1>1, <1>2, <1>6, UnitsAre, TypesHaveOffsets DEF SegmentsInv, UnitsTile
<1>8. /\ units' \in Seq(UnitType) /\ Tile(units', size')
      /\ \A u \in 2 .. Len(units') : ~units'[u].blank
  <2>1. CASE s.blank /\ units # <<>>
    <3>1. units' = [units EXCEPT ![n].to = size'] BY <1>1, <1>5, <1>6, <2>1
    <3>2. n \in 1 .. n /\ n # 0 BY <1>6, <1>7, <2>1
    <3>3. units[n] \in UnitType BY <1>7, <3>2
    <3> DEFINE e == [units[n] EXCEPT !.to = size']
    <3>4. e \in UnitType /\ e.from = units[n].from /\ e.to = size' /\ e.blank = units[n].blank
      BY <1>5, <3>3 DEF UnitType
    <3>5. /\ units' \in Seq(UnitType) /\ Len(units') = n /\ units'[n] = e
          /\ \A a \in 1 .. n - 1 : units'[a] = units[a]
      BY <1>6, <1>7, <2>1, <3>1, <3>4, EndMoved
    <3> HIDE DEF e
    <3>6. units[n].from < units[n].to /\ units[n].to = size
      BY <1>6, <1>7, <3>2, TileIs
    <3>7. units[n].from \in Nat BY <3>3, <1>7 DEF Offsets
    <3>8. e.from < e.to BY <1>2, <1>5, <3>4, <3>6, <3>7
    <3>9. Tile(units', size')
      <4>1. units'[n].from = units[n].from /\ units'[n].to = size'
            /\ units'[n].from < units'[n].to
        BY <3>4, <3>5, <3>8
      <4> QED BY <1>6, <1>7, <2>1, <3>5, <4>1, TileLastEnds
    <3>10. \A u \in 2 .. n : ~units'[u].blank
      <4> SUFFICES ASSUME NEW u \in 2 .. n PROVE ~units'[u].blank OBVIOUS
      <4>1. CASE u = n BY <1>7, <3>4, <3>5, <4>1
      <4>2. CASE u # n
        <5>1. u \in 1 .. n - 1 BY <4>2
        <5> QED BY <1>7, <3>5, <5>1
      <4> QED BY <4>1, <4>2
    <3> QED BY <3>5, <3>9, <3>10
  <2>2. CASE ~(s.blank /\ units # <<>>)
    <3> DEFINE e == Unit(size, size', s.blank)
    <3>1. e \in UnitType /\ e.from = size /\ e.to = size' /\ e.blank = s.blank
      BY <1>2, <1>4, <1>5 DEF Unit, UnitType
    <3>2. units' = Append(units, e) BY <1>1, <1>5, <2>2
    <3> HIDE DEF e
    <3>3. /\ units' \in Seq(UnitType) /\ Len(units') = n + 1 /\ units'[n + 1] = e
          /\ \A a \in 1 .. n : units'[a] = units[a]
      BY <1>6, <1>7, <3>1, <3>2, AppendProperties
    <3>4. Tile(units', size')
      <4>1. e.from < e.to BY <1>5, <3>1
      <4> QED BY <1>2, <1>7, <3>1, <3>2, <4>1, TileAppended
    <3>5. \A u \in 2 .. n + 1 : ~units'[u].blank
      <4> SUFFICES ASSUME NEW u \in 2 .. n + 1 PROVE ~units'[u].blank OBVIOUS
      <4>1. CASE u = n + 1
        <5>1. n # 0 BY <4>1
        <5> QED BY <1>7, <2>2, <3>1, <3>3, <4>1, <5>1
      <4>2. CASE u # n + 1
        <5>1. u \in 2 .. n /\ u \in 1 .. n BY <4>2
        <5> QED BY <1>7, <3>3, <5>1
      <4> QED BY <4>1, <4>2
    <3> QED BY <3>3, <3>4, <3>5
  <2> QED BY <2>1, <2>2
<1>9. next' \in 1 .. Len(units') + 1
  <2>1. Len(units') \in Nat BY <1>8, LenProperties
  <2> QED BY <1>1, <1>2, <2>1
<1>10. SegmenterTypeOK'
  BY <1>1, <1>2, <1>3, <1>5, <1>8, <1>9 DEF SegmenterTypeOK, UnitType
<1>11. Fresh' BY <1>1 DEF SegmentsInv, Fresh
<1> QED BY <1>1, <1>8, <1>10, <1>11 DEF SegmentsInv, UnitsTile, Packing, Packed, Cutting

\* A leading blank unit has joined the next one, and segment begins at the first.
LEMMA EndUnitsStep ==
  ASSUME SegmentsInv, EndUnits
  PROVE  SegmentsInv'
<1>1. /\ phase = "units" /\ phase' = "pack"
      /\ UNCHANGED <<text, slots, size, next, head, open, segs, tries, cuts>>
      /\ units' = IF units = <<>> \/ ~units[1].blank THEN units
                  ELSE IF Len(units) = 1 THEN <<>>
                  ELSE [Tail(units) EXCEPT ![1].from = 0]
  BY DEF EndUnits
<1>2. SegmenterTypeOK /\ size \in Nat /\ next = 1 /\ head = 0 /\ open = NoSpan /\ segs = <<>>
      /\ tries = 1 /\ cuts = <<>>
  BY <1>1 DEF SegmentsInv, SegmenterTypeOK, Fresh
<1>3. PICK n \in Nat : n = Len(units) BY <1>2, UnitsAre
<1>4. /\ units \in Seq(UnitType) /\ Tile(units, size) /\ Offsets(UnitType)
      /\ \A u \in 2 .. n : ~units[u].blank
      /\ units = <<>> <=> n = 0
  BY <1>1, <1>2, <1>3, UnitsAre, TypesHaveOffsets DEF SegmentsInv, UnitsTile
<1>5. /\ units' \in Seq(UnitType) /\ (units' # <<>> => Tile(units', size))
      /\ \A u \in 1 .. Len(units') : ~units'[u].blank
  <2>1. CASE units = <<>>
    <3>1. units' = <<>> /\ Len(<<>>) = 0 BY <1>1, <2>1
    <3> QED BY <1>4, <2>1, <3>1
  <2>2. CASE units # <<>> /\ ~units[1].blank
    <3>1. units' = units BY <1>1, <2>2
    <3>2. \A u \in 1 .. n : u = 1 \/ u \in 2 .. n OBVIOUS
    <3> QED BY <1>3, <1>4, <2>2, <3>1, <3>2
  <2>3. CASE units # <<>> /\ units[1].blank /\ n = 1
    <3>1. units' = <<>> /\ Len(<<>>) = 0 BY <1>1, <1>3, <2>3
    <3>2. <<>> \in Seq(UnitType) OBVIOUS
    <3> QED BY <3>1, <3>2
  <2>4. CASE units # <<>> /\ units[1].blank /\ n # 1
    <3>1. n > 1 BY <1>4, <2>4
    <3> DEFINE t == Tail(units)
    <3>2. /\ t \in Seq(UnitType) /\ Len(t) = n - 1
          /\ \A a \in 1 .. n - 1 : t[a] = units[a + 1]
      BY <1>3, <1>4, <2>4, TailIs
    <3>3. units' = [t EXCEPT ![1].from = 0] BY <1>1, <1>3, <2>4
    <3> HIDE DEF t
    <3>4. 1 \in 1 .. n - 1 /\ DOMAIN t = 1 .. n - 1 BY <3>1, <3>2
    <3>5. t[1] \in UnitType BY <3>2, <3>4, ElementOfSeq
    <3> DEFINE e == [t[1] EXCEPT !.from = 0]
    <3>6. e \in UnitType /\ e.from = 0 /\ e.to = t[1].to /\ e.blank = t[1].blank
      BY <3>5 DEF UnitType
    <3>7. units' = [t EXCEPT ![1] = e] BY <3>3
    <3> HIDE DEF e
    <3>8. units' \in Seq(UnitType) /\ Len(units') = n - 1
      BY <3>2, <3>4, <3>6, <3>7, ExceptSeq
    <3>9. units'[1] = e /\ \A a \in 2 .. n - 1 : units'[a] = t[a]
      BY <3>4, <3>7
    <3>10. \A a \in 2 .. n - 1 : units'[a] = units[a + 1]
      <4> SUFFICES ASSUME NEW a \in 2 .. n - 1 PROVE units'[a] = units[a + 1] OBVIOUS
      <4>1. a \in 1 .. n - 1 OBVIOUS
      <4> QED BY <3>2, <3>9, <4>1
    <3>11. t[1] = units[2] /\ units'[1].from = 0 /\ units'[1].to = units[2].to
           /\ units'[1].blank = units[2].blank
      <4>1. t[1] = units[1 + 1] BY <3>2, <3>4
      <4> QED BY <3>6, <3>9, <4>1
    <3>12. Tile(units', size)
      BY <1>3, <1>4, <3>1, <3>8, <3>10, <3>11, TileTail
    <3>13. \A u \in 1 .. n - 1 : ~units'[u].blank
      <4> SUFFICES ASSUME NEW u \in 1 .. n - 1 PROVE ~units'[u].blank OBVIOUS
      <4>1. CASE u = 1
        <5>1. 2 \in 2 .. n BY <3>1
        <5> QED BY <1>4, <3>11, <4>1, <5>1
      <4>2. CASE u # 1
        <5>1. u \in 2 .. n - 1 /\ u + 1 \in 2 .. n BY <4>2
        <5> QED BY <1>4, <3>10, <5>1
      <4> QED BY <4>1, <4>2
    <3> QED BY <3>8, <3>12, <3>13
  <2> QED BY <2>1, <2>2, <2>3, <2>4
<1>6. PICK k \in Nat : k = Len(units') BY <1>5, LenProperties
<1>7. SegmenterTypeOK'
  <2>1. next' \in 1 .. Len(units') + 1 BY <1>1, <1>2, <1>6
  <2> QED BY <1>1, <1>2, <1>5, <2>1 DEF SegmenterTypeOK, UnitType
<1>8. UnitsTile' BY <1>1, <1>5 DEF UnitsTile
<1>9. Fresh' BY <1>1, <1>2 DEF Fresh
<1>10. Packing'
  <2>1. HeadFits'
    <3>1. CASE units' = <<>>
      <4>1. k = 0 BY <1>6, <3>1
      <4>2. ~(next' <= Len(units')) BY <1>1, <1>2, <1>6, <4>1
      <4> QED BY <1>1, <1>2, <3>1, <4>2 DEF HeadFits
    <3>2. CASE units' # <<>>
      <4>1. k # 0 BY <1>5, <1>6, <3>2, EmptySeq
      <4>2. units'[1].from = 0 BY <1>5, <1>6, <3>2, <4>1, TileIs
      <4>3. next' <= Len(units')
        <5>1. next' = 1 /\ Len(units') = k BY <1>1, <1>2, <1>6
        <5>2. 1 <= k BY <1>6, <4>1
        <5> QED BY <5>1, <5>2
      <4> QED BY <1>1, <1>2, <4>2, <4>3 DEF HeadFits
    <3> QED BY <3>1, <3>2
  <2>2. Spanned(units', size', <<>>, 0)
    <3>1. <<>> \in Seq(SpanType) /\ Len(<<>>) = 0 /\ 1 .. 0 = {} /\ DOMAIN <<>> = {}
      OBVIOUS
    <3>2. Tile(<<>>, 0)
      <4>1. 1 .. Len(<<>>) - 1 = {} BY <3>1
      <4> QED BY <3>1, <4>1 DEF Tile
    <3> QED BY <3>1, <3>2 DEF Spanned
  <2> QED BY <1>1, <1>2, <2>1, <2>2 DEF Packing
<1> QED BY <1>1, <1>7, <1>8, <1>9, <1>10 DEF SegmentsInv, Packed, Cutting

\* What no step of packing changes.
LEMMA UnitsKept ==
  ASSUME SegmentsInv, phase = "pack", phase' \in {"pack", "group", "done"},
         UNCHANGED <<text, slots, size, units>>
  PROVE  UnitsTile'
  BY DEF SegmentsInv, UnitsTile

\* An oversized unit: one more piece of it is cut off.
LEMMA CutStep ==
  ASSUME SegmentsInv, Cut
  PROVE  SegmentsInv'
<1>1. /\ phase = "pack" /\ phase' = "pack" /\ next <= Len(units)
      /\ UNCHANGED <<text, slots, size, units, next, tries, cuts>>
      /\ segs' = Append(Flushed, Span(head, head + MaxChars))
      /\ open' = NoSpan /\ head' = head + MaxChars
      /\ Chars(Rest) > MaxChars
  BY DEF Cut
<1>2. SegmenterTypeOK /\ Packing /\ UnitsTile /\ Fresh BY DEF SegmentsInv
<1>3. MaxChars \in Nat /\ MaxChars > 0 /\ TargetChars \in Nat /\ TargetChars > 0
  BY BandAssumption DEF BandAssumption
<1>4. /\ next \in 1 .. Len(units) /\ units[next].from \in Nat /\ units[next].to \in Nat
      /\ head \in Nat /\ units[next].from <= head /\ Edge(units, size, head)
  BY <1>1, <1>2, UnitReached
<1>5. units[next].to - head > MaxChars
  BY <1>1 DEF Rest, Chars, Span
<1>6. /\ head' \in Nat /\ head < head' /\ head' < units[next].to
      /\ units[next].from < head' /\ units[next].to - units[next].from > MaxChars
  BY <1>1, <1>3, <1>4, <1>5
<1>7. Chars(units[next]) > MaxChars BY <1>6 DEF Chars
<1>8. Edge(units, size, head')
  BY <1>2, <1>4, <1>6, <1>7, UnitsAre DEF Edge
<1> DEFINE e == Span(head, head')
<1>9. e \in SpanType /\ e.from = head /\ e.to = head' BY <1>4, <1>6 DEF Span, SpanType
<1>10. e.to - e.from = MaxChars BY <1>1, <1>3, <1>4, <1>9
<1>11. segs' = Append(Flushed, e) BY <1>1
<1> HIDE DEF e
<1>12. Fits(units, size, e)
  <2>1. Chars(e) < TargetChars + MaxChars BY <1>3, <1>10 DEF Chars
  <2> QED BY <1>4, <1>8, <1>9, <2>1 DEF Fits
<1>13. Spanned(units, size, segs', head')
  <2>1. Spanned(units, size, Flushed, head) BY <1>1, <1>2, FlushedSpans
  <2>2. e.from < e.to BY <1>6, <1>9
  <2> QED BY <1>4, <1>9, <1>11, <1>12, <2>1, <2>2, SpannedAppend
<1>14. SegmenterTypeOK'
  <2>1. segs' \in Seq([from : Nat, to : Nat]) BY <1>13 DEF Spanned, SpanType
  <2>2. NoSpan \in [from : Nat, to : Nat] BY DEF NoSpan, Span
  <2> QED BY <1>1, <1>2, <1>6, <2>1, <2>2 DEF SegmenterTypeOK
<1>15. HeadFits'
  BY <1>1, <1>6, <1>7 DEF HeadFits
<1>16. Packing' BY <1>1, <1>13, <1>15 DEF Packing
<1>17. Fresh' BY <1>1, <1>2 DEF Fresh
<1> QED BY <1>1, <1>14, <1>16, <1>17, UnitsKept DEF SegmentsInv, Packed, Cutting

\* A unit, or what is left of one, joins the open group.
LEMMA PackStep ==
  ASSUME SegmentsInv, Pack
  PROVE  SegmentsInv'
<1> DEFINE group == IF open = NoSpan THEN Rest ELSE Span(open.from, Rest.to)
<1>1. /\ phase = "pack" /\ phase' = "pack" /\ next <= Len(units)
      /\ UNCHANGED <<text, slots, size, units, tries, cuts>>
      /\ next' = next + 1 /\ head' = Rest.to
      /\ Chars(Rest) <= MaxChars
      /\ IF Chars(group) >= TargetChars
         THEN segs' = Append(segs, group) /\ open' = NoSpan
         ELSE segs' = segs /\ open' = group
  BY DEF Pack
<1>2. SegmenterTypeOK /\ Packing /\ UnitsTile /\ Fresh BY DEF SegmentsInv
<1>3. MaxChars \in Nat /\ MaxChars > 0 /\ TargetChars \in Nat /\ TargetChars > 0
  BY BandAssumption DEF BandAssumption
<1>4. /\ next \in 1 .. Len(units) /\ units[next].from \in Nat /\ units[next].to \in Nat
      /\ head \in Nat /\ head < units[next].to
      /\ Edge(units, size, head) /\ Edge(units, size, units[next].to)
      /\ next + 1 <= Len(units) => units[next].to = units[next + 1].from
      /\ next = Len(units) => units[next].to = size
  BY <1>1, <1>2, UnitReached
<1>5. /\ Rest \in SpanType /\ Rest.from = head /\ Rest.to = units[next].to
      /\ Chars(Rest) = units[next].to - head
  BY <1>4 DEF Rest, Chars, Span, SpanType
<1>6. head' = units[next].to /\ head' \in Nat /\ head < head' BY <1>1, <1>4, <1>5
<1>7. PICK from \in Nat : from = IF open = NoSpan THEN head ELSE open.from
  BY <1>2, <1>4 DEF SegmenterTypeOK
<1>8. /\ from <= head /\ Edge(units, size, from) /\ Spanned(units, size, segs, from)
      /\ head - from < TargetChars
  <2>1. CASE open = NoSpan BY <1>1, <1>2, <1>3, <1>4, <1>7, <2>1 DEF Packing
  <2>2. CASE open # NoSpan
    <3>1. /\ Spanned(units, size, segs, open.from) /\ Fits(units, size, open)
          /\ open.from < open.to /\ open.to = head /\ Chars(open) < TargetChars
      BY <1>1, <1>2, <2>2 DEF Packing
    <3>2. from = open.from BY <1>7, <2>2
    <3>3. head - from < TargetChars BY <3>1, <3>2 DEF Chars
    <3>4. from <= head BY <1>4, <1>7, <3>1, <3>2
    <3> QED BY <3>1, <3>2, <3>3, <3>4 DEF Fits
  <2> QED BY <2>1, <2>2
<1>9. group = Span(from, head')
  BY <1>1, <1>5, <1>7 DEF Rest, Span
<1>10. /\ group \in SpanType /\ group.from = from /\ group.to = head'
       /\ Chars(group) = head' - from
  BY <1>6, <1>7, <1>9 DEF Span, SpanType, Chars
<1> HIDE DEF group
<1>11. from < head' /\ head' - from < TargetChars + MaxChars
  <2>1. head' - head <= MaxChars BY <1>1, <1>5, <1>6
  <2> QED BY <1>3, <1>4, <1>6, <1>7, <1>8, <2>1
<1>12. Fits(units, size, group)
  BY <1>4, <1>6, <1>8, <1>10, <1>11 DEF Fits
<1>13. next' \in 1 .. Len(units) + 1
  BY <1>1, <1>2, <1>4, UnitsAre
<1>14. HeadFits'
  <2>1. Len(units) \in Nat /\ next \in Nat BY <1>2, <1>4, UnitsAre
  <2>2. CASE next' <= Len(units')
    <3>1. head' = units'[next'].from BY <1>1, <1>4, <1>6, <2>2
    <3> QED BY <2>2, <3>1 DEF HeadFits
  <2>3. CASE ~(next' <= Len(units'))
    <3>1. next = Len(units) BY <1>1, <1>4, <2>1, <2>3
    <3>2. units # <<>>
      <4>1. Len(units) # 0 BY <1>4
      <4> QED BY <1>2, <4>1, UnitsAre
    <3>3. head' = IF units' = <<>> THEN 0 ELSE size' BY <1>1, <1>4, <1>6, <3>1, <3>2
    <3> QED BY <2>3, <3>3 DEF HeadFits
  <2> QED BY <2>2, <2>3
<1>15. segs \in Seq(SpanType) BY <1>8 DEF Spanned
<1>16. NoSpan \in SpanType BY DEF NoSpan, Span, SpanType
<1>17. Packing' /\ segs' \in Seq(SpanType) /\ open' \in SpanType
  <2>1. CASE Chars(group) >= TargetChars
    <3>1. segs' = Append(segs, group) /\ open' = NoSpan BY <1>1, <2>1 DEF group
    <3>2. Spanned(units, size, segs', head')
      <4>1. group.from < group.to BY <1>10, <1>11
      <4> QED BY <1>7, <1>8, <1>10, <1>12, <3>1, <4>1, SpannedAppend
    <3>3. segs' \in Seq(SpanType) BY <3>2 DEF Spanned
    <3> QED BY <1>1, <1>14, <1>16, <3>1, <3>2, <3>3 DEF Packing
  <2>2. CASE ~(Chars(group) >= TargetChars)
    <3>1. segs' = segs /\ open' = group BY <1>1, <2>2 DEF group
    <3>2. open'.from = from /\ open'.to = head' /\ open'.from < open'.to
      BY <1>10, <1>11, <3>1
    <3>3. open' # NoSpan
      <4>1. NoSpan.from = 0 /\ NoSpan.to = 0 BY DEF NoSpan, Span
      <4> QED BY <1>6, <1>7, <3>2, <4>1
    <3>4. Chars(open') < TargetChars BY <1>3, <1>6, <1>7, <1>10, <2>2, <3>1
    <3>5. Spanned(units', size', segs', open'.from) BY <1>1, <1>8, <3>1, <3>2
    <3>6. Fits(units', size', open') BY <1>1, <1>12, <3>1
    <3> QED BY <1>10, <1>14, <1>15, <3>1, <3>2, <3>3, <3>4, <3>5, <3>6 DEF Packing
  <2> QED BY <2>1, <2>2
<1>18. SegmenterTypeOK' BY <1>1, <1>2, <1>6, <1>13, <1>17 DEF SegmenterTypeOK, SpanType
<1>19. Fresh' BY <1>1, <1>2 DEF Fresh
<1> QED BY <1>1, <1>17, <1>18, <1>19, UnitsKept DEF SegmentsInv, Packed, Cutting

\* The short tail is folded back, and every segment is whole.
LEMMA FoldStep ==
  ASSUME SegmentsInv, Fold
  PROVE  SegmentsInv'
<1> DEFINE all == Flushed
<1>1. /\ phase = "pack" /\ phase' = "group" /\ ~(next <= Len(units))
      /\ UNCHANGED <<text, slots, size, units, next, head, tries, cuts>>
      /\ open' = NoSpan
      /\ segs' = IF Len(all) > 1 /\ Chars(Last(all)) < MinChars
                 THEN [Front(all) EXCEPT ![Len(all) - 1].to = Last(all).to]
                 ELSE all
  <2>1. next > Len(units) BY DEF Fold
  <2>2. next \in Nat /\ Len(units) \in Nat BY UnitsAre DEF SegmentsInv, SegmenterTypeOK
  <2>3. ~(next <= Len(units)) BY <2>1, <2>2
  <2> QED BY <2>3 DEF Fold
<1>2. SegmenterTypeOK /\ Packing /\ UnitsTile /\ Fresh BY DEF SegmentsInv
<1>3. MinChars \in Nat /\ MinChars > 0 /\ MaxChars \in Nat /\ MaxChars > 0
      /\ TargetChars \in Nat /\ TargetChars > 0
  BY BandAssumption DEF BandAssumption
<1>4. Spanned(units, size, all, head) BY <1>1, <1>2, FlushedSpans
<1>5. head = IF units = <<>> THEN 0 ELSE size BY <1>1, <1>2 DEF Packing, HeadFits
<1>6. head \in Nat BY <1>2 DEF SegmenterTypeOK
<1> HIDE DEF all
<1>7. all \in Seq(SpanType) /\ Tile(all, head) /\ Offsets(SpanType)
  BY <1>4, TypesHaveOffsets DEF Spanned
<1>8. PICK n \in Nat : n = Len(all) BY <1>7, LenProperties
<1>9. \A a \in 1 .. n : Fits(units, size, all[a]) /\ all[a] \in SpanType
  BY <1>4, <1>7, <1>8, ElementOfSeq DEF Spanned
<1> DEFINE whole(e) == /\ Edge(units, size, e.from) /\ Edge(units, size, e.to)
                       /\ Chars(e) < TargetChars + MaxChars + MinChars - 1
<1>10. \A a \in 1 .. n : whole(all[a])
  <2> SUFFICES ASSUME NEW a \in 1 .. n PROVE whole(all[a]) OBVIOUS
  <2>1. Fits(units, size, all[a]) /\ all[a].from \in Nat /\ all[a].to \in Nat
    BY <1>9 DEF SpanType
  <2>2. Chars(all[a]) \in Int /\ Chars(all[a]) < TargetChars + MaxChars
    BY <2>1 DEF Fits, Chars
  <2>3. Chars(all[a]) < TargetChars + MaxChars + MinChars - 1 BY <1>3, <2>2
  <2> QED BY <2>1, <2>3 DEF Fits
<1>11. segs' \in Seq(SpanType) /\ Tile(segs', head) /\ \A a \in 1 .. Len(segs') : whole(segs'[a])
  <2>1. CASE ~(n > 1 /\ Chars(Last(all)) < MinChars)
    <3>1. segs' = all BY <1>1, <1>8, <2>1
    <3> HIDE DEF whole
    <3> QED BY <1>7, <1>8, <1>10, <3>1
  <2>2. CASE n > 1 /\ Chars(Last(all)) < MinChars
    <3> DEFINE f == Front(all)
               m == n - 1
    <3>1. /\ f \in Seq(SpanType) /\ Len(f) = m /\ m \in Nat /\ m \in 1 .. m
          /\ \A a \in 1 .. m : f[a] = all[a]
          /\ Tile(f, all[n].from)
      BY <1>7, <1>8, <2>2, TileFront
    <3>2. segs' = [f EXCEPT ![m].to = Last(all).to] BY <1>1, <1>8, <2>2
    <3>3. Last(all) = all[n] BY <1>8 DEF Last
    <3>4. f # <<>> BY <3>1, EmptySeq
    <3>5. /\ f[m] \in SpanType /\ all[n] \in SpanType /\ f[m] = all[m]
          /\ n \in 1 .. n /\ m \in 1 .. n /\ m \in 1 .. n - 1 /\ m + 1 = n
      BY <1>8, <1>9, <2>2, <3>1, ElementOfSeq
    <3>6. all[m].to = all[n].from /\ all[m].from < all[m].to /\ all[n].from < all[n].to
          /\ all[n].to = head
      <4>1. n # 0 BY <2>2
      <4>2. all[m].to = all[m + 1].from /\ all[m].from < all[m].to /\ all[n].from < all[n].to
            /\ all[n].to = head
        BY <1>7, <1>8, <3>5, <4>1, TileIs
      <4> QED BY <3>5, <4>2
    <3> DEFINE e == [f[m] EXCEPT !.to = all[n].to]
    <3>7. e \in SpanType /\ e.from = all[m].from /\ e.to = all[n].to
      BY <3>5 DEF SpanType
    <3> HIDE DEF f, m
    <3>8. /\ segs' \in Seq(SpanType) /\ Len(segs') = m /\ segs'[m] = e
          /\ \A a \in 1 .. m - 1 : segs'[a] = f[a]
      BY <3>1, <3>2, <3>3, <3>4, <3>7, EndMoved
    <3> HIDE DEF e
    <3>9. /\ all[m].from \in Nat /\ all[m].to \in Nat /\ all[n].from \in Nat
          /\ all[n].to \in Nat
      BY <1>9, <3>5 DEF SpanType
    <3>10. Tile(segs', head)
      <4>1. segs'[m].from < segs'[m].to /\ segs'[m].from = f[m].from /\ segs'[m].to = head
        BY <3>5, <3>6, <3>7, <3>8, <3>9
      <4> QED BY <1>7, <3>1, <3>4, <3>8, <4>1, TileLastEnds
    <3>11. whole(e)
      <4>1. Edge(units, size, all[m].from) /\ Edge(units, size, all[n].to)
            /\ all[m].to - all[m].from < TargetChars + MaxChars
        BY <1>9, <3>5 DEF Fits, Chars
      <4>2. all[n].to - all[n].from < MinChars BY <2>2, <3>3 DEF Chars
      <4>3. all[n].to - all[m].from < TargetChars + MaxChars + MinChars - 1
        BY <1>3, <3>6, <3>9, <4>1, <4>2
      <4> QED BY <3>7, <4>1, <4>3 DEF Chars
    <3>12. \A a \in 1 .. m : whole(segs'[a])
      <4> SUFFICES ASSUME NEW a \in 1 .. m PROVE whole(segs'[a]) OBVIOUS
      <4> HIDE DEF whole
      <4>1. CASE a = m BY <3>8, <3>11, <4>1
      <4>2. CASE a # m
        <5>1. a \in 1 .. m - 1 /\ a \in 1 .. n BY <3>1, <3>5, <4>2
        <5>2. segs'[a] = all[a] BY <3>1, <3>8, <5>1
        <5> QED BY <1>10, <5>1, <5>2
      <4> QED BY <4>1, <4>2
    <3> HIDE DEF whole
    <3> QED BY <3>8, <3>10, <3>12
  <2> HIDE DEF whole
  <2> QED BY <2>1, <2>2
<1>12. DOMAIN segs' = 1 .. Len(segs') BY <1>11, LenProperties
<1>13. Packed'
  <2>1. SegmentsAreWhole'
    <3>1. units' = units /\ size' = size BY <1>1
    <3>2. \A a \in DOMAIN segs' : whole(segs'[a]) BY <1>11, <1>12
    <3> HIDE DEF all
    <3> QED BY <3>1, <3>2 DEF SegmentsAreWhole, OnUnitEdge, Edge, Chars
  <2> QED BY <1>1, <1>5, <1>11, <2>1 DEF Packed
<1>14. SegmenterTypeOK'
  <2>1. NoSpan \in [from : Nat, to : Nat] BY DEF NoSpan, Span
  <2> QED BY <1>1, <1>2, <1>11, <2>1 DEF SegmenterTypeOK, SpanType
<1>15. Cutting'
  <2>1. tries = 1 /\ cuts = <<>> BY <1>1, <1>2 DEF Fresh
  <2>2. Len(<<>>) = 0 /\ 1 .. 0 = {} /\ 1 .. 0 - 1 = {} /\ 0 < 1 OBVIOUS
  <2> QED BY <1>1, <2>1, <2>2 DEF Cutting
<1> QED BY <1>1, <1>13, <1>14, <1>15, UnitsKept DEF SegmentsInv, Fresh, Packing

\* One more cut, on an edge behind the last one.
LEMMA CutPartStep ==
  ASSUME SegmentsInv, CutPart
  PROVE  SegmentsInv'
<1>1. /\ phase = "group" /\ phase' = "group" /\ tries < slots /\ tries' = tries + 1
      /\ UNCHANGED <<text, slots, size, units, next, head, open, segs>>
  BY DEF CutPart
<1>2. PICK e \in Candidates : cuts' = Append(cuts, e) BY DEF CutPart
<1>3. SegmenterTypeOK /\ cuts \in Seq(Nat) /\ tries \in Nat /\ tries >= 1 /\ slots \in Nat
  BY DEF SegmentsInv, SegmenterTypeOK
<1>4. PICK n \in Nat : n = Len(cuts) BY <1>3, LenProperties
<1>5. e \in Ends /\ e > Previous BY DEF Candidates
<1>6. e \in Nat
  <2>1. PICK a \in DOMAIN segs : e = segs[a].to BY <1>5 DEF Ends
  <2>2. segs[a] \in [from : Nat, to : Nat]
    <3>1. segs \in Seq([from : Nat, to : Nat]) BY <1>3 DEF SegmenterTypeOK
    <3>2. a \in 1 .. Len(segs) BY <2>1, <3>1, LenProperties
    <3> QED BY <3>1, <3>2, ElementOfSeq
  <2> QED BY <2>1, <2>2
<1>7. /\ cuts' \in Seq(Nat) /\ Len(cuts') = n + 1 /\ cuts'[n + 1] = e
      /\ \A i \in 1 .. n : cuts'[i] = cuts[i]
  BY <1>2, <1>3, <1>4, <1>6, AppendProperties
<1>8. /\ n < tries
      /\ \A i \in 1 .. n : cuts[i] \in Ends
      /\ \A i \in 1 .. n - 1 : cuts[i] < cuts[i + 1]
  BY <1>1, <1>4 DEF SegmentsInv, Cutting
<1>9. Ends' = Ends BY <1>1 DEF Ends
<1>10. \A i \in 1 .. n + 1 : cuts'[i] \in Ends
  <2> SUFFICES ASSUME NEW i \in 1 .. n + 1 PROVE cuts'[i] \in Ends OBVIOUS
  <2>1. CASE i = n + 1 BY <1>5, <1>7, <2>1
  <2>2. CASE i # n + 1
    <3>1. i \in 1 .. n BY <2>2
    <3> QED BY <1>7, <1>8, <3>1
  <2> QED BY <2>1, <2>2
<1>11. \A i \in 1 .. n : cuts'[i] < cuts'[i + 1]
  <2> SUFFICES ASSUME NEW i \in 1 .. n PROVE cuts'[i] < cuts'[i + 1] OBVIOUS
  <2>1. CASE i = n
    <3>1. n # 0 BY <2>1
    <3>2. Previous = cuts[n] BY <1>3, <1>4, <3>1, EmptySeq DEF Previous, Last
    <3>3. cuts[n] \in Nat BY <1>3, <1>4, <2>1, ElementOfSeq
    <3>4. cuts[n] < e BY <1>5, <1>6, <3>2, <3>3
    <3> QED BY <1>7, <2>1, <3>4
  <2>2. CASE i # n
    <3>1. i \in 1 .. n - 1 /\ i \in 1 .. n /\ i + 1 \in 1 .. n BY <2>2
    <3> QED BY <1>7, <1>8, <3>1
  <2> QED BY <2>1, <2>2
<1>12. Cutting'
  <2>1. n + 1 < tries + 1 /\ (n + 1) - 1 = n BY <1>3, <1>8
  <2> QED BY <1>1, <1>7, <1>9, <1>10, <1>11, <2>1 DEF Cutting
<1>13. tries' \in 1 .. slots BY <1>1, <1>3
<1>14. SegmenterTypeOK' BY <1>1, <1>3, <1>7, <1>13 DEF SegmenterTypeOK
<1>15. Packed'
  BY <1>1 DEF SegmentsInv, Packed, SegmentsAreWhole, OnUnitEdge
<1>16. UnitsTile' BY <1>1 DEF SegmentsInv, UnitsTile
<1> QED BY <1>1, <1>12, <1>14, <1>15, <1>16 DEF SegmentsInv, Fresh, Packing

\* Nothing but the phase changes.
LEMMA EndStep ==
  ASSUME SegmentsInv, EndGroups \/ UNCHANGED segmenterVars
  PROVE  SegmentsInv'
<1>1. CASE EndGroups
  <2>1. /\ phase = "group" /\ phase' = "done"
        /\ UNCHANGED <<text, slots, size, units, next, head, open, segs, tries, cuts>>
    BY <1>1 DEF EndGroups
  <2>2. SegmenterTypeOK' /\ UnitsTile' /\ Fresh' /\ Packing'
    BY <2>1 DEF SegmentsInv, SegmenterTypeOK, UnitsTile, Fresh, Packing
  <2>3. Packed' BY <2>1 DEF SegmentsInv, Packed, SegmentsAreWhole, OnUnitEdge
  <2>4. Cutting' BY <2>1 DEF SegmentsInv, Cutting, Ends
  <2> QED BY <2>2, <2>3, <2>4 DEF SegmentsInv
<1>2. CASE UNCHANGED segmenterVars
  <2>1. UNCHANGED <<text, slots, phase, size, units, next, head, open, segs, tries, cuts>>
    BY <1>2 DEF segmenterVars
  <2>2. SegmenterTypeOK' /\ UnitsTile' /\ Fresh'
    BY <2>1 DEF SegmentsInv, SegmenterTypeOK, UnitsTile, Fresh
  <2>3. Packed' BY <2>1 DEF SegmentsInv, Packed, SegmentsAreWhole, OnUnitEdge
  <2>4. Cutting' BY <2>1 DEF SegmentsInv, Cutting, Ends
  <2>5. Packing' BY <2>1 DEF SegmentsInv, Packing, HeadFits
  <2> QED BY <2>2, <2>3, <2>4, <2>5 DEF SegmentsInv
<1> QED BY <1>1, <1>2

\* Each action, by its lemma.
LEMMA SegmentsStep ==
  SegmentsInv /\ [SegmenterNext]_segmenterVars => SegmentsInv'
<1> SUFFICES ASSUME SegmentsInv, [SegmenterNext]_segmenterVars PROVE SegmentsInv' OBVIOUS
<1>1. CASE ReadStretch BY <1>1, ReadStep
<1>2. CASE EndUnits BY <1>2, EndUnitsStep
<1>3. CASE Cut BY <1>3, CutStep
<1>4. CASE Pack BY <1>4, PackStep
<1>5. CASE Fold BY <1>5, FoldStep
<1>6. CASE CutPart BY <1>6, CutPartStep
<1>7. CASE EndGroups \/ Segmented \/ UNCHANGED segmenterVars BY <1>7, EndStep DEF Segmented
<1> QED BY <1>1, <1>2, <1>3, <1>4, <1>5, <1>6, <1>7 DEF SegmenterNext

\* Segmentation keeps its invariant.
LEMMA SegmentsHold == SegmenterSpec => []SegmentsInv
<1>1. SegmenterInit => SegmentsInv BY SegmentsInit
<1>2. SegmentsInv /\ [SegmenterNext]_segmenterVars => SegmentsInv' BY SegmentsStep
<1> QED BY <1>1, <1>2, PTL DEF SegmenterSpec

(***************************************************************************)
(* Segmentation's types, of a text of any length: the offsets, units and   *)
(* segments of segment (segmenter.py) keep their form, and no position  *)
(* leaves the units that were read.                                        *)
(***************************************************************************)
THEOREM SegmentTypesCorrect == SegmenterSpec => []SegmenterTypeOK
<1>1. SegmentsInv => SegmenterTypeOK BY DEF SegmentsInv
<1> QED BY <1>1, SegmentsHold, PTL

(***************************************************************************)
(* The segments lie end to end over all the text that has been packed, and *)
(* over the whole of it when packing is done; each starts and ends on a    *)
(* unit's edge or inside a unit too large for one segment, and none passes *)
(* the band by more than the tail folded back into it (segment and _flush, *)
(* segmenter.py).                                                       *)
(***************************************************************************)
THEOREM SegmentsCorrect == SegmenterSpec => []SegmentsTileWhole
<1>1. SegmentsInv => SegmentsTileWhole
  <2> SUFFICES ASSUME SegmentsInv PROVE SegmentsTileWhole OBVIOUS
  <2>1. SegmenterTypeOK /\ UnitsTile /\ Packing /\ Packed BY DEF SegmentsInv
  <2>2. phase # "units" =>
          /\ units # <<>> => Tile(units, size)
          /\ \A u \in DOMAIN units : ~units[u].blank
    BY <2>1, UnitsAre DEF UnitsTile
  <2>3. phase = "pack" => Tile(Flushed, head) BY <2>1, FlushedSpans DEF Spanned
  <2>4. SegmentsAreWhole
    BY <2>1 DEF Packed, SegmentsAreWhole
  <2> QED BY <2>1, <2>2, <2>3, <2>4 DEF SegmentsTileWhole, Tiled, Packed
<1> QED BY <1>1, SegmentsHold, PTL

\* A quotient and its remainder.
LEMMA Division ==
  ASSUME NEW d \in Nat, NEW c \in Nat, c > 0
  PROVE  /\ d \div c \in Nat /\ (d \div c) * c \in Nat
         /\ (d \div c) * c <= d /\ d < (d \div c) * c + c
  OBVIOUS

\* The fragment of segment a that holds unit u.
Place(a, u) == (u - Smallest(ItemsOf(a))) \div Cap
Chunk(a, u) == {w \in ItemsOf(a) : Place(a, w) = Place(a, u)}

\* The fragments are the chunks of the segments.
LEMMA ChunksAre ==
  \A f : f \in SegmentItems <=> \E a \in DOMAIN segs : \E u \in ItemsOf(a) : f = Chunk(a, u)
  BY DEF SegmentItems, Chunk, Place

\* The first item of a segment.
LEMMA SmallestIs ==
  ASSUME NEW S, S \subseteq Nat, S # {}
  PROVE  Smallest(S) \in S /\ \A u \in S : Smallest(S) <= u
<1>1. PICK x \in S : \A y \in S : ~(y < x) BY Least
<1>2. \A y \in S : x <= y
  <2> SUFFICES ASSUME NEW y \in S PROVE x <= y OBVIOUS
  <2> QED BY <1>1
<1> QED BY <1>2 DEF Smallest

\* A fragment is as large as a reply can carry.
LEMMA ChunkIsSmall ==
  ASSUME SegmenterTypeOK, NEW a \in DOMAIN segs, NEW u \in ItemsOf(a)
  PROVE  Cardinality(Chunk(a, u)) <= Cap
<1> DEFINE S == ItemsOf(a)
           m == Smallest(S)
           q == Place(a, u)
<1>1. S \subseteq Nat BY UnitsAre DEF ItemsOf
<1>2. Cap \in Nat /\ Cap > 0 BY BoundAssumption DEF BoundAssumption
<1> HIDE DEF S
<1>3. m \in Nat /\ \A w \in S : m <= w BY <1>1, SmallestIs DEF S
<1> HIDE DEF m
<1>4. \A w \in S : w - m \in Nat BY <1>1, <1>3
<1>5. \A w \in S : Place(a, w) = (w - m) \div Cap BY DEF Place, S, m
<1>6. u \in S BY DEF S
<1>7. q \in Nat /\ q * Cap \in Nat
  <2>1. q = (u - m) \div Cap BY <1>5, <1>6
  <2> HIDE DEF q
  <2> QED BY <1>2, <1>4, <1>6, <2>1, Division
<1> DEFINE low == m + q * Cap
           high == low + Cap - 1
<1>8. ASSUME NEW w \in Chunk(a, u) PROVE w \in low .. high
  <2>1. w \in S /\ Place(a, w) = q BY DEF Chunk, S
  <2>2. (w - m) \div Cap = q BY <1>5, <2>1
  <2> HIDE DEF q
  <2>3. q * Cap <= w - m /\ w - m < q * Cap + Cap BY <1>2, <1>4, <2>1, <2>2, Division
  <2>4. w \in Nat BY <1>1, <2>1
  <2> QED BY <1>2, <1>3, <1>7, <2>3, <2>4
<1> HIDE DEF q
<1>9. low \in Nat /\ high \in Int /\ high - low + 1 = Cap /\ low <= high
  BY <1>2, <1>3, <1>7
<1> HIDE DEF low, high
<1>10. /\ IsFiniteSet(low .. high)
       /\ Cardinality(low .. high) = IF low > high THEN 0 ELSE high - low + 1
  BY <1>9, FS_Interval
<1>11. Cardinality(low .. high) = Cap BY <1>9, <1>10
<1>12. Chunk(a, u) \subseteq low .. high BY <1>8
<1>13. Cardinality(Chunk(a, u)) <= Cardinality(low .. high) BY <1>10, <1>12, FS_Subset
<1> QED BY <1>11, <1>13

\* Each unit begins in one segment.
LEMMA OneSegment ==
  ASSUME SegmenterTypeOK, UnitsTile, Packed, phase \in {"group", "done"},
         NEW u \in DOMAIN units
  PROVE  /\ \E a \in DOMAIN segs : u \in ItemsOf(a)
         /\ \A a, b \in DOMAIN segs : u \in ItemsOf(a) /\ u \in ItemsOf(b) => a = b
<1>1. PICK n \in Nat : n = Len(units) /\ DOMAIN units = 1 .. n BY UnitsAre
<1>2. units # <<>> /\ n # 0 /\ units \in Seq(UnitType) /\ units[u] \in UnitType
  <2>1. n # 0 BY <1>1
  <2> QED BY <1>1, <2>1, UnitsAre
<1>3. Tile(units, size) /\ Tile(segs, size) BY <1>2 DEF UnitsTile, Packed
<1>4. size \in Nat /\ segs \in Seq(SpanType) BY DEF SegmenterTypeOK, SpanType
<1>5. PICK k \in Nat : k = Len(segs) /\ DOMAIN segs = 1 .. k BY <1>4, LenProperties
<1>6. Offsets(SpanType) /\ Offsets(UnitType) BY TypesHaveOffsets
<1> DEFINE x == units[u].from
<1>7. x \in Nat /\ units[u].to \in Nat BY <1>2 DEF UnitType
<1>8. x < size
  <2>1. units[u].from < units[u].to BY <1>1, <1>2, <1>3, TileIs
  <2>2. units[u].to <= size BY <1>1, <1>2, <1>3, <1>4, <1>6, TileOrder
  <2> QED BY <1>4, <1>7, <2>1, <2>2
<1>9. \A a \in DOMAIN segs : u \in ItemsOf(a) <=> segs[a].from <= x /\ x < segs[a].to
  BY DEF ItemsOf
<1> HIDE DEF x
<1>10. \E a \in 1 .. k : segs[a].from <= x /\ x < segs[a].to
  BY <1>3, <1>4, <1>5, <1>6, <1>7, <1>8, TileCovers
<1>11. ASSUME NEW a \in 1 .. k, NEW b \in 1 .. k, a < b, x < segs[a].to, segs[b].from <= x
       PROVE  FALSE
  <2>1. segs[a].to <= segs[b].from BY <1>3, <1>4, <1>5, <1>6, <1>11, TileOrder
  <2>2. segs[a] \in SpanType /\ segs[b] \in SpanType BY <1>4, <1>5, ElementOfSeq
  <2>3. segs[a].to \in Nat /\ segs[b].from \in Nat BY <2>2 DEF SpanType
  <2> QED BY <1>7, <1>11, <2>1, <2>3
<1>12. ASSUME NEW a \in DOMAIN segs, NEW b \in DOMAIN segs, u \in ItemsOf(a), u \in ItemsOf(b)
       PROVE  a = b
  <2>1. a \in 1 .. k /\ b \in 1 .. k BY <1>5
  <2>2. x < segs[a].to /\ segs[b].from <= x /\ x < segs[b].to /\ segs[a].from <= x
    BY <1>9, <1>12
  <2>3. ~(a < b) BY <1>11, <2>1, <2>2
  <2>4. ~(b < a) BY <1>11, <2>1, <2>2
  <2> QED BY <2>1, <2>3, <2>4
<1> QED BY <1>5, <1>9, <1>10, <1>12

\* First half of GivenOnce: fragments part the units.
LEMMA ItemsGivenOnce ==
  ASSUME SegmentsInv
  PROVE  EachItemOnce
<1> SUFFICES ASSUME phase \in {"group", "done"}
             PROVE  /\ UNION SegmentItems = DOMAIN units
                    /\ \A f, g \in SegmentItems : f # g => f \cap g = {}
                    /\ \A f \in SegmentItems : Cardinality(f) <= Cap
  BY DEF EachItemOnce
<1>1. SegmenterTypeOK /\ UnitsTile /\ Packed BY DEF SegmentsInv
<1>2. \A f \in SegmentItems : Cardinality(f) <= Cap
  BY <1>1, ChunksAre, ChunkIsSmall
<1>3. \A a \in DOMAIN segs : ItemsOf(a) \subseteq DOMAIN units BY DEF ItemsOf
<1>4. UNION SegmentItems \subseteq DOMAIN units
  BY <1>3, ChunksAre DEF Chunk
<1>5. DOMAIN units \subseteq UNION SegmentItems
  <2> SUFFICES ASSUME NEW u \in DOMAIN units PROVE \E f \in SegmentItems : u \in f OBVIOUS
  <2>1. PICK a \in DOMAIN segs : u \in ItemsOf(a) BY <1>1, OneSegment
  <2>2. u \in Chunk(a, u) BY <2>1 DEF Chunk
  <2> QED BY <2>1, <2>2, ChunksAre
<1>6. ASSUME NEW f \in SegmentItems, NEW g \in SegmentItems, NEW w \in f \cap g
      PROVE  f = g
  <2>1. PICK a \in DOMAIN segs : \E u \in ItemsOf(a) : f = Chunk(a, u) BY ChunksAre
  <2>10. PICK u \in ItemsOf(a) : f = Chunk(a, u) BY <2>1
  <2>2. PICK b \in DOMAIN segs : \E v \in ItemsOf(b) : g = Chunk(b, v) BY ChunksAre
  <2>20. PICK v \in ItemsOf(b) : g = Chunk(b, v) BY <2>2
  <2>3. w \in ItemsOf(a) /\ Place(a, w) = Place(a, u) BY <2>10 DEF Chunk
  <2>4. w \in ItemsOf(b) /\ Place(b, w) = Place(b, v) BY <2>20 DEF Chunk
  <2>5. w \in DOMAIN units BY <1>3, <2>3
  <2>6. a = b BY <1>1, <2>3, <2>4, <2>5, OneSegment
  <2>7. Place(a, u) = Place(a, v) BY <2>3, <2>4, <2>6
  <2> QED BY <2>10, <2>20, <2>6, <2>7 DEF Chunk
<1>7. \A f, g \in SegmentItems : f # g => f \cap g = {}
  BY <1>6
<1>8. UNION SegmentItems = DOMAIN units
  BY <1>4, <1>5
<1> QED BY <1>2, <1>7, <1>8
-----------------------------------------------------------------------------
\* The bounds of the parts: the cuts are in order between both ends of the text.
LEMMA BoundsAre ==
  ASSUME SegmentsInv, phase = "done", NEW m \in Nat, m = Len(cuts)
  PROVE  /\ Bounds \in Seq(Nat) /\ Len(Bounds) = m + 2
         /\ Bounds[1] = 0 /\ Bounds[m + 2] = size
         /\ \A i \in 2 .. m + 1 : Bounds[i] \in Ends
         /\ size = 0 => m = 0
         /\ size # 0 => \A i \in 1 .. m + 1 : Bounds[i] < Bounds[i + 1]
         /\ m < slots
<1>1. SegmenterTypeOK /\ UnitsTile /\ Packed /\ Cutting BY DEF SegmentsInv
<1>2. /\ cuts \in Seq(Nat) /\ size \in Nat /\ segs \in Seq(SpanType)
      /\ slots \in Nat /\ tries \in 1 .. slots
  BY <1>1 DEF SegmenterTypeOK, SpanType
<1>3. /\ m < tries
      /\ \A i \in 1 .. m : cuts[i] \in Ends
      /\ \A i \in 1 .. m - 1 : cuts[i] < cuts[i + 1]
  BY <1>1 DEF Cutting
<1>4. m < slots BY <1>2, <1>3
<1> DEFINE t == cuts \o <<size>>
<1>5. <<0>> \in Seq(Nat) /\ <<size>> \in Seq(Nat) /\ Len(<<0>>) = 1 /\ Len(<<size>>) = 1
  BY <1>2
<1>6. /\ Bounds \in Seq(Nat) /\ Len(Bounds) = m + 2
      /\ Bounds[1] = 0 /\ Bounds[m + 2] = size
      /\ \A i \in 1 .. m : Bounds[i + 1] = cuts[i]
  <2> DEFINE s == <<0>> \o cuts
  <2>1. s \in Seq(Nat) /\ Len(s) = m + 1 /\ s[1] = 0 /\ \A i \in 1 .. m : s[i + 1] = cuts[i]
    <3>1. s \in Seq(Nat) /\ Len(s) = 1 + m
          /\ \A i \in 1 .. 1 + m : s[i] = IF i <= 1 THEN <<0>>[i] ELSE cuts[i - 1]
      BY <1>2, <1>5, ConcatProperties
    <3> HIDE DEF s
    <3>2. 1 \in 1 .. 1 + m /\ s[1] = 0 BY <3>1
    <3>3. ASSUME NEW i \in 1 .. m PROVE s[i + 1] = cuts[i]
      <4>1. i + 1 \in 1 .. 1 + m /\ ~(i + 1 <= 1) /\ (i + 1) - 1 = i OBVIOUS
      <4> QED BY <3>1, <4>1
    <3> QED BY <3>1, <3>2, <3>3
  <2>2. Bounds = s \o <<size>> BY DEF Bounds
  <2> HIDE DEF s
  <2>3. Bounds \in Seq(Nat) /\ Len(Bounds) = (m + 1) + 1
        /\ \A i \in 1 .. (m + 1) + 1 :
             Bounds[i] = IF i <= m + 1 THEN s[i] ELSE <<size>>[i - (m + 1)]
    BY <1>5, <2>1, <2>2, ConcatProperties
  <2> HIDE DEF Bounds
  <2>4. Bounds[m + 2] = size
    <3>1. m + 2 \in 1 .. (m + 1) + 1 /\ ~(m + 2 <= m + 1) /\ (m + 2) - (m + 1) = 1 OBVIOUS
    <3> QED BY <2>3, <3>1
  <2>5. Bounds[1] = 0
    <3>1. 1 \in 1 .. (m + 1) + 1 /\ 1 <= m + 1 OBVIOUS
    <3> QED BY <2>1, <2>3, <3>1
  <2>6. ASSUME NEW i \in 1 .. m PROVE Bounds[i + 1] = cuts[i]
    <3>1. i + 1 \in 1 .. (m + 1) + 1 /\ i + 1 <= m + 1 OBVIOUS
    <3> QED BY <2>1, <2>3, <3>1
  <2> QED BY <2>3, <2>4, <2>5, <2>6
<1>7. \A i \in 2 .. m + 1 : Bounds[i] \in Ends
  <2> SUFFICES ASSUME NEW i \in 2 .. m + 1 PROVE Bounds[i] \in Ends OBVIOUS
  <2>1. i - 1 \in 1 .. m /\ (i - 1) + 1 = i OBVIOUS
  <2> QED BY <1>3, <1>6, <2>1
<1>8. PICK k \in Nat : k = Len(segs) /\ DOMAIN segs = 1 .. k BY <1>2, LenProperties
<1> DEFINE end == IF units = <<>> THEN 0 ELSE size
<1>9. end \in Nat /\ end <= size /\ Tile(segs, end) BY <1>1, <1>2 DEF Packed
<1>10. \A e \in Ends : e \in Nat /\ 0 < e /\ e < size
  <2> SUFFICES ASSUME NEW e \in Ends PROVE e \in Nat /\ 0 < e /\ e < size OBVIOUS
  <2>1. PICK a \in 1 .. k : e = segs[a].to /\ e # size BY <1>8 DEF Ends
  <2>2. segs[a] \in SpanType BY <1>2, <1>8, ElementOfSeq
  <2>3. segs[a].from \in Nat /\ segs[a].to \in Nat BY <2>2 DEF SpanType
  <2> HIDE DEF end
  <2>4. segs[a].from < segs[a].to BY <1>2, <1>8, <1>9, TileIs
  <2>5. segs[a].to <= end BY <1>2, <1>8, <1>9, TypesHaveOffsets, TileOrder
  <2> QED BY <1>2, <1>9, <2>1, <2>3, <2>4, <2>5
<1>11. size = 0 => m = 0
  <2> SUFFICES ASSUME size = 0, m # 0 PROVE FALSE OBVIOUS
  <2>1. 1 \in 1 .. m OBVIOUS
  <2>2. cuts[1] \in Ends BY <1>3, <2>1
  <2> QED BY <1>10, <2>2
<1>12. ASSUME size # 0, NEW i \in 1 .. m + 1 PROVE Bounds[i] < Bounds[i + 1]
  <2>1. size > 0 BY <1>2, <1>12
  <2>2. CASE i = 1 /\ m = 0 BY <1>6, <2>1, <2>2
  <2>3. CASE i = 1 /\ m # 0
    <3>1. 2 \in 2 .. m + 1 BY <2>3
    <3> QED BY <1>6, <1>7, <1>10, <2>3, <3>1
  <2>4. CASE i # 1 /\ i = m + 1
    <3>1. i \in 2 .. m + 1 /\ i + 1 = m + 2 BY <2>4
    <3> QED BY <1>6, <1>7, <1>10, <3>1
  <2>5. CASE i # 1 /\ i # m + 1
    <3>1. i - 1 \in 1 .. m - 1 /\ i - 1 \in 1 .. m /\ i \in 1 .. m /\ (i - 1) + 1 = i BY <2>5
    <3>2. cuts[i - 1] < cuts[i] BY <1>3, <3>1
    <3>3. Bounds[i] = cuts[i - 1] /\ Bounds[i + 1] = cuts[i] BY <1>6, <3>1
    <3> QED BY <3>2, <3>3
  <2> QED BY <2>2, <2>3, <2>4, <2>5
<1> HIDE DEF Bounds
<1> QED BY <1>4, <1>6, <1>7, <1>11, <1>12

\* In an initial segment of the positive numbers the k-th is k.
LEMMA NthIsItself ==
  ASSUME NEW m \in Nat, NEW k \in 1 .. m
  PROVE  NthOf(1 .. m, k) = k
<1>1. ASSUME NEW a \in 1 .. m PROVE Cardinality({b \in 1 .. m : b <= a}) = a
  <2>1. {b \in 1 .. m : b <= a} = 1 .. a OBVIOUS
  <2>2. a \in Int /\ 1 \in Int /\ ~(1 > a) /\ a - 1 + 1 = a OBVIOUS
  <2>3. Cardinality(1 .. a) = IF 1 > a THEN 0 ELSE a - 1 + 1 BY <2>2, FS_Interval
  <2> QED BY <2>1, <2>2, <2>3
<1>2. \A a \in 1 .. m : Cardinality({b \in 1 .. m : b <= a}) = k <=> a = k BY <1>1
<1> QED BY <1>2 DEF NthOf

\* Second half of GivenOnce: parts tile the text.
LEMMA PartsGivenOnce ==
  ASSUME SegmentsInv
  PROVE  PartsPartition
<1> SUFFICES ASSUME phase = "done"
             PROVE  /\ Tile(Parts, size)
                    /\ Len(Parts) <= slots
                    /\ \A p \in DOMAIN Parts : Parts[p].to \in Ends \cup {size}
  BY DEF PartsPartition
<1>1. cuts \in Seq(Nat) /\ size \in Nat /\ slots \in Nat BY DEF SegmentsInv, SegmenterTypeOK
<1>2. PICK m \in Nat : m = Len(cuts) BY <1>1, LenProperties
<1>3. /\ Bounds \in Seq(Nat) /\ Len(Bounds) = m + 2
      /\ Bounds[1] = 0 /\ Bounds[m + 2] = size
      /\ \A i \in 2 .. m + 1 : Bounds[i] \in Ends
      /\ size = 0 => m = 0
      /\ size # 0 => \A i \in 1 .. m + 1 : Bounds[i] < Bounds[i + 1]
      /\ m < slots
  BY <1>2, BoundsAre
<1>4. Len(Bounds) - 1 = m + 1 BY <1>3
<1>5. CASE size = 0
  <2>1. m = 0 /\ Bounds[1] = 0 /\ Bounds[2] = 0 BY <1>3, <1>5
  <2>2. Inhabited = {}
    <3>1. Len(Bounds) - 1 = 1 BY <1>4, <2>1
    <3> HIDE DEF Bounds
    <3>3. Inhabited = {a \in 1 .. 1 : Bounds[a] < Bounds[a + 1]} BY <3>1 DEF Inhabited
    <3>2. ~(Bounds[1] < Bounds[1 + 1]) BY <2>1
    <3> QED BY <3>2, <3>3
  <2>3. Cardinality(Inhabited) = 0 BY <2>2, FS_EmptySet
  <2>4. DOMAIN Parts = 1 .. 0 BY <2>3 DEF Parts
  <2>5. Parts = <<>>
    <3>1. Parts = [k \in 1 .. 0 |-> LET a == NthOf(Inhabited, k)
                                        IN  Span(Bounds[a], Bounds[a + 1])]
      BY <2>3 DEF Parts
    <3>2. Parts = [k \in {} |-> LET a == NthOf(Inhabited, k)
                                    IN  Span(Bounds[a], Bounds[a + 1])]
      BY <3>1
    <3> QED BY <3>2
  <2>6. Len(<<>>) = 0 /\ DOMAIN <<>> = {} /\ 1 .. 0 - 1 = {} OBVIOUS
  <2>7. Tile(<<>>, 0)
    <3>1. 1 .. Len(<<>>) - 1 = {} BY <2>6
    <3> QED BY <2>6, <3>1 DEF Tile
  <2> QED BY <1>1, <1>5, <2>5, <2>6, <2>7
<1>6. CASE size # 0
  <2> DEFINE n == m + 1
             part(k) == Span(Bounds[k], Bounds[k + 1])
  <2>1. Inhabited = 1 .. n BY <1>3, <1>4, <1>6 DEF Inhabited
  <2>2. Cardinality(Inhabited) = n
    <3>1. n \in Int /\ 1 \in Int /\ ~(1 > n) /\ n - 1 + 1 = n OBVIOUS
    <3>2. Cardinality(1 .. n) = IF 1 > n THEN 0 ELSE n - 1 + 1 BY <3>1, FS_Interval
    <3> QED BY <2>1, <3>1, <3>2
  <2>3. n \in Nat /\ n # 0 OBVIOUS
  <2>4. DOMAIN Parts = 1 .. n /\ \A k \in 1 .. n : Parts[k] = part(k)
    <3>1. Parts = [k \in 1 .. n |->
                     LET a == NthOf(1 .. n, k) IN Span(Bounds[a], Bounds[a + 1])]
      BY <2>1, <2>2 DEF Parts
    <3> HIDE DEF n
    <3>2. \A k \in 1 .. n : NthOf(1 .. n, k) = k BY <2>3, NthIsItself
    <3> QED BY <3>1, <3>2
  <2>5. \A k \in 1 .. n : Bounds[k] \in Nat /\ Bounds[k + 1] \in Nat
    <3> SUFFICES ASSUME NEW k \in 1 .. n PROVE Bounds[k] \in Nat /\ Bounds[k + 1] \in Nat
      OBVIOUS
    <3>1. k \in 1 .. Len(Bounds) /\ k + 1 \in 1 .. Len(Bounds) BY <1>3
    <3> QED BY <1>3, <3>1, ElementOfSeq
  <2>6. \A k \in 1 .. n : /\ part(k) \in SpanType
                         /\ part(k).from = Bounds[k] /\ part(k).to = Bounds[k + 1]
    BY <2>5 DEF Span, SpanType
  <2> HIDE DEF part
  <2>7. Parts \in Seq(SpanType) /\ Len(Parts) = n
    <3>1. Parts = [k \in 1 .. n |-> Parts[k]] BY <2>4 DEF Parts
    <3>2. Parts \in [1 .. n -> SpanType] BY <2>4, <2>6, <3>1
    <3> HIDE DEF Parts
    <3> QED BY <2>3, <3>2
  <2>8. \A k \in 1 .. n : Parts[k].from = Bounds[k] /\ Parts[k].to = Bounds[k + 1]
    BY <2>4, <2>6
  <2>9. 1 \in 1 .. n /\ n \in 1 .. n /\ n + 1 = m + 2 OBVIOUS
  <2>10. Parts[1].from = 0 /\ Parts[n].to = size BY <1>3, <2>8, <2>9
  <2>11. \A k \in 1 .. n : Parts[k].from < Parts[k].to BY <1>3, <1>6, <2>8
  <2>12. \A k \in 1 .. n - 1 : Parts[k].to = Parts[k + 1].from
    <3> SUFFICES ASSUME NEW k \in 1 .. n - 1 PROVE Parts[k].to = Parts[k + 1].from OBVIOUS
    <3>1. k \in 1 .. n /\ k + 1 \in 1 .. n OBVIOUS
    <3> QED BY <2>8, <3>1
  <2>13. \A k \in 1 .. n : Parts[k].to \in Ends \cup {size}
    <3> SUFFICES ASSUME NEW k \in 1 .. n PROVE Parts[k].to \in Ends \cup {size} OBVIOUS
    <3>1. CASE k = n BY <2>10, <3>1
    <3>2. CASE k # n
      <4>1. k + 1 \in 2 .. m + 1 BY <3>2
      <4> QED BY <1>3, <2>8, <4>1
    <3> QED BY <3>1, <3>2
  <2>14. n <= slots BY <1>1, <1>3
  <2> HIDE DEF n
  <2>15. Tile(Parts, size) BY <2>3, <2>7, <2>10, <2>11, <2>12, TileIs
  <2> QED BY <2>4, <2>7, <2>13, <2>14, <2>15
<1> QED BY <1>5, <1>6

(***************************************************************************)
(* A text is given to the sub-model once: every unit is an item of exactly *)
(* one fragment, no fragment is larger than a reply can carry, and the     *)
(* parts of a map tile the text, no more of them than slots, cut only      *)
(* where a segment ends (Session._fragments in worker.py, grouped_parts in *)
(* segmenter.py).                                                       *)
(***************************************************************************)
THEOREM GivenOnceCorrect == SegmenterSpec => []GivenOnce
<1>1. SegmentsInv => GivenOnce BY ItemsGivenOnce, PartsGivenOnce DEF GivenOnce
<1> QED BY <1>1, SegmentsHold, PTL
=============================================================================
