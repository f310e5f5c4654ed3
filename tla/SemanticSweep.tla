--------------------------- MODULE SemanticSweep ---------------------------
(***************************************************************************)
(* A semantic sweep: Session._map and _retry_failed (repl/worker.py) with  *)
(* the registry and the cache they keep, and the passes of semantic.run    *)
(* and read_fragment (semantic.py) they pay for.                           *)
(*                                                                         *)
(* One request (operation, instruction, schema and items) is followed; the *)
(* records of two requests share nothing.  A pass sends a list of jobs,    *)
(* one per fragment, and reads the replies by position.  What comes back   *)
(* is any list SubcallScheduler can produce: the budget drops jobs, a job  *)
(* refused before the wire has an error for a reply, replies come in the   *)
(* order of the jobs that were not dropped.  A reply is what read_fragment *)
(* finds in it for each item it looks for: a value, nothing, or something  *)
(* it does not accept (invalid, contradictory).                            *)
(***************************************************************************)
EXTENDS Naturals, Sequences, FiniteSets

CONSTANTS
  Fragments,  \* the items of each fragment, a sequence of disjoint sets
  Values,     \* what the schema accepts
  MaxCalls    \* bound: calls of semantic_map and retry_failed

Items == UNION {Fragments[f] : f \in DOMAIN Fragments}

ASSUME FragmentAssumption ==
  /\ Fragments \in Seq(SUBSET Items)
  /\ \A f, g \in DOMAIN Fragments :
       f # g => Fragments[f] \cap Fragments[g] = {}
  /\ \A f \in DOMAIN Fragments : Fragments[f] # {}

ASSUME ValueAssumption == MaxCalls \in Nat

VARIABLES
  pass,     \* the pass whose replies are awaited, "none" between calls
  batch,    \* its jobs, each a fragment and the items it asks for
  run,      \* the result of semantic.run so far, and (history) what it issued
  record,   \* _sweep_registry[sweep_id]
  cache,    \* _semantic_cache[cache_key]
  shown,    \* the envelope last returned to the model
  large,    \* fragments whose source the scheduler refuses as too large
  calls,    \* calls made
  retries   \* history: explicit retries paid for in this session

vars == <<pass, batch, run, record, cache, shown, large, calls, retries>>

Job == [frag : DOMAIN Fragments, ids : SUBSET Items]
\* Values found: a partial function on the items.
Found == UNION {[ids -> Values] : ids \in SUBSET Items}
NoFound == [i \in {} |-> {}]
\* Python's dict.setdefault for every entry of g: f keeps what it has.
Merge(f, g) ==
  [i \in DOMAIN f \cup DOMAIN g |-> IF i \in DOMAIN f THEN f[i] ELSE g[i]]
NoRun == [values |-> NoFound, presented |-> {}, returned |-> {}, unsent |-> {},
          issued |-> {}]
Runs == [values : Found, presented : SUBSET Items, returned : SUBSET Items,
         unsent : SUBSET Items, issued : SUBSET Items]
NoRecord == [held |-> FALSE, run |-> NoRun, retryUsed |-> FALSE]
NoEnvelope == [held |-> FALSE, values |-> NoFound, status |-> "failed",
               exhausted |-> FALSE]
-----------------------------------------------------------------------------
\* Session.__init__: nothing swept yet.
NewSession ==
  /\ pass' = "none"
  /\ batch' = <<>>
  /\ run' = NoRun
  /\ record' = NoRecord
  /\ cache' = NoEnvelope
  /\ shown' = NoEnvelope
  /\ retries' = 0

Init ==
  /\ pass = "none"
  /\ batch = <<>>
  /\ run = NoRun
  /\ record = NoRecord
  /\ cache = NoEnvelope
  /\ shown = NoEnvelope
  /\ retries = 0
  /\ large \in SUBSET DOMAIN Fragments
  /\ calls = 0

Call ==
  /\ pass = "none"
  /\ calls < MaxCalls
  /\ calls' = calls + 1

\* _envelope: the status is derived from what the sweep has.
Status(r) ==
  IF DOMAIN r.values = Items THEN "complete"
  ELSE IF r.presented = {} THEN "unsent"
  ELSE IF r.values # NoFound THEN "partial"
  ELSE "failed"
Envelope(r, exhausted) ==
  [held |-> TRUE, values |-> r.values, status |-> Status(r),
   exhausted |-> exhausted]

\* Mutant: only complete sweeps are kept.
CachedComplete(envelope) == IF envelope.status = "complete" THEN envelope ELSE cache

\* _map and _retry_failed: what is put into the cache.
Cached(envelope) ==
  IF envelope.status \in {"complete", "partial"} THEN envelope ELSE cache

\* _map: an exact repeat is answered from the cache.
MapCached ==
  /\ Call
  /\ cache.held
  /\ shown' = cache
  /\ UNCHANGED <<pass, batch, run, record, cache, large, retries>>

\* _map: every fragment is sent.
MapSends ==
  /\ Call
  /\ ~cache.held
  /\ pass' = "first"
  /\ batch' = [f \in DOMAIN Fragments |-> [frag |-> f, ids |-> Fragments[f]]]
  /\ run' = NoRun
  /\ UNCHANGED <<record, cache, shown, large, retries>>

\* The a-th of some positions, in their order.
Nth(positions, a) ==
  CHOOSE j \in positions : Cardinality({k \in positions : k <= j}) = a

(***************************************************************************)
(* Fragment.narrow on every job that has items unresolved: the new jobs    *)
(* carry those items and their texts only.                                 *)
(***************************************************************************)
Narrow(jobs, settled) ==
  LET left == {a \in DOMAIN jobs : ~(jobs[a].ids \subseteq settled)}
  IN  [a \in 1 .. Cardinality(left) |->
         [jobs[Nth(left, a)] EXCEPT !.ids = @ \ settled]]

\* _retry_failed of a sweep whose retry was used: the result is repeated.
RetryRepeats ==
  /\ Call
  /\ record.held
  /\ record.retryUsed
  /\ shown' = Envelope(record.run, TRUE)
  /\ UNCHANGED <<pass, batch, run, record, cache, large, retries>>

\* _retry_failed: the attempt is consumed before its jobs are sent.
RetrySends ==
  /\ Call
  /\ record.held
  /\ ~record.retryUsed
  /\ DOMAIN record.run.values # Items
  /\ record' = [record EXCEPT !.retryUsed = TRUE]
  /\ pass' = "retry"
  /\ batch' = Narrow([f \in DOMAIN Fragments |->
                        [frag |-> f, ids |-> Fragments[f]]],
                     DOMAIN record.run.values)
  /\ run' = NoRun
  /\ retries' = retries + 1
  /\ UNCHANGED <<cache, shown, large>>

\* _retry_failed of a complete sweep: nothing to send.
RetryNothing ==
  /\ Call
  /\ record.held
  /\ ~record.retryUsed
  /\ DOMAIN record.run.values = Items
  /\ record' = [record EXCEPT !.retryUsed = TRUE]
  /\ shown' = Envelope(record.run, TRUE)
  /\ cache' = shown'
  /\ UNCHANGED <<pass, batch, run, large, retries>>
-----------------------------------------------------------------------------
(***************************************************************************)
(* The batches a pass can get back: the jobs that were submitted, and      *)
(* those of them that were refused before the wire.  A job dropped by the  *)
(* budget is followed by a submitted one only when a refused job before it *)
(* gave its claim back (SubcallScheduler, RepliesArePrefix).               *)
(***************************************************************************)
Whole(a) == batch[a].ids = Fragments[batch[a].frag]
TooLarge == {a \in DOMAIN batch : batch[a].frag \in large}
Batches ==
  {b \in [submitted : SUBSET DOMAIN batch, refused : SUBSET TooLarge] :
     /\ b.refused \subseteq b.submitted
     /\ \A a \in TooLarge \cap b.submitted : Whole(a) => a \in b.refused
     /\ \A d \in DOMAIN batch \ b.submitted, l \in b.submitted :
          d < l => \E a \in b.refused : a < d}

\* The a-th reply belongs to the a-th job that was submitted.
ReplyOf(b, a) == Nth(b.submitted, a)

Asked(jobs) == UNION {batch[a].ids : a \in jobs}

(***************************************************************************)
(* read_fragment over the replies of a batch, each read as the reply to    *)
(* the job in its position: the accepted values, and the items it found    *)
(* a line for.  The reply of a refused job is an error, without lines.     *)
(***************************************************************************)
Readings(b) ==
  LET slots == 1 .. Cardinality(b.submitted)
      legible == Asked({a \in slots : ReplyOf(b, a) \notin b.refused})
  IN  {[values |-> found, returned |-> DOMAIN found \cup other] :
         found \in {g \in Found : DOMAIN g \subseteq legible},
         other \in SUBSET legible}

\* Mutant: what never had a reply stays unsent.
AfterForgets(r, b, reading) ==
  LET slots == 1 .. Cardinality(b.submitted)
      presented == Asked(slots)
      unsent == Asked(DOMAIN batch \ slots)
  IN  [values |-> Merge(r.values, reading.values),
       presented |-> r.presented \cup presented,
       returned |-> r.returned \cup reading.returned,
       unsent |-> r.unsent \cup unsent,
       issued |-> r.issued \cup Asked(b.submitted \ b.refused)]

(***************************************************************************)
(* semantic.run after a pass: `send` counts as presented the jobs that     *)
(* have a reply in their position and as unsent the last ones of a short   *)
(* list, a value settles once.                                             *)
(***************************************************************************)
After(r, b, reading) ==
  LET slots == 1 .. Cardinality(b.submitted)
      presented == r.presented \cup Asked(slots)
      unsent == Asked(DOMAIN batch \ slots)
  IN  [values |-> Merge(r.values, reading.values),
       presented |-> presented,
       returned |-> r.returned \cup reading.returned,
       unsent |-> (r.unsent \cup unsent) \ presented,
       issued |-> r.issued \cup Asked(b.submitted \ b.refused)]

\* Mutant: a sweep that is run again has its retry again.
RegisterAnew(r) ==
  LET envelope == Envelope(r, FALSE)
  IN  /\ record' = [held |-> TRUE, run |-> r, retryUsed |-> FALSE]
      /\ shown' = envelope
      /\ cache' = Cached(envelope)

\* _map: the sweep is registered, published and, when it has values, cached.
Register(r) ==
  LET envelope == Envelope(r, record.retryUsed)
  IN  /\ record' = [held |-> TRUE, run |-> r, retryUsed |-> record.retryUsed]
      /\ shown' = envelope
      /\ cache' = Cached(envelope)

Over == pass' = "none" /\ batch' = <<>> /\ run' = NoRun

(***************************************************************************)
(* semantic.run, first pass: complete fragments are settled, the others    *)
(* are sent again, once, with what failed.                                 *)
(***************************************************************************)
FirstPass ==
  /\ pass = "first"
  /\ \E b \in Batches : \E reading \in Readings(b) :
       LET r == After(run, b, reading)
           again == Narrow(batch, DOMAIN r.values)
       IN  /\ IF again = <<>>
              THEN Over /\ Register(r)
              ELSE /\ pass' = "second" /\ batch' = again /\ run' = r
                   /\ UNCHANGED <<record, shown, cache>>
  /\ UNCHANGED <<large, calls, retries>>

SecondPass ==
  /\ pass = "second"
  /\ \E b \in Batches : \E reading \in Readings(b) :
       /\ Register(After(run, b, reading))
  /\ Over
  /\ UNCHANGED <<large, calls, retries>>

\* _retry_failed: one pass without a retry of its own, merged into the record.
RetryPass ==
  /\ pass = "retry"
  /\ \E b \in Batches : \E reading \in Readings(b) :
       LET r == After(record.run, b, reading)
           envelope == Envelope(r, TRUE)
       IN  /\ record' = [record EXCEPT !.run = r]
           /\ shown' = envelope
           /\ cache' = Cached(envelope)
  /\ Over
  /\ UNCHANGED <<large, calls, retries>>

\* The host answers the batch with an error: the call raises.
PassRaises ==
  /\ pass # "none"
  /\ Over
  /\ UNCHANGED <<record, cache, shown, large, calls, retries>>

\* The process dies, with everything the session held.
SessionLost ==
  /\ calls < MaxCalls
  /\ calls' = calls + 1
  /\ NewSession
  /\ UNCHANGED large

\* The block ends; nothing more is asked of the sweep.
Done == pass = "none" /\ calls = MaxCalls /\ UNCHANGED vars

Next ==
  \/ MapCached \/ MapSends \/ RetryRepeats \/ RetrySends \/ RetryNothing
  \/ FirstPass \/ SecondPass \/ RetryPass \/ PassRaises \/ SessionLost \/ Done

Spec == Init /\ [][Next]_vars
-----------------------------------------------------------------------------
Envelopes ==
  [held : BOOLEAN, values : Found,
   status : {"complete", "partial", "failed", "unsent"}, exhausted : BOOLEAN]

\* TypeOK: the types; an item is not both presented and unsent.
TypeOK ==
  /\ pass \in {"none", "first", "second", "retry"}
  /\ batch \in Seq(Job)
  /\ run \in Runs /\ record.run \in Runs
  /\ record.held \in BOOLEAN /\ record.retryUsed \in BOOLEAN
  /\ {cache, shown} \subseteq Envelopes
  /\ large \subseteq DOMAIN Fragments
  /\ calls \in 0 .. MaxCalls
  /\ retries \in Nat
  /\ \A r \in {run, record.run} :
       /\ r.presented \cap r.unsent = {}
       /\ DOMAIN r.values \subseteq r.returned
       /\ r.returned \subseteq r.presented

(***************************************************************************)
(* A decision that validated is settled: while a session lives, no repeat, *)
(* cache hit, retry or failed retry of the request returns an envelope     *)
(* that lost a value or changed one it had returned before.                *)
(***************************************************************************)
Extends(f, g) == \A i \in DOMAIN f : i \in DOMAIN g /\ g[i] = f[i]
SettledValuesStay ==
  [][record'.held => Extends(shown.values, shown'.values)]_vars

(***************************************************************************)
(* "Items that validated are never asked again": no job of any pass, the   *)
(* explicit retry included, carries an item the sweep has a value for, and *)
(* no pass sends a fragment that has nothing left to ask.                  *)
(***************************************************************************)
NeverAskedAgain ==
  \A a \in DOMAIN batch :
    /\ batch[a].ids # {}
    /\ batch[a].ids \cap (DOMAIN run.values \cup DOMAIN record.run.values) = {}

(***************************************************************************)
(* retry_failed is paid for at most once per request and session, however  *)
(* often the sweep is run again, the retry raises, or an old envelope      *)
(* still says that it is available.                                        *)
(***************************************************************************)
OneRetry == retries <= 1

(***************************************************************************)
(* A sweep whose envelope says "unsent" has cost nothing: no request of    *)
(* a pass that came back went out, whatever was dropped or refused.        *)
(***************************************************************************)
UnsentIsUnpaid ==
  record.held /\ Status(record.run) = "unsent" => record.run.issued = {}

(***************************************************************************)
(* No judgement is paid for twice: not by asking a settled item again, not *)
(* by a second retry, not by a sweep that reports it sent nothing.         *)
(***************************************************************************)
PaysOnce == NeverAskedAgain /\ OneRetry /\ UnsentIsUnpaid
=============================================================================
