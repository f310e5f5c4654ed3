------------------------- MODULE ReplSession_proofs -------------------------
(***************************************************************************)
(* The proofs that the two sides of the session stay in step over two      *)
(* unnumbered pipes, and that the clock runs exactly while the model's     *)
(* code does: for every number of blocks, calls and pulls, with processes  *)
(* that die at any step and timers that kill late.                         *)
(***************************************************************************)
EXTENDS ReplSession, SequenceTheorems, TLAPS

(***************************************************************************)
(* The words of the invariant.  A dead process leaves everything as it was *)
(* when it died: what it wrote can still be read.                          *)
(***************************************************************************)
Silent == toWorker = <<>> /\ toHost = <<>>
Sent(op, id, flag) == toWorker = <<Frame(op, id, flag)>> /\ toHost = <<>>
Came(op, id, flag) == toWorker = <<>> /\ toHost = <<Frame(op, id, flag)>>
At(phase) == worker \in {phase, "dead"}
Calling == At("calling") /\ waiting # <<>> /\ block = blocks

(***************************************************************************)
(* One conjunct for each thing the host may be doing: at most one frame is *)
(* under way, and it is one that the side it goes to can read there.       *)
(***************************************************************************)
Idle == host = "idle" =>
  At("ready") /\ Silent /\ bound /\ seen.block = blocks

Asking == host = "ask" =>
  /\ At("ready") /\ bound /\ seen.block = blocks
  /\ Sent("ask", 0, TRUE) \/ Came("answer", 0, TRUE)

Binding == host = "bind" =>
  /\ At("ready")
  /\ Sent("bind", 0, TRUE) \/ (Came("bound", 0, TRUE) /\ bound)

\* The block has begun or it has ended.
AroundBlock ==
  At("ready") /\ (Sent("exec", blocks, TRUE) \/ Came("result", blocks, TRUE))

\* The block runs, or a generator that the host no longer pulls from.
InCode ==
  /\ block = blocks /\ Silent
  /\ At("running") \/ (At("streaming") /\ Len(waiting) = 1)

(***************************************************************************)
(* A host call or its reply is under way.  After a pull that met a nested  *)
(* call there may be the refusal of the outer call, which ends the inner   *)
(* one, or a chunk that nobody asked for.                                  *)
(***************************************************************************)
InCall ==
  /\ Calling
  /\ \/ \E lazy \in BOOLEAN :
          Came("host", Innermost, lazy) /\ (lazy => Len(waiting) = 1)
     \/ Sent("reply", Innermost, TRUE)
     \/ \E id \in 0 .. MaxCalls : Sent("reply", id, FALSE)
     \/ \E more \in BOOLEAN : Came("items", Innermost, more)

Pumping == host = "pump" =>
  /\ bound
  /\ Alive => timer = "armed" \/ firing
  /\ AroundBlock \/ InCode \/ InCall

Serving == host = "serve" =>
  /\ bound /\ Calling /\ Silent
  /\ call.id = Innermost
  /\ call.stream => Len(waiting) = 1

\* The pull goes out, its generator runs, the chunk comes, or a nested call.
Pulling == host = "pull" =>
  /\ bound /\ block = blocks
  /\ \/ /\ waiting = <<call.id>>
        /\ \/ At("calling") /\ Sent("pull", call.id, TRUE)
           \/ At("streaming") /\ Silent
           \/ /\ At("calling")
              /\ \E more \in BOOLEAN : Came("items", call.id, more)
     \/ /\ At("calling") /\ Len(waiting) = 2 /\ waiting[1] = call.id
        /\ Came("host", Innermost, FALSE)

\* After an error no frame is under way to a worker that could still read it.
Over == host \in {"raised", "closed"} =>
  \/ worker = "dead"
  \/ /\ worker \in {"ready", "calling"} /\ toWorker = <<>>
     /\ worker = "calling" => bound

ClockOff == host \in {"idle", "serve", "pull", "ask", "raised"} => timer = "off"

InStep ==
  /\ Idle /\ Asking /\ Binding /\ Pumping /\ Serving /\ Pulling /\ Over
  /\ ClockOff /\ Len(waiting) <= 2

IInv == TypeOK /\ InStep
-----------------------------------------------------------------------------
\* The vocabulary of the invariant is expanded in every proof below.
USE DEF Silent, Sent, Came, At, Calling, Alive, Innermost

\* What the pipes may hold, one frame or none, is a sequence of frames.
LEMMA FramesFit ==
  ASSUME NEW op \in {"exec", "bind", "ask", "pull", "reply",
                     "result", "bound", "answer", "host", "items"},
         NEW id \in Nat, NEW flag \in BOOLEAN
  PROVE  <<Frame(op, id, flag)>> \in Seq(Frames) /\ <<>> \in Seq(Frames)
<1>1. Frame(op, id, flag) \in Frames
  BY DEF Frames, Frame
<1>2. QED
  BY <1>1

\* A frame has the fields it was made of.
LEMMA FrameHas ==
  ASSUME NEW op, NEW id, NEW flag
  PROVE  /\ Frame(op, id, flag).op = op /\ Frame(op, id, flag).id = id
         /\ Frame(op, id, flag).flag = flag
  BY DEF Frame

\* The constants, one by one.
LEMMA Bounds ==
  MaxBlocks \in Nat /\ MaxCalls \in Nat /\ MaxPulls \in Nat /\ MaxAsks \in Nat
  BY SessionAssumption

\* A pipe with one frame.
LEMMA OneFrame ==
  ASSUME NEW f
  PROVE  Append(<<>>, f) = <<f>> /\ Head(<<f>>) = f /\ Tail(<<f>>) = <<>>
  OBVIOUS

\* What the types say of the numbers that frames carry.
LEMMA Ranges ==
  ASSUME TypeOK
  PROVE  /\ blocks \in Nat /\ block \in Nat /\ pending \in Nat
         /\ restarts \in Nat /\ call.id \in Nat /\ call.id \in 0 .. MaxCalls
         /\ waiting # <<>> => Innermost \in Nat /\ Innermost \in 1 .. MaxCalls
         /\ toWorker \in Seq(Frames) /\ toHost \in Seq(Frames)
<1>1. waiting # <<>> => Len(waiting) \in 1 .. Len(waiting)
  BY EmptySeq, LenProperties DEF TypeOK
<1>2. QED
  BY <1>1, Bounds, ElementOfSeq DEF TypeOK

(***************************************************************************)
(* TypeOK in parts that a prover can take one at a time: arithmetic and    *)
(* Boolean variables do not go into one goal.                              *)
(***************************************************************************)
HostTyped ==
  /\ host \in {"idle", "pump", "serve", "pull", "bind", "ask", "raised", "closed"}
  /\ then \in {"exec", "timeout", "error"}
  /\ blocks \in 0 .. MaxBlocks
  /\ asks \in 0 .. MaxAsks
  /\ call \in [id : 0 .. MaxCalls, stream : BOOLEAN, pulls : 0 .. MaxPulls]
  /\ timer \in {"off", "armed"}
WorkerTyped ==
  /\ worker \in {"dead", "ready", "running", "calling", "streaming"}
  /\ block \in 0 .. MaxBlocks
  /\ waiting \in Seq(1 .. MaxCalls)
  /\ worker \in {"ready", "running"} => waiting = <<>>
  /\ worker \in {"calling", "streaming"} => waiting # <<>>
  /\ pending \in 0 .. MaxCalls
RecordTyped ==
  /\ restarts \in Nat
  /\ seen \in [block : 0 .. MaxBlocks, incarnation : 0 .. restarts]
  /\ told \in 0 .. restarts
Truths == firing \in BOOLEAN /\ expired \in BOOLEAN /\ bound \in BOOLEAN
PipesTyped == toWorker \in Seq(Frames) /\ toHost \in Seq(Frames)

LEMMA TypeParts ==
  TypeOK <=> HostTyped /\ WorkerTyped /\ RecordTyped /\ Truths /\ PipesTyped
  BY DEF TypeOK, HostTyped, WorkerTyped, RecordTyped, Truths, PipesTyped

\* The two depths of open calls.
LEMMA OneOrTwo ==
  ASSUME NEW n \in Nat, n # 0, n <= 2
  PROVE  n \in {1, 2}
  OBVIOUS

\* The waiting calls without the innermost one.
LEMMA WithoutLast ==
  ASSUME NEW S, NEW s \in Seq(S), s # <<>>
  PROVE  /\ Len(s) \in Nat \ {0}
         /\ SubSeq(s, 1, Len(s) - 1) \in Seq(S)
         /\ Len(SubSeq(s, 1, Len(s) - 1)) = Len(s) - 1
         /\ SubSeq(s, 1, Len(s) - 1) = <<>> <=> Len(s) = 1
<1>1. Len(s) \in Nat \ {0}
  BY EmptySeq
<1>2. \A i \in 1 .. Len(s) - 1 : s[i] \in S
  BY <1>1, ElementOfSeq
<1>3. /\ SubSeq(s, 1, Len(s) - 1) \in Seq(S)
      /\ Len(SubSeq(s, 1, Len(s) - 1)) = Len(s) - 1
  <2>1. Len(s) - 1 \in Nat /\ 1 \in Int /\ Len(s) - 1 \in Int
    BY <1>1
  <2>2. /\ SubSeq(s, 1, Len(s) - 1) \in Seq(S)
        /\ Len(SubSeq(s, 1, Len(s) - 1))
             = IF 1 <= Len(s) - 1 THEN Len(s) - 1 - 1 + 1 ELSE 0
    BY <1>2, <2>1, SubSeqProperties
  <2>3. \A n \in Nat : n # 0 => (IF 1 <= n - 1 THEN n - 1 - 1 + 1 ELSE 0) = n - 1
    OBVIOUS
  <2>4. QED
    BY <1>1, <2>2, <2>3
<1>4. SubSeq(s, 1, Len(s) - 1) = <<>> <=> Len(s) = 1
  <2> DEFINE t == SubSeq(s, 1, Len(s) - 1)
  <2>1. t \in Seq(S) /\ Len(t) = Len(s) - 1
    BY <1>3
  <2> HIDE DEF t
  <2>2. t = <<>> <=> Len(t) = 0
    BY <2>1, EmptySeq
  <2>3. t = <<>> <=> Len(s) = 1
    BY <1>1, <2>1, <2>2
  <2>4. QED
    BY <2>3 DEF t
<1>5. QED
  BY <1>1, <1>3, <1>4

\* A new process is well-typed, and what the history says stays so.
LEMMA Restarted ==
  ASSUME TypeOK, NEW after, Restart(after), UNCHANGED history
  PROVE  WorkerTyped' /\ RecordTyped'
<1>1. /\ restarts' = restarts + 1 /\ restarts \in Nat
      /\ worker' = "ready" /\ block' = 0 /\ waiting' = <<>> /\ pending' = 0
  BY DEF TypeOK, Restart, Start
<1>2. WorkerTyped'
  BY <1>1, Bounds, EmptySeq DEF WorkerTyped
<1>3. /\ seen' = seen /\ told' = told
      /\ seen \in [block : 0 .. MaxBlocks, incarnation : 0 .. restarts]
      /\ told \in 0 .. restarts
  BY DEF TypeOK, history
<1>4. \A n \in 0 .. restarts : n \in 0 .. restarts'
  BY <1>1
<1>5. RecordTyped'
  <2>1. restarts' \in Nat
    BY <1>1
  <2>2. told' \in 0 .. restarts'
    BY <1>3, <1>4
  <2>3. seen' \in [block : 0 .. MaxBlocks, incarnation : 0 .. restarts']
    BY <1>3, <1>4
  <2>4. QED
    BY <2>1, <2>2, <2>3 DEF RecordTyped
<1>6. QED
  BY <1>2, <1>5

\* Init: both sides are ready and nothing is under way.
LEMMA InitIsInStep == Init => IInv
<1> SUFFICES ASSUME Init PROVE IInv
  OBVIOUS
<1>1. HostTyped
  BY Bounds DEF Init, HostTyped, NoCall
<1>2. WorkerTyped
  BY Bounds, EmptySeq DEF Init, WorkerTyped
<1>3. RecordTyped
  BY Bounds DEF Init, RecordTyped
<1>4. Truths /\ PipesTyped
  BY EmptySeq DEF Init, Truths, PipesTyped
<1>5. InStep
  BY DEF Init, InStep, Idle, Asking, Binding, Pumping, Serving, Pulling, Over,
     ClockOff
<1>6. QED
  BY <1>1, <1>2, <1>3, <1>4, <1>5, TypeParts DEF IInv

\* Execute: the session is idle, so the block or the bind is the only frame.
LEMMA ExecuteStep ==
  ASSUME TypeOK, InStep, Execute
  PROVE  TypeOK' /\ InStep'
<1>1. At("ready") /\ Silent /\ bound /\ timer = "off"
  BY OneFrame DEF Execute, Frame, TypeOK, InStep, Idle, ClockOff
<1>2. /\ toHost' = <<>>
      /\ \/ Alive /\ toWorker' = <<Frame("exec", blocks + 1, TRUE)>>
         \/ toWorker' = <<Frame("bind", 0, TRUE)>>
  BY <1>1, OneFrame DEF Execute, Frame, TypeOK, SendToWorker, Restart, Start,
     process
<1>3. toWorker' \in Seq(Frames) /\ toHost' \in Seq(Frames)
  <2>1. blocks + 1 \in Nat
    BY Ranges
  <2>2. /\ <<Frame("exec", blocks + 1, TRUE)>> \in Seq(Frames)
        /\ <<Frame("bind", 0, TRUE)>> \in Seq(Frames)
    BY <2>1, FramesFit
  <2>3. QED
    BY <1>2, <2>2, EmptySeq
<1>4. CASE Alive
  <2>1. /\ host' = "pump" /\ timer' = "armed" /\ blocks' = blocks + 1
        /\ toWorker' = <<Frame("exec", blocks', TRUE)>>
        /\ UNCHANGED <<then, restarts, process>>
    BY <1>1, <1>4, OneFrame DEF Execute, SendToWorker
  <2>2. HostTyped'
    BY <2>1, Bounds DEF Execute, HostTyped, TypeOK
  <2>3. WorkerTyped' /\ RecordTyped'
    BY <2>1 DEF Execute, WorkerTyped, RecordTyped, TypeOK, process, history
  <2>4. Truths'
    BY <2>1 DEF Execute, Truths, TypeOK, process
  <2>5. InStep'
    BY <1>1, <1>2, <1>4, <2>1 DEF Execute, process, InStep, Idle, Asking,
       Binding, Pumping, Serving, Pulling, Over, ClockOff, AroundBlock
  <2>6. QED
    BY <1>3, <2>2, <2>3, <2>4, <2>5 DEF TypeOK, HostTyped, WorkerTyped,
       RecordTyped, Truths, PipesTyped
<1>5. CASE ~Alive
  <2>1. Restart("exec") /\ UNCHANGED timer
    BY <1>5 DEF Execute
  <2>2. HostTyped'
    BY <2>1, Bounds DEF Execute, HostTyped, TypeOK, Restart
  <2>3. WorkerTyped' /\ RecordTyped'
    BY <2>1, Restarted DEF Execute
  <2>4. Truths'
    BY <2>1 DEF Execute, Truths, TypeOK, Restart, Start
  <2>5. InStep'
    BY <1>1, <1>2, <2>1 DEF Restart, Start, InStep, Idle, Asking,
       Binding, Pumping, Serving, Pulling, Over, ClockOff
  <2>6. QED
    BY <1>3, <2>2, <2>3, <2>4, <2>5 DEF TypeOK, HostTyped, WorkerTyped,
       RecordTyped, Truths, PipesTyped
<1>6. QED
  BY <1>4, <1>5

\* Rebound: the context is bound before the block is sent.
LEMMA ReboundStep ==
  ASSUME TypeOK, InStep, Rebound
  PROVE  TypeOK' /\ InStep'
<1>1. /\ toHost = <<Frame("bound", 0, TRUE)>> /\ toWorker = <<>>
      /\ At("ready") /\ bound
  BY OneFrame DEF Rebound, Frame, TypeOK, InStep, Binding, Arrives
<1>2. /\ toHost' = <<>>
      /\ toWorker' \in {<<>>, <<Frame("exec", blocks, TRUE)>>}
  BY <1>1, OneFrame DEF Rebound, Frame, TypeOK, SendToWorker, process,
     history
<1>3. toWorker' \in Seq(Frames) /\ toHost' \in Seq(Frames)
  BY <1>1, <1>2, EmptySeq, FramesFit, Ranges
<1>4. CASE then = "exec" /\ Alive
  <2>1. /\ host' = "pump" /\ timer' = "armed" /\ UNCHANGED history
        /\ toWorker' = <<Frame("exec", blocks, TRUE)>>
    BY <1>1, <1>4, OneFrame DEF Rebound, SendToWorker
  <2>2. TypeOK'
    BY <1>3, <2>1 DEF Rebound, TypeOK, process, history
  <2>3. InStep'
    BY <1>1, <1>2, <1>4, <2>1 DEF Rebound, process, InStep, Idle, Asking,
       Binding, Pumping, Serving, Pulling, Over, ClockOff, AroundBlock
  <2>4. QED
    BY <2>2, <2>3
<1>5. CASE then = "timeout"
  <2>1. /\ host' = "idle" /\ timer' = "off" /\ toWorker' = <<>>
        /\ seen' = [block |-> blocks, incarnation |-> restarts]
        /\ told' = restarts
    BY <1>1, <1>5 DEF Rebound
  <2>2. TypeOK'
    BY <1>3, <2>1, Bounds DEF Rebound, TypeOK, process
  <2>3. InStep'
    BY <1>1, <1>2, <2>1 DEF Rebound, process, InStep, Idle, Asking,
       Binding, Pumping, Serving, Pulling, Over, ClockOff
  <2>4. QED
    BY <2>2, <2>3
<1>6. CASE then = "error" \/ (then = "exec" /\ ~Alive)
  <2>1. /\ host' = "raised" /\ timer' = "off" /\ toWorker' = <<>>
        /\ UNCHANGED history
    BY <1>1, <1>6 DEF Rebound
  <2>2. TypeOK'
    BY <1>3, <2>1 DEF Rebound, TypeOK, process, history
  <2>3. InStep'
    BY <1>1, <1>2, <2>1 DEF Rebound, process, InStep, Idle, Asking,
       Binding, Pumping, Serving, Pulling, Over, ClockOff
  <2>4. QED
    BY <2>2, <2>3
<1>7. QED
  BY <1>4, <1>5, <1>6 DEF TypeOK

\* Ask: the question is the only frame.
LEMMA AskStep ==
  ASSUME TypeOK, InStep, Ask
  PROVE  TypeOK' /\ InStep'
<1>1. /\ At("ready") /\ Silent /\ bound /\ timer = "off"
      /\ seen.block = blocks
  BY OneFrame DEF Ask, Frame, TypeOK, InStep, Idle, ClockOff
<1>2. /\ toHost' = <<>>
      /\ toWorker' = IF Alive THEN <<Frame("ask", 0, TRUE)>> ELSE <<>>
  BY <1>1, OneFrame DEF Ask, Frame, TypeOK, SendToWorker, clock, process,
     history
<1>3. toWorker' \in Seq(Frames) /\ toHost' \in Seq(Frames)
  BY <1>1, <1>2, EmptySeq, FramesFit, Ranges
<1>4. TypeOK'
  <2>1. asks' \in 0 .. MaxAsks
    BY Bounds DEF Ask, TypeOK
  <2>2. HostTyped'
    BY <2>1 DEF Ask, HostTyped, TypeOK, clock
  <2>3. WorkerTyped' /\ RecordTyped' /\ Truths'
    BY DEF Ask, WorkerTyped, RecordTyped, Truths, TypeOK, process, history, clock
  <2>4. QED
    BY <1>3, <2>2, <2>3 DEF TypeOK, HostTyped, WorkerTyped,
       RecordTyped, Truths, PipesTyped
<1>5. InStep'
  BY <1>1, <1>2, <1>3, <1>4 DEF Ask, TypeOK, InStep, Idle, Asking, Binding,
     Pumping, Serving, Pulling, Over, ClockOff, AroundBlock, InCode, InCall,
     SendToWorker, clock, process, history
<1>6. QED
  BY <1>4, <1>5

\* Answered: the pipes are empty again.
LEMMA AnsweredStep ==
  ASSUME TypeOK, InStep, Answered
  PROVE  TypeOK' /\ InStep'
<1>1. /\ toHost = <<Frame("answer", 0, TRUE)>> /\ toWorker = <<>>
      /\ At("ready") /\ bound /\ seen.block = blocks /\ timer = "off"
  BY OneFrame DEF Answered, Frame, TypeOK, InStep, Asking, Arrives, ClockOff
<1>2. toHost' = <<>> /\ toWorker' = <<>>
  BY <1>1, OneFrame DEF Answered, Frame, TypeOK, clock, process, history
<1>3. toWorker' \in Seq(Frames) /\ toHost' \in Seq(Frames)
  BY <1>1, <1>2, EmptySeq, FramesFit, Ranges
<1>4. TypeOK'
  BY <1>1, <1>2, <1>3, Bounds, EmptySeq DEF Answered, TypeOK, clock, process,
     history
<1>5. InStep'
  BY <1>1, <1>2, <1>3, <1>4 DEF Answered, TypeOK, InStep, Idle, Asking,
     Binding, Pumping, Serving, Pulling, Over, ClockOff, AroundBlock, InCode,
     InCall, clock, process, history
<1>6. QED
  BY <1>4, <1>5

\* Broken: the worker is dead and its pipe read to the end.
LEMMA BrokenStep ==
  ASSUME TypeOK, InStep, Broken
  PROVE  TypeOK' /\ InStep'
<1>1. toWorker' \in Seq(Frames) /\ toHost' \in Seq(Frames)
  BY DEF Broken, TypeOK, HungUp, process, pipes, history
<1>2. TypeOK'
  BY <1>1, Bounds, EmptySeq DEF Broken, TypeOK, HungUp, process, pipes,
     history
<1>3. InStep'
  BY <1>1, <1>2 DEF Broken, TypeOK, InStep, Idle, Asking, Binding, Pumping,
     Serving, Pulling, Over, ClockOff, AroundBlock, InCode, InCall, HungUp,
     process, pipes, history
<1>4. QED
  BY <1>2, <1>3

\* Close: the worker is dead.
LEMMA CloseStep ==
  ASSUME TypeOK, InStep, Close
  PROVE  TypeOK' /\ InStep'
<1>1. toWorker' \in Seq(Frames) /\ toHost' \in Seq(Frames)
  BY DEF Close, TypeOK, clock, pipes, history
<1>2. TypeOK'
  BY <1>1, Bounds, EmptySeq DEF Close, TypeOK, clock, pipes, history
<1>3. InStep'
  BY <1>1, <1>2 DEF Close, TypeOK, InStep, Idle, Asking, Binding, Pumping,
     Serving, Pulling, Over, ClockOff, AroundBlock, InCode, InCall, clock,
     pipes, history
<1>4. QED
  BY <1>2, <1>3

\* Result: it is the one of the block that was sent.
LEMMA ResultStep ==
  ASSUME TypeOK, InStep, Result
  PROVE  TypeOK' /\ InStep'
<1>1. /\ toHost = <<Frame("result", blocks, TRUE)>> /\ toWorker = <<>>
      /\ At("ready") /\ bound
  BY OneFrame DEF Result, Frame, TypeOK, InStep, Pumping, Arrives,
     AroundBlock, InCode, InCall
<1>2. toHost' = <<>> /\ toWorker' = <<>>
  BY <1>1, OneFrame DEF Result, Frame, TypeOK, process
<1>3. toWorker' \in Seq(Frames) /\ toHost' \in Seq(Frames)
  BY <1>1, <1>2, EmptySeq, FramesFit, Ranges
<1>4. TypeOK'
  <2>1. seen' = [block |-> blocks, incarnation |-> restarts] /\ told' = told
    <3>1. Head(toHost) = Frame("result", blocks, TRUE)
      BY <1>1, OneFrame
    <3>2. QED
      BY <3>1 DEF Result, Frame
  <2>2. RecordTyped'
    <3>1. /\ restarts' = restarts /\ restarts \in Nat /\ told \in 0 .. restarts
          /\ blocks \in 0 .. MaxBlocks
      BY DEF Result, TypeOK
    <3>2. restarts \in 0 .. restarts
      BY <3>1
    <3>3. QED
      BY <2>1, <3>1, <3>2 DEF RecordTyped
  <2>3. HostTyped' /\ Truths' /\ WorkerTyped'
    BY DEF Result, HostTyped, WorkerTyped, Truths, TypeOK, process
  <2>4. QED
    BY <1>3, <2>2, <2>3 DEF TypeOK, HostTyped, WorkerTyped,
       RecordTyped, Truths, PipesTyped
<1>5. InStep'
  <2>1. Head(toHost).id = blocks
    <3>1. Head(toHost) = Frame("result", blocks, TRUE)
      BY <1>1, OneFrame
    <3>2. QED
      BY <3>1 DEF Frame
  <2>2. QED
    BY <1>1, <1>2, <2>1 DEF Result, InStep, Idle, Asking, Binding, Pumping,
       Serving, Pulling, Over, ClockOff, process
<1>6. QED
  BY <1>4, <1>5

\* Serve: the call is the innermost one, lazy only if no other is open.
LEMMA ServeStep ==
  ASSUME TypeOK, InStep, Serve
  PROVE  TypeOK' /\ InStep'
<1>1. /\ toWorker = <<>> /\ Calling /\ bound
      /\ \E lazy \in BOOLEAN : /\ toHost = <<Frame("host", Innermost, lazy)>>
                               /\ lazy => Len(waiting) = 1
  BY OneFrame DEF Serve, Frame, TypeOK, InStep, Pumping, Arrives,
     AroundBlock, InCode, InCall
<1>2. PICK f : /\ toHost = <<f>> /\ f.id = Innermost
               /\ f.flag \in BOOLEAN /\ (f.flag => Len(waiting) = 1)
  <2>1. ASSUME NEW lazy \in BOOLEAN, lazy => Len(waiting) = 1,
               toHost = <<Frame("host", Innermost, lazy)>>
        PROVE  \E f : /\ toHost = <<f>> /\ f.id = Innermost
                      /\ f.flag \in BOOLEAN /\ (f.flag => Len(waiting) = 1)
    <3> DEFINE f == Frame("host", Innermost, lazy)
    <3>1. f.id = Innermost /\ f.flag = lazy
      BY DEF Frame
    <3>2. toHost = <<f>>
      BY <2>1
    <3> HIDE DEF f
    <3>3. QED
      BY <2>1, <3>1, <3>2
  <2>2. QED
    BY <1>1, <2>1
<1>3. /\ toHost' = <<>> /\ toWorker' = <<>>
      /\ call' = [id |-> Innermost, stream |-> f.flag, pulls |-> 0]
  BY <1>1, <1>2, OneFrame DEF Serve
<1>4. toWorker' \in Seq(Frames) /\ toHost' \in Seq(Frames)
  BY <1>1, <1>2, <1>3, EmptySeq, FramesFit, Ranges
<1>5. TypeOK'
  <2>1. HostTyped'
    <3>1. call' \in [id : 0 .. MaxCalls, stream : BOOLEAN, pulls : 0 .. MaxPulls]
      BY <1>1, <1>2, <1>3, Ranges, Bounds
    <3>2. QED
      BY <3>1 DEF Serve, HostTyped, TypeOK
  <2>2. WorkerTyped' /\ RecordTyped' /\ Truths'
    BY DEF Serve, WorkerTyped, RecordTyped, Truths, TypeOK, process, history
  <2>3. QED
    BY <1>4, <2>1, <2>2 DEF TypeOK, HostTyped, WorkerTyped,
       RecordTyped, Truths, PipesTyped
<1>6. InStep'
  <2>1. host' = "serve" /\ timer' = "off" /\ waiting' = waiting /\ worker' = worker
        /\ block' = block /\ blocks' = blocks /\ bound' = bound
    BY DEF Serve, process
  <2>2. call'.id = Innermost /\ (call'.stream => Len(waiting) = 1)
    BY <1>2, <1>3
  <2>3. Serving'
    BY <1>1, <1>3, <2>1, <2>2 DEF Serving
  <2>4. QED
    BY <2>1, <2>3 DEF InStep, Idle, Asking, Binding, Pumping, Pulling, Over,
       ClockOff
<1>7. QED
  BY <1>5, <1>6

\* Unexpected: the worker goes on waiting for a reply, and nothing is sent.
LEMMA UnexpectedStep ==
  ASSUME TypeOK, InStep, Unexpected
  PROVE  TypeOK' /\ InStep'
<1>1. /\ toWorker = <<>> /\ Calling /\ bound
      /\ \E more \in BOOLEAN : toHost = <<Frame("items", Innermost, more)>>
  BY OneFrame DEF Unexpected, Frame, TypeOK, InStep, Pumping, Arrives,
     AroundBlock, InCode, InCall
<1>2. toHost' = <<>> /\ toWorker' = <<>>
  BY <1>1, OneFrame DEF Unexpected, Frame, TypeOK, process, history
<1>3. toWorker' \in Seq(Frames) /\ toHost' \in Seq(Frames)
  BY <1>1, <1>2, EmptySeq, FramesFit, Ranges
<1>4. TypeOK'
  BY <1>1, <1>2, <1>3, Bounds, EmptySeq DEF Unexpected, TypeOK, process,
     history
<1>5. InStep'
  BY <1>1, <1>2, <1>3, <1>4 DEF Unexpected, TypeOK, InStep, Idle, Asking,
     Binding, Pumping, Serving, Pulling, Over, ClockOff, AroundBlock, InCode,
     InCall, process, history
<1>6. QED
  BY <1>4, <1>5

\* Died: the new process has new pipes.
LEMMA DiedStep ==
  ASSUME TypeOK, InStep, Died
  PROVE  TypeOK' /\ InStep'
<1>1. toHost' = <<>> /\ toWorker' = <<Frame("bind", 0, TRUE)>>
  BY OneFrame DEF Died, Frame, TypeOK, HungUp, Restart, Start, clock, history
<1>2. toWorker' \in Seq(Frames) /\ toHost' \in Seq(Frames)
  BY <1>1, EmptySeq, FramesFit, Ranges
<1>3. TypeOK'
  <2>1. PICK after \in {"timeout", "error"} : Restart(after)
    BY DEF Died
  <2>2. WorkerTyped' /\ RecordTyped'
    BY <2>1, Restarted DEF Died
  <2>3. HostTyped' /\ Truths'
    BY <2>1 DEF Died, HostTyped, Truths, TypeOK, Restart, Start, clock
  <2>4. QED
    BY <1>2, <2>2, <2>3 DEF TypeOK, HostTyped, WorkerTyped,
       RecordTyped, Truths, PipesTyped
<1>4. InStep'
  BY <1>1, <1>2, <1>3 DEF Died, TypeOK, InStep, Idle, Asking, Binding,
     Pumping, Serving, Pulling, Over, ClockOff, AroundBlock, InCode, InCall,
     HungUp, Restart, Start, clock, history
<1>5. QED
  BY <1>3, <1>4

\* HandlerReturns: the reply names the innermost call.
LEMMA HandlerReturnsStep ==
  ASSUME TypeOK, InStep, HandlerReturns
  PROVE  TypeOK' /\ InStep'
<1>1. /\ Silent /\ Calling /\ bound
      /\ call.id = Innermost /\ timer = "off"
  BY OneFrame DEF HandlerReturns, Frame, TypeOK, InStep, Serving, ClockOff
<1>2. /\ toHost' = <<>> /\ call.id \in 0 .. MaxCalls
      /\ \/ Alive /\ \E ok \in BOOLEAN : toWorker' = <<Frame("reply", call.id, ok)>>
         \/ ~Alive /\ toWorker' = <<>>
  BY <1>1, OneFrame DEF HandlerReturns, Frame, TypeOK, SendReply,
     SendToWorker, process, history, NoCall
<1>3. toWorker' \in Seq(Frames) /\ toHost' \in Seq(Frames)
  BY <1>1, <1>2, EmptySeq, FramesFit, Ranges
<1>4. TypeOK'
  BY <1>1, <1>2, <1>3, Bounds, EmptySeq DEF HandlerReturns, TypeOK,
     SendReply, SendToWorker, process, history, NoCall
<1>5. InStep'
  BY <1>1, <1>2, <1>3, <1>4 DEF HandlerReturns, TypeOK, InStep, Idle, Asking,
     Binding, Pumping, Serving, Pulling, Over, ClockOff, AroundBlock, InCode,
     InCall, SendReply, SendToWorker, process, history, NoCall
<1>6. QED
  BY <1>4, <1>5

\* Pull: the call pulled from is the only one open.
LEMMA PullStep ==
  ASSUME TypeOK, InStep, Pull
  PROVE  TypeOK' /\ InStep'
<1>1. /\ Silent /\ Calling /\ bound /\ timer = "off"
      /\ waiting = <<call.id>>
  <2>1. /\ Silent /\ Calling /\ bound /\ timer = "off"
        /\ call.id = Innermost /\ Len(waiting) = 1
    BY DEF Pull, TypeOK, InStep, Serving, ClockOff
  <2>2. waiting = <<waiting[1]>>
    BY <2>1 DEF TypeOK
  <2>3. QED
    BY <2>1, <2>2
<1>2. /\ toHost' = <<>> /\ toWorker' = <<Frame("pull", call.id, TRUE)>>
      /\ call' \in [id : {call.id}, stream : BOOLEAN, pulls : 0 .. MaxPulls]
  BY <1>1, OneFrame, Bounds DEF Pull, Frame, TypeOK, SendToWorker, clock,
     process, history
<1>3. toWorker' \in Seq(Frames) /\ toHost' \in Seq(Frames)
  BY <1>1, <1>2, EmptySeq, FramesFit, Ranges
<1>4. TypeOK'
  BY <1>1, <1>2, <1>3, Bounds, EmptySeq DEF Pull, TypeOK, SendToWorker,
     clock, process, history
<1>5. InStep'
  BY <1>1, <1>2, <1>3, <1>4 DEF Pull, TypeOK, InStep, Idle, Asking, Binding,
     Pumping, Serving, Pulling, Over, ClockOff, AroundBlock, InCode, InCall,
     SendToWorker, clock, process, history
<1>6. QED
  BY <1>4, <1>5

\* PullItems: the chunk is that of the call being served.
LEMMA PullItemsStep ==
  ASSUME TypeOK, InStep, PullItems
  PROVE  TypeOK' /\ InStep'
<1>1. /\ At("calling") /\ waiting = <<call.id>> /\ toWorker = <<>>
      /\ \E more \in BOOLEAN : toHost = <<Frame("items", call.id, more)>>
      /\ bound /\ block = blocks /\ timer = "off"
  BY OneFrame DEF PullItems, Frame, TypeOK, InStep, Pulling, Arrives,
     ClockOff
<1>2. /\ toHost' = <<>> /\ toWorker' = <<>>
      /\ call' \in [id : {call.id}, stream : BOOLEAN, pulls : 0 .. MaxPulls]
  BY <1>1, OneFrame DEF PullItems, Frame, TypeOK, clock, process, history
<1>3. toWorker' \in Seq(Frames) /\ toHost' \in Seq(Frames)
  BY <1>1, <1>2, EmptySeq, FramesFit, Ranges
<1>4. TypeOK'
  BY <1>1, <1>2, <1>3, Bounds, EmptySeq DEF PullItems, TypeOK, clock,
     process, history
<1>5. InStep'
  BY <1>1, <1>2, <1>3, <1>4 DEF PullItems, TypeOK, InStep, Idle, Asking,
     Binding, Pumping, Serving, Pulling, Over, ClockOff, AroundBlock, InCode,
     InCall, clock, process, history
<1>6. QED
  BY <1>4, <1>5

\* PullRefused: the refusal is a failure, so it carries no value astray.
LEMMA PullRefusedStep ==
  ASSUME TypeOK, InStep, PullRefused
  PROVE  TypeOK' /\ InStep'
<1>1. /\ At("calling") /\ Len(waiting) = 2 /\ toWorker = <<>>
      /\ toHost = <<Frame("host", Innermost, FALSE)>>
      /\ bound /\ block = blocks /\ timer = "off"
  BY OneFrame DEF PullRefused, Frame, TypeOK, InStep, Pulling, Arrives,
     ClockOff
<1>2. /\ toHost' = <<>> /\ call.id \in 0 .. MaxCalls
      /\ \/ Alive /\ toWorker' = <<Frame("reply", call.id, FALSE)>>
         \/ ~Alive /\ toWorker' = <<>>
  BY <1>1, OneFrame DEF PullRefused, Frame, TypeOK, SendReply, SendToWorker,
     process, history, NoCall
<1>3. toWorker' \in Seq(Frames) /\ toHost' \in Seq(Frames)
  BY <1>1, <1>2, EmptySeq, FramesFit, Ranges
<1>4. TypeOK'
  <2>1. HostTyped'
    <3>1. NoCall \in [id : 0 .. MaxCalls, stream : BOOLEAN, pulls : 0 .. MaxPulls]
      BY Bounds DEF NoCall
    <3>2. host' \in {"pump", "raised"} /\ timer' \in {"armed", "off"}
      BY DEF PullRefused, SendReply
    <3>3. QED
      BY <3>1, <3>2 DEF PullRefused, HostTyped, TypeOK
  <2>2. WorkerTyped' /\ RecordTyped' /\ Truths'
    BY DEF PullRefused, WorkerTyped, RecordTyped, Truths, TypeOK, process, history
  <2>3. QED
    BY <1>3, <2>1, <2>2 DEF TypeOK, HostTyped, WorkerTyped,
       RecordTyped, Truths, PipesTyped
<1>5. InStep'
  BY <1>1, <1>2, <1>3, <1>4 DEF PullRefused, TypeOK, InStep, Idle, Asking,
     Binding, Pumping, Serving, Pulling, Over, ClockOff, AroundBlock, InCode,
     InCall, SendReply, SendToWorker, process, history, NoCall
<1>6. QED
  BY <1>4, <1>5

\* Fire: the timer is off, and its thread is about to kill.
LEMMA FireStep ==
  ASSUME TypeOK, InStep, Fire
  PROVE  TypeOK' /\ InStep'
<1>1. toWorker' \in Seq(Frames) /\ toHost' \in Seq(Frames)
  BY DEF Fire, TypeOK, hostVars, process, pipes, history
<1>2. TypeOK'
  BY <1>1, Bounds, EmptySeq DEF Fire, TypeOK, hostVars, process, pipes,
     history
<1>3. InStep'
  BY <1>1, <1>2 DEF Fire, TypeOK, InStep, Idle, Asking, Binding, Pumping,
     Serving, Pulling, Over, ClockOff, AroundBlock, InCode, InCall, hostVars,
     process, pipes, history
<1>4. QED
  BY <1>2, <1>3

\* Kill: a dead process leaves its pipes as they are.
LEMMA KillStep ==
  ASSUME TypeOK, InStep, Kill
  PROVE  TypeOK' /\ InStep'
<1>1. toWorker' \in Seq(Frames) /\ toHost' \in Seq(Frames)
  BY DEF Kill, TypeOK, hostVars, pipes, history
<1>2. TypeOK'
  BY <1>1, Bounds, EmptySeq DEF Kill, TypeOK, hostVars, pipes, history
<1>3. InStep'
  BY <1>1, <1>2 DEF Kill, TypeOK, InStep, Idle, Asking, Binding, Pumping,
     Serving, Pulling, Over, ClockOff, AroundBlock, InCode, InCall, hostVars,
     pipes, history
<1>4. QED
  BY <1>2, <1>3

\* Die: as Kill.
LEMMA DieStep ==
  ASSUME TypeOK, InStep, Die
  PROVE  TypeOK' /\ InStep'
<1>1. toWorker' \in Seq(Frames) /\ toHost' \in Seq(Frames)
  BY DEF Die, TypeOK, hostVars, clock, pipes, history
<1>2. TypeOK'
  BY <1>1, Bounds, EmptySeq DEF Die, TypeOK, hostVars, clock, pipes, history
<1>3. InStep'
  BY <1>1, <1>2 DEF Die, TypeOK, InStep, Idle, Asking, Binding, Pumping,
     Serving, Pulling, Over, ClockOff, AroundBlock, InCode, InCall, hostVars,
     clock, pipes, history
<1>4. QED
  BY <1>2, <1>3

\* WorkerAnswers: the host waits for this answer.
LEMMA WorkerAnswersStep ==
  ASSUME TypeOK, InStep, WorkerAnswers
  PROVE  TypeOK' /\ InStep'
<1>1. /\ toHost = <<>>
      /\ \/ host = "bind" /\ toWorker = <<Frame("bind", 0, TRUE)>>
         \/ /\ host = "ask" /\ toWorker = <<Frame("ask", 0, TRUE)>>
            /\ bound /\ seen.block = blocks /\ timer = "off"
  BY OneFrame DEF WorkerAnswers, Frame, TypeOK, InStep, Idle, Asking,
     Binding, Pumping, Serving, Pulling, Over, ClockOff, AroundBlock, InCode,
     InCall
<1>2. /\ toWorker' = <<>> /\ bound'
      /\ toHost' = <<Frame(IF host = "bind" THEN "bound" ELSE "answer", 0, TRUE)>>
  BY <1>1, OneFrame DEF WorkerAnswers, Frame, TypeOK, hostVars, clock,
     history
<1>3. toWorker' \in Seq(Frames) /\ toHost' \in Seq(Frames)
  BY <1>1, <1>2, EmptySeq, FramesFit, Ranges
<1>4. TypeOK'
  BY <1>1, <1>2, <1>3, Bounds, EmptySeq DEF WorkerAnswers, TypeOK, hostVars,
     clock, history
<1>5. InStep'
  BY <1>1, <1>2, <1>3, <1>4 DEF WorkerAnswers, TypeOK, InStep, Idle, Asking,
     Binding, Pumping, Serving, Pulling, Over, ClockOff, AroundBlock, InCode,
     InCall, hostVars, clock, history
<1>6. QED
  BY <1>4, <1>5

\* WorkerBegins: the block is the one execute was given.
LEMMA WorkerBeginsStep ==
  ASSUME TypeOK, InStep, WorkerBegins
  PROVE  TypeOK' /\ InStep'
<1>1. /\ host = "pump" /\ bound /\ (timer = "armed" \/ firing)
      /\ toWorker = <<Frame("exec", blocks, TRUE)>> /\ toHost = <<>>
  BY OneFrame DEF WorkerBegins, Frame, TypeOK, InStep, Idle, Asking, Binding,
     Pumping, Serving, Pulling, Over, ClockOff, AroundBlock, InCode, InCall
<1>2. toWorker' = <<>> /\ toHost' = <<>> /\ block' = blocks
  BY <1>1, OneFrame DEF WorkerBegins, Frame, TypeOK, hostVars, clock, history
<1>3. toWorker' \in Seq(Frames) /\ toHost' \in Seq(Frames)
  BY <1>1, <1>2, EmptySeq, FramesFit, Ranges
<1>4. TypeOK'
  BY <1>1, <1>2, <1>3, Bounds, EmptySeq DEF WorkerBegins, TypeOK, hostVars,
     clock, history
<1>5. InStep'
  BY <1>1, <1>2, <1>3, <1>4 DEF WorkerBegins, TypeOK, InStep, Idle, Asking,
     Binding, Pumping, Serving, Pulling, Over, ClockOff, AroundBlock, InCode,
     InCall, hostVars, clock, history
<1>6. QED
  BY <1>4, <1>5

\* WorkerFinishes: the host waits for the result of this block.
LEMMA WorkerFinishesStep ==
  ASSUME TypeOK, InStep, WorkerFinishes
  PROVE  TypeOK' /\ InStep'
<1>1. /\ host = "pump" /\ bound /\ (timer = "armed" \/ firing)
      /\ block = blocks /\ Silent
  BY OneFrame DEF WorkerFinishes, Frame, TypeOK, InStep, Idle, Asking,
     Binding, Pumping, Serving, Pulling, Over, ClockOff, AroundBlock, InCode,
     InCall
<1>2. toHost' = <<Frame("result", blocks, TRUE)>> /\ toWorker' = <<>>
  BY <1>1, OneFrame DEF WorkerFinishes, Frame, TypeOK, hostVars, clock,
     history
<1>3. toWorker' \in Seq(Frames) /\ toHost' \in Seq(Frames)
  BY <1>1, <1>2, EmptySeq, FramesFit, Ranges
<1>4. TypeOK'
  BY <1>1, <1>2, <1>3, Bounds, EmptySeq DEF WorkerFinishes, TypeOK, hostVars,
     clock, history
<1>5. InStep'
  BY <1>1, <1>2, <1>3, <1>4 DEF WorkerFinishes, TypeOK, InStep, Idle, Asking,
     Binding, Pumping, Serving, Pulling, Over, ClockOff, AroundBlock, InCode,
     InCall, hostVars, clock, history
<1>6. QED
  BY <1>4, <1>5

\* WorkerCalls: a call of the block, or of a generator, which is never lazy.
LEMMA WorkerCallsStep ==
  ASSUME TypeOK, InStep, WorkerCalls
  PROVE  TypeOK' /\ InStep'
<1>1. /\ Silent /\ bound /\ block = blocks
      /\ \/ /\ host = "pump" /\ (timer = "armed" \/ firing)
            /\ Len(waiting) = IF worker = "running" THEN 0 ELSE 1
         \/ /\ host = "pull" /\ timer = "off"
            /\ worker = "streaming" /\ waiting = <<call.id>>
  BY OneFrame DEF WorkerCalls, Frame, TypeOK, InStep, Idle, Asking, Binding,
     Pumping, Serving, Pulling, Over, ClockOff, AroundBlock, InCode, InCall
<1>2. /\ toWorker' = <<>>
      /\ \E lazy \in BOOLEAN : /\ lazy => worker = "running"
                               /\ toHost' = <<Frame("host", pending + 1, lazy)>>
      /\ Len(waiting') = Len(waiting) + 1
      /\ waiting'[Len(waiting')] = pending + 1
      /\ Len(waiting) = 1 => waiting'[1] = waiting[1]
  BY <1>1, OneFrame DEF WorkerCalls, Frame, TypeOK, hostVars, clock, history
<1>3. toWorker' \in Seq(Frames) /\ toHost' \in Seq(Frames)
  BY <1>1, <1>2, EmptySeq, FramesFit, Ranges
<1>4. TypeOK'
  BY <1>1, <1>2, <1>3, Bounds, EmptySeq DEF WorkerCalls, TypeOK, hostVars,
     clock, history
<1>5. Len(waiting') \in {1, 2} /\ Innermost' = pending + 1
  <2>1. Len(waiting) \in {0, 1}
    BY <1>1
  <2>2. Len(waiting') \in {1, 2}
    <3>1. Len(waiting') = Len(waiting) + 1
      BY <1>2
    <3>2. \A n \in {0, 1} : n + 1 \in {1, 2}
      OBVIOUS
    <3>3. QED
      BY <2>1, <3>1, <3>2
  <2>3. Innermost' = pending + 1
    BY <1>2
  <2>4. QED
    BY <2>2, <2>3
<1>6. CASE host = "pump"
  <2>1. InCall'
    BY <1>1, <1>2, <1>5, <1>6 DEF WorkerCalls, InCall, hostVars
  <2>2. QED
    BY <1>1, <1>2, <1>4, <1>5, <1>6, <2>1 DEF WorkerCalls, InStep, Idle, Asking,
       Binding, Pumping, Serving, Pulling, Over, ClockOff, hostVars, clock
<1>7. CASE host = "pull"
  <2>1. /\ worker' = "calling" /\ Len(waiting') = 2 /\ waiting'[1] = call.id
        /\ toHost' = <<Frame("host", Innermost', FALSE)>>
    <3>1. worker = "streaming" /\ Len(waiting) = 1 /\ waiting[1] = call.id
      BY <1>1, <1>7
    <3>2. toHost' = <<Frame("host", pending + 1, FALSE)>>
      BY <1>2, <3>1
    <3>3. QED
      <4>1. worker' = "calling"
        BY DEF WorkerCalls
      <4>2. Len(waiting') = 2 /\ waiting'[1] = call.id
        BY <1>2, <3>1
      <4>3. QED
        BY <1>5, <3>2, <4>1, <4>2
  <2>2. Pulling'
    BY <1>1, <1>2, <1>7, <2>1 DEF WorkerCalls, Pulling, hostVars
  <2>3. QED
    BY <1>1, <1>4, <1>5, <1>7, <2>2 DEF WorkerCalls, InStep, Idle, Asking,
       Binding, Pumping, Serving, Over, ClockOff, hostVars, clock
<1>8. QED
  BY <1>1, <1>4, <1>6, <1>7

\* WorkerStreams: the pull is for the only open call.
LEMMA WorkerStreamsStep ==
  ASSUME TypeOK, InStep, WorkerStreams
  PROVE  TypeOK' /\ InStep'
<1>1. /\ host = "pull" /\ bound /\ block = blocks /\ timer = "off"
      /\ waiting = <<call.id>>
      /\ toWorker = <<Frame("pull", call.id, TRUE)>> /\ toHost = <<>>
  BY OneFrame DEF WorkerStreams, Frame, TypeOK, InStep, Idle, Asking,
     Binding, Pumping, Serving, Pulling, Over, ClockOff, AroundBlock, InCode,
     InCall
<1>2. toWorker' = <<>> /\ toHost' = <<>>
  BY <1>1, OneFrame DEF WorkerStreams, Frame, TypeOK, hostVars, clock,
     history
<1>3. toWorker' \in Seq(Frames) /\ toHost' \in Seq(Frames)
  BY <1>1, <1>2, EmptySeq, FramesFit, Ranges
<1>4. TypeOK'
  BY <1>1, <1>2, <1>3, Bounds, EmptySeq DEF WorkerStreams, TypeOK, hostVars,
     clock, history
<1>5. InStep'
  BY <1>1, <1>2, <1>3, <1>4 DEF WorkerStreams, TypeOK, InStep, Idle, Asking,
     Binding, Pumping, Serving, Pulling, Over, ClockOff, AroundBlock, InCode,
     InCall, hostVars, clock, history
<1>6. QED
  BY <1>4, <1>5

\* WorkerYields: the chunk goes to whoever pulled, or to nobody.
LEMMA WorkerYieldsStep ==
  ASSUME TypeOK, InStep, WorkerYields
  PROVE  TypeOK' /\ InStep'
<1>1. /\ Silent /\ bound /\ block = blocks /\ Len(waiting) = 1
      /\ \/ host = "pump" /\ (timer = "armed" \/ firing)
         \/ host = "pull" /\ waiting = <<call.id>> /\ timer = "off"
  BY OneFrame DEF WorkerYields, Frame, TypeOK, InStep, Idle, Asking, Binding,
     Pumping, Serving, Pulling, Over, ClockOff, AroundBlock, InCode, InCall
<1>2. /\ Innermost \in 1 .. MaxCalls /\ toWorker' = <<>>
      /\ \E more \in BOOLEAN : toHost' = <<Frame("items", Innermost, more)>>
  <2>1. waiting # <<>>
    BY <1>1
  <2>2. \E more \in BOOLEAN : toHost' = <<Frame("items", Innermost, more)>>
    BY <1>1, OneFrame DEF WorkerYields
  <2>3. QED
    BY <1>1, <2>1, <2>2, Ranges DEF WorkerYields
<1>3. toWorker' \in Seq(Frames) /\ toHost' \in Seq(Frames)
  BY <1>1, <1>2, EmptySeq, FramesFit, Ranges
<1>4. TypeOK'
  BY <1>1, <1>2, <1>3, Bounds, EmptySeq DEF WorkerYields, TypeOK, hostVars,
     clock, history
<1>5. InStep'
  BY <1>1, <1>2, <1>3, <1>4 DEF WorkerYields, TypeOK, InStep, Idle, Asking,
     Binding, Pumping, Serving, Pulling, Over, ClockOff, AroundBlock, InCode,
     InCall, hostVars, clock, history
<1>6. QED
  BY <1>4, <1>5

\* WorkerResumes: the reply ends the innermost call, whoever it was for.
LEMMA WorkerResumesStep ==
  ASSUME TypeOK, InStep, WorkerResumes
  PROVE  TypeOK' /\ InStep'
<1>1. /\ host = "pump" /\ bound /\ (timer = "armed" \/ firing)
      /\ block = blocks /\ toHost = <<>>
      /\ Len(waiting) \in {1, 2}
      /\ \E reply : toWorker = <<reply>>
  <2>1. host = "pump"
    BY OneFrame DEF WorkerResumes, Frame, TypeOK, InStep, Idle, Asking, Binding,
       Serving, Pulling, Over
  <2>2. bound /\ Calling /\ InCall
    BY <2>1, OneFrame DEF WorkerResumes, InStep, Pumping, AroundBlock, InCode,
       InCall
  <2>3. \/ Sent("reply", Innermost, TRUE)
        \/ \E id \in 0 .. MaxCalls : Sent("reply", id, FALSE)
    BY <2>2 DEF WorkerResumes, InCall
  <2>4. toHost = <<>> /\ \E reply : toWorker = <<reply>>
    BY <2>3
  <2>5. Len(waiting) \in {1, 2}
    <3>1. waiting # <<>> /\ waiting \in Seq(1 .. MaxCalls) /\ Len(waiting) <= 2
      BY <2>2 DEF InStep, TypeOK
    <3>2. Len(waiting) \in Nat \ {0}
      BY <3>1, WithoutLast
    <3>3. Len(waiting) <= 2
      BY <3>1
    <3>4. QED
      BY <3>2, <3>3, OneOrTwo
  <2>6. QED
    BY <2>1, <2>2, <2>4, <2>5 DEF WorkerResumes, InStep, Pumping
<1>2. /\ toWorker' = <<>> /\ toHost' = <<>>
      /\ waiting' \in Seq(1 .. MaxCalls) /\ Len(waiting') = Len(waiting) - 1
      /\ Outer = <<>> <=> Len(waiting) = 1
  <2>1. waiting \in Seq(1 .. MaxCalls) /\ waiting # <<>>
    BY <1>1, EmptySeq DEF TypeOK, WorkerResumes
  <2>2. /\ Outer \in Seq(1 .. MaxCalls) /\ Len(Outer) = Len(waiting) - 1
        /\ Outer = <<>> <=> Len(waiting) = 1
    BY <2>1, WithoutLast DEF Outer
  <2>3. waiting' = Outer /\ toWorker' = <<>> /\ toHost' = <<>>
    BY <1>1, OneFrame DEF WorkerResumes
  <2>4. QED
    BY <2>2, <2>3
<1>3. toWorker' \in Seq(Frames) /\ toHost' \in Seq(Frames)
  BY <1>1, <1>2, EmptySeq, FramesFit, Ranges
<1>4. TypeOK'
  BY <1>1, <1>2, <1>3, Bounds, EmptySeq DEF WorkerResumes, TypeOK, Outer,
     hostVars, clock, history
<1>5. InStep'
  BY <1>1, <1>2, <1>3, <1>4 DEF WorkerResumes, TypeOK, InStep, Idle, Asking,
     Binding, Pumping, Serving, Pulling, Over, ClockOff, AroundBlock, InCode,
     InCall, Outer, hostVars, clock, history
<1>6. QED
  BY <1>4, <1>5
-----------------------------------------------------------------------------
\* A step of Next, whichever it is, and a step that changes nothing.
LEMMA NextIsInStep == IInv /\ [Next]_vars => IInv'
<1> SUFFICES ASSUME TypeOK, InStep, [Next]_vars PROVE TypeOK' /\ InStep'
  BY DEF IInv
<1>1. CASE Execute \/ Ask \/ Close \/ Pull
  BY <1>1, ExecuteStep, AskStep, CloseStep, PullStep
<1>2. CASE HostStep
  BY <1>2, ReboundStep, AnsweredStep, BrokenStep, ResultStep, ServeStep,
     UnexpectedStep, DiedStep, HandlerReturnsStep, PullItemsStep,
     PullRefusedStep DEF HostStep
<1>3. CASE Fire \/ Kill \/ Die
  BY <1>3, FireStep, KillStep, DieStep
<1>4. CASE Reacts \/ RunsCode
  BY <1>4, WorkerAnswersStep, WorkerBeginsStep, WorkerStreamsStep,
     WorkerResumesStep, WorkerFinishesStep, WorkerCallsStep, WorkerYieldsStep
     DEF Reacts, RunsCode
<1>5. CASE Closed \/ UNCHANGED vars
  <2>1. UNCHANGED <<hostVars, clock, restarts, process, pipes, history>>
    BY <1>5 DEF Closed, vars
  <2>2. TypeOK'
    BY <2>1 DEF TypeOK, hostVars, clock, process, pipes, history
  <2>3. InStep'
    BY <2>1 DEF InStep, Idle, Asking, Binding, Pumping, AroundBlock, InCode,
       InCall, Serving, Pulling, Over, ClockOff, hostVars, clock, process, pipes,
       history
  <2>4. QED
    BY <2>2, <2>3
<1>6. QED
  BY <1>1, <1>2, <1>3, <1>4, <1>5 DEF Next

LEMMA InStepAlways == Spec => []IInv
<1>1. Init => IInv
  BY InitIsInStep
<1>2. IInv /\ [Next]_vars => IInv'
  BY NextIsInStep
<1>3. QED
  BY <1>1, <1>2, PTL DEF Spec

(***************************************************************************)
(* The types, and which calls the worker waits on in which phase.          *)
(***************************************************************************)
THEOREM TypeCorrect == Spec => []TypeOK
<1>1. IInv => TypeOK
  BY DEF IInv
<1>2. QED
  BY <1>1, InStepAlways, PTL

(***************************************************************************)
(* No timer is armed while the harness works, and none is missing while    *)
(* the model's code runs (_pump, pause and resume in repl/runtime.py).     *)
(***************************************************************************)
THEOREM ClockCorrect == Spec => []ClockMeasuresCode
<1>1. IInv => ClockMeasuresCode
  BY DEF IInv, InStep, ClockOff, Pumping, ClockMeasuresCode
<1>2. QED
  BY <1>1, InStepAlways, PTL

\* The host is idle only with the observation of the last block.
LEMMA ObservationIsOwn == IInv => OwnObservation
  BY DEF IInv, InStep, Idle, OwnObservation

(***************************************************************************)
(* A value goes to the call it answers: the only reply that names another  *)
(* call is a refusal, and a chunk comes while one call alone is open.      *)
(***************************************************************************)
LEMMA ValueIsOwn == IInv => ValueReachesItsCall
<1> SUFFICES ASSUME IInv PROVE ValueReachesItsCall
  OBVIOUS
<1>1. ASSUME worker = "calling", toWorker # <<>>,
             \/ Head(toWorker).op = "pull"
             \/ Head(toWorker).op = "reply" /\ Head(toWorker).flag
      PROVE  Head(toWorker).id = Innermost
  <2>1. CASE host = "pump"
    <3>1. InCall
      BY <1>1, <2>1 DEF IInv, InStep, Pumping, AroundBlock, InCode
    <3>2. QED
      BY <1>1, <3>1, OneFrame DEF InCall, Frame
  <2>2. CASE host = "pull"
    BY <1>1, <2>2, OneFrame DEF IInv, InStep, Pulling, Frame
  <2>3. host \in {"pump", "pull"}
    BY <1>1 DEF IInv, TypeOK, InStep, Idle, Asking, Binding, Serving, Over
  <2>4. QED
    BY <2>1, <2>2, <2>3
<1>2. ASSUME host = "pull", Arrives("items")
      PROVE  Head(toHost).id = call.id
  BY <1>2, OneFrame DEF IInv, InStep, Pulling, Arrives, Frame
<1>3. QED
  BY <1>1, <1>2 DEF ValueReachesItsCall

\* A block begins only in a process whose context was bound.
LEMMA BlockHasContext == IInv => NoBlockWithoutContext
  BY DEF IInv, TypeOK, InStep, Idle, Asking, Binding, Pumping, Serving, Pulling,
     Over, NoBlockWithoutContext

(***************************************************************************)
(* The two sides stay in step over an unnumbered, reentrant channel and    *)
(* across restarts (_pump, _pull and _restart in repl/runtime.py, _host_fn *)
(* in repl/worker.py): an observation is that of the block asked for, a    *)
(* value reaches the call it answers, no block runs without the context.   *)
(***************************************************************************)
THEOREM ChannelCorrect == Spec => []ChannelInStep
<1>1. IInv => ChannelInStep
  BY ObservationIsOwn, ValueIsOwn, BlockHasContext DEF ChannelInStep
<1>2. QED
  BY <1>1, InStepAlways, PTL
-----------------------------------------------------------------------------
(***************************************************************************)
(* Which block the process runs or ran last, beside the one the host       *)
(* waits for: what the contract's state is read from.                      *)
(***************************************************************************)
Numbered ==
  /\ block <= blocks
  /\ host \in {"bind", "pump", "serve", "pull"} => blocks > 0
  /\ host = "bind" => block = 0
  /\ host = "pump" /\ Sent("exec", blocks, TRUE) => block < blocks
  /\ host = "pump" /\ Came("result", blocks, TRUE) => block = blocks

USE DEF Numbered

\* The host takes up anything but a block that is to run.
LEMMA NumberedElsewhere ==
  ASSUME TypeOK, Numbered, UNCHANGED <<block, blocks>>,
         host' \notin {"bind", "pump"},
         host' \in {"serve", "pull"} => host \in {"pump", "serve", "pull"}
  PROVE  Numbered'
  OBVIOUS

\* The pump goes on, and what is under way is neither a block nor a result.
LEMMA NumberedInCall ==
  ASSUME TypeOK, Numbered, UNCHANGED <<block, blocks>>,
         host' = "pump", host \in {"pump", "serve", "pull"},
         NEW op \in {"host", "items", "reply"}, NEW id, NEW flag,
         \/ toWorker' = <<>> /\ toHost' = <<>>
         \/ toWorker' = <<Frame(op, id, flag)>> /\ toHost' = <<>>
         \/ toWorker' = <<>> /\ toHost' = <<Frame(op, id, flag)>>
  PROVE  Numbered'
<1>1. /\ toWorker' # <<Frame("exec", blocks', TRUE)>>
      /\ toHost' # <<Frame("result", blocks', TRUE)>>
  BY DEF Frame
<1>2. QED
  BY <1>1

\* Execute: the new block has a number no process has met.
LEMMA ExecuteNumbered ==
  ASSUME IInv, Numbered, Execute
  PROVE  Numbered'
<1>1. blocks' = blocks + 1 /\ blocks \in Nat /\ block \in Nat
  BY Ranges DEF Execute, IInv
<1>2. toHost = <<>>
  BY DEF Execute, IInv, InStep, Idle
<1>3. CASE Alive
  <2>1. host' = "pump" /\ block' = block /\ toHost' = <<>>
    BY <1>2, <1>3 DEF Execute, process
  <2>2. block' < blocks' /\ block' <= blocks' /\ blocks' > 0
    BY <1>1, <2>1
  <2>3. QED
    BY <2>1, <2>2
<1>4. CASE ~Alive
  <2>1. host' = "bind" /\ block' = 0
    BY <1>4 DEF Execute, Restart, Start
  <2>2. QED
    BY <1>1, <2>1
<1>5. QED
  BY <1>3, <1>4

\* Rebound: the new process has begun nothing yet.
LEMMA ReboundNumbered ==
  ASSUME IInv, Numbered, Rebound
  PROVE  Numbered'
<1>1. /\ blocks' = blocks /\ block' = block /\ block = 0 /\ blocks > 0
      /\ toHost = <<Frame("bound", 0, TRUE)>> /\ blocks \in Nat
      /\ host' \in {"pump", "idle", "raised"}
  BY OneFrame, Ranges DEF Rebound, process, IInv, InStep, Binding, Arrives, Frame
<1>2. toHost' = <<>>
  BY <1>1, OneFrame DEF Rebound
<1>3. QED
  BY <1>1, <1>2

\* Died: the new process has begun nothing, and a block waits for it.
LEMMA DiedNumbered ==
  ASSUME IInv, Numbered, Died
  PROVE  Numbered'
<1>1. host' = "bind" /\ block' = 0 /\ blocks' = blocks /\ blocks > 0
      /\ blocks \in Nat
  BY Ranges DEF Died, Restart, Start, IInv
<1>2. QED
  BY <1>1

\* HandlerReturns, PullRefused: a reply goes out, or the session is over.
LEMMA ReplyNumbered ==
  ASSUME IInv, Numbered, HandlerReturns \/ PullRefused
  PROVE  Numbered'
<1>1. /\ host \in {"serve", "pull"} /\ toWorker = <<>> /\ toHost' = <<>>
      /\ UNCHANGED <<block, blocks>> /\ TypeOK
  <2>1. CASE HandlerReturns
    BY <2>1 DEF HandlerReturns, IInv, InStep, Serving, process
  <2>2. CASE PullRefused
    <3>1. host = "pull" /\ Arrives("host")
      BY <2>2 DEF PullRefused
    <3>2. toWorker = <<>> /\ \E frame : toHost = <<frame>>
      BY <3>1, OneFrame DEF Arrives, IInv, InStep, Pulling, Frame
    <3>3. QED
      BY <2>2, <3>1, <3>2, OneFrame DEF PullRefused, process, IInv
  <2>3. QED
    BY <2>1, <2>2
<1>2. PICK ok \in BOOLEAN : SendReply(ok)
  BY DEF HandlerReturns, PullRefused
<1>3. CASE host' = "pump"
  <2>1. toWorker' = <<Frame("reply", call.id, ok)>>
    BY <1>1, <1>2, <1>3, OneFrame DEF SendReply, SendToWorker
  <2>2. QED
    BY <1>1, <1>3, <2>1, NumberedInCall
<1>4. CASE host' # "pump"
  BY <1>1, <1>2, <1>4, NumberedElsewhere DEF SendReply
<1>5. QED
  BY <1>3, <1>4

\* The worker answers, begins the block, or has ended it.
LEMMA MainNumbered ==
  ASSUME IInv, Numbered, WorkerAnswers \/ WorkerBegins \/ WorkerFinishes
  PROVE  Numbered'
<1>1. blocks' = blocks /\ host' = host /\ blocks \in Nat
  BY Ranges DEF WorkerAnswers, WorkerBegins, WorkerFinishes, hostVars, IInv
<1>2. CASE WorkerAnswers
  <2>1. host \in {"bind", "ask"} /\ block' = block
    BY <1>2, OneFrame DEF WorkerAnswers, Frame, IInv, TypeOK, InStep, Idle,
       Pumping, Serving, Pulling, Over, AroundBlock, InCode, InCall
  <2>2. QED
    BY <1>1, <2>1
<1>3. CASE WorkerBegins
  <2>1. /\ host = "pump" /\ toHost = <<>>
        /\ toWorker = <<Frame("exec", blocks, TRUE)>>
    BY <1>3, OneFrame DEF WorkerBegins, Frame, IInv, TypeOK, InStep, Idle,
       Asking, Binding, Pumping, Serving, Pulling, Over, AroundBlock, InCode,
       InCall
  <2>2. block' = blocks /\ toHost' = <<>> /\ toWorker' = <<>>
    BY <1>3, <2>1, OneFrame DEF WorkerBegins, Frame
  <2>3. QED
    BY <1>1, <2>1, <2>2
<1>4. CASE WorkerFinishes
  <2>1. /\ host = "pump" /\ block = blocks /\ block' = block
        /\ toWorker' = <<>>
    BY <1>4, OneFrame DEF WorkerFinishes, Frame, IInv, TypeOK, InStep, Idle,
       Asking, Binding, Pumping, Serving, Pulling, Over, AroundBlock, InCode,
       InCall
  <2>2. QED
    BY <1>1, <2>1
<1>5. QED
  BY <1>2, <1>3, <1>4

\* A call goes out, a chunk goes out, or a frame that is not a block is read.
LEMMA CallNumbered ==
  ASSUME IInv, Numbered,
         WorkerCalls \/ WorkerYields \/ WorkerStreams \/ WorkerResumes
  PROVE  Numbered'
<1>1. /\ UNCHANGED <<block, blocks>> /\ host' = host /\ TypeOK
  BY DEF WorkerCalls, WorkerYields, WorkerStreams, WorkerResumes, hostVars, IInv
<1>2. host # "bind"
  BY OneFrame DEF WorkerCalls, WorkerYields, WorkerStreams, WorkerResumes,
     IInv, InStep, Binding, Frame
<1>3. CASE host = "pump"
  <2>1. CASE WorkerCalls
    <3>1. Silent
      BY <1>3, <2>1, OneFrame DEF WorkerCalls, IInv, InStep, Pumping, AroundBlock,
         InCode, InCall
    <3>2. PICK lazy \in BOOLEAN :
            toWorker' = <<>> /\ toHost' = <<Frame("host", pending + 1, lazy)>>
      BY <2>1, <3>1, OneFrame DEF WorkerCalls
    <3>3. QED
      BY <1>1, <1>3, <3>2, NumberedInCall
  <2>2. CASE WorkerYields
    <3>1. Silent
      BY <1>3, <2>2, OneFrame DEF WorkerYields, IInv, InStep, Pumping, AroundBlock,
         InCode, InCall
    <3>2. PICK more \in BOOLEAN :
            toWorker' = <<>> /\ toHost' = <<Frame("items", Innermost, more)>>
      BY <2>2, <3>1, OneFrame DEF WorkerYields
    <3>3. QED
      BY <1>1, <1>3, <3>2, NumberedInCall
  <2>3. CASE WorkerStreams \/ WorkerResumes
    <3>1. toHost = <<>> /\ \E frame : toWorker = <<frame>>
      BY <1>3, <2>3, OneFrame DEF WorkerStreams, WorkerResumes, IInv, InStep,
         Pumping, AroundBlock, InCode, InCall
    <3>2. toHost' = <<>> /\ toWorker' = <<>>
      BY <2>3, <3>1, OneFrame DEF WorkerStreams, WorkerResumes
    <3>3. QED
      BY <1>1, <1>3, <3>2, NumberedInCall
  <2>4. QED
    BY <2>1, <2>2, <2>3
<1>4. CASE host # "pump"
  BY <1>1, <1>2, <1>4, NumberedElsewhere
<1>5. QED
  BY <1>3, <1>4

\* A step of Next, whichever it is, and a step that changes nothing.
LEMMA NextIsNumbered == IInv /\ Numbered /\ [Next]_vars => Numbered'
<1> SUFFICES ASSUME IInv, Numbered, [Next]_vars PROVE Numbered'
  OBVIOUS
<1>1. TypeOK
  BY DEF IInv
<1>2. CASE Execute
  BY <1>2, ExecuteNumbered
<1>3. CASE Ask \/ Close \/ Pull
  <2>1. UNCHANGED <<block, blocks>>
    BY <1>3 DEF Ask, Close, Pull, process
  <2>2. /\ host' \in {"ask", "raised", "closed", "pull"}
        /\ host' = "pull" => host = "serve"
    BY <1>3 DEF Ask, Close, Pull
  <2>3. QED
    BY <1>1, <2>1, <2>2, NumberedElsewhere
<1>4. CASE Rebound
  BY <1>4, ReboundNumbered
<1>5. CASE Answered \/ Broken \/ Result \/ Serve \/ Unexpected \/ PullItems
  <2>1. UNCHANGED <<block, blocks>>
    BY <1>5 DEF Answered, Broken, Result, Serve, Unexpected, PullItems, process
  <2>2. /\ host' \in {"idle", "raised", "serve"}
        /\ host' = "serve" => host \in {"pump", "pull"}
    BY <1>5 DEF Answered, Broken, Result, Serve, Unexpected, PullItems
  <2>3. QED
    BY <1>1, <2>1, <2>2, NumberedElsewhere
<1>6. CASE Died
  BY <1>6, DiedNumbered
<1>7. CASE HandlerReturns \/ PullRefused
  BY <1>7, ReplyNumbered
<1>8. CASE Fire \/ Kill \/ Die \/ Closed \/ UNCHANGED vars
  <2>1. UNCHANGED <<block, blocks, host, toWorker, toHost>>
    BY <1>8 DEF Fire, Kill, Die, Closed, vars, hostVars, process, pipes
  <2>2. QED
    BY <2>1
<1>9. CASE WorkerAnswers \/ WorkerBegins \/ WorkerFinishes
  BY <1>9, MainNumbered
<1>10. CASE WorkerCalls \/ WorkerYields \/ WorkerStreams \/ WorkerResumes
  BY <1>10, CallNumbered
<1>11. QED
  BY <1>2, <1>3, <1>4, <1>5, <1>6, <1>7, <1>8, <1>9, <1>10
     DEF Next, HostStep, Reacts, RunsCode

\* Init: no block was given and none was begun.
LEMMA InitIsNumbered == Init => Numbered
  BY DEF Init

\* Both invariants hold throughout an episode.
LEMMA NumberedAlways == Spec => [](IInv /\ Numbered)
<1>1. Init => IInv /\ Numbered
  BY InitIsInStep, InitIsNumbered
<1>2. IInv /\ Numbered /\ [Next]_vars => (IInv /\ Numbered)'
  BY NextIsInStep, NextIsNumbered
<1>3. QED
  BY <1>1, <1>2, PTL DEF Spec

\* The first state of a session is one of the contract.
LEMMA ContractInit == Init => SC!Init
  BY DEF Init, SC!Init, Executing

\* Steps under which neither the block, nor who has it, nor what came of it
\* changes.
LEMMA ContractStutter ==
  ASSUME UNCHANGED <<blocks, restarts, seen>>, Executing' = Executing
  PROVE  UNCHANGED SC!vars
  BY DEF SC!vars

\* Execute gives the block, to a new session if the last one died.
LEMMA ContractExecute ==
  ASSUME IInv, Numbered, Execute
  PROVE  SC!Give
<1>1. blocks' = blocks + 1 /\ blocks \in Nat /\ block \in Nat /\ restarts \in Nat
  BY Ranges DEF Execute, IInv
<1>2. Executing = "idle" /\ seen' = seen
  BY DEF Execute, Executing, history
<1>3. CASE Alive
  <2>1. host' = "pump" /\ block' = block /\ restarts' = restarts
    BY <1>3 DEF Execute, process
  <2>2. block' # blocks'
    BY <1>1, <2>1
  <2>3. QED
    BY <1>1, <1>2, <2>1, <2>2 DEF Executing, SC!Give
<1>4. CASE ~Alive
  <2>1. host' = "bind" /\ then' = "exec" /\ restarts' = restarts + 1
    BY <1>4 DEF Execute, Restart, Start
  <2>2. QED
    BY <1>1, <1>2, <2>1 DEF Executing, SC!Give
<1>5. QED
  BY <1>3, <1>4

\* Rebound sends the block, reports the timeout or raises.
LEMMA ContractRebound ==
  ASSUME IInv, Numbered, Rebound
  PROVE  SC!TimeOut \/ SC!End \/ UNCHANGED SC!vars
<1>1. /\ host = "bind" /\ UNCHANGED <<then, blocks, block, restarts>>
      /\ block = 0 /\ blocks > 0 /\ blocks \in Nat
  BY Ranges DEF Rebound, process, IInv
<1>2. CASE then = "exec" /\ Alive
  <2>1. host' = "pump" /\ seen' = seen
    BY <1>2 DEF Rebound, history
  <2>2. block' # blocks'
    BY <1>1
  <2>3. QED
    BY <1>1, <1>2, <2>1, <2>2 DEF Executing, SC!vars
<1>3. CASE then = "timeout"
  BY <1>1, <1>3 DEF Rebound, Executing, SC!TimeOut, SC!Observe
<1>4. CASE then = "error" \/ (then = "exec" /\ ~Alive)
  <2>1. host' = "raised" /\ seen' = seen
    BY <1>4 DEF Rebound, history
  <2>2. QED
    BY <1>1, <2>1 DEF Executing, SC!End
<1>5. QED
  BY <1>2, <1>3, <1>4 DEF IInv, TypeOK

\* The result that comes is of the block that has begun.
LEMMA ContractResult ==
  ASSUME IInv, Numbered, Result
  PROVE  SC!Return
<1>1. /\ host = "pump" /\ toHost = <<Frame("result", blocks, TRUE)>>
      /\ toWorker = <<>>
  BY OneFrame DEF Result, Arrives, Frame, IInv, InStep, Pumping, AroundBlock,
     InCode, InCall
<1>2. block = blocks /\ Head(toHost).id = blocks
  BY <1>1, OneFrame DEF Frame
<1>3. host' = "idle" /\ UNCHANGED <<blocks, restarts>>
      /\ seen' = [block |-> blocks, incarnation |-> restarts]
  BY <1>2 DEF Result
<1>4. QED
  BY <1>1, <1>2, <1>3 DEF Executing, SC!Return, SC!Observe

\* Died: the session is lost under its block.
LEMMA ContractDied ==
  ASSUME Died
  PROVE  SC!Lose
<1>1. /\ host = "pump" /\ host' = "bind" /\ then' \in {"timeout", "error"}
      /\ restarts' = restarts + 1 /\ UNCHANGED <<blocks, seen>>
  BY DEF Died, Restart, Start, history
<1>2. Executing \in {"given", "begun"} /\ Executing' = "lost"
  BY <1>1 DEF Executing
<1>3. QED
  BY <1>1, <1>2 DEF SC!Lose

\* The worker takes the block that was given, which it had not begun.
LEMMA ContractBegins ==
  ASSUME IInv, Numbered, WorkerBegins
  PROVE  SC!Begin
<1>1. /\ host = "pump" /\ toHost = <<>> /\ blocks \in Nat
      /\ toWorker = <<Frame("exec", blocks, TRUE)>>
  BY Ranges, OneFrame DEF WorkerBegins, Frame, IInv, TypeOK, InStep, Idle,
     Asking, Binding, Pumping, Serving, Pulling, Over, AroundBlock, InCode,
     InCall
<1>2. block # blocks /\ block' = blocks
  <2>1. block < blocks /\ block \in Nat
    BY <1>1, Ranges DEF IInv
  <2>2. block' = blocks
    BY <1>1, OneFrame DEF WorkerBegins, Frame
  <2>3. QED
    BY <1>1, <2>1, <2>2
<1>3. UNCHANGED <<host, blocks, restarts, seen>>
  BY DEF WorkerBegins, hostVars, history
<1>4. QED
  BY <1>1, <1>2, <1>3 DEF Executing, SC!Begin

\* Ask and Broken, Unexpected and Close: an error, or the end.
LEMMA ContractEnds ==
  ASSUME Ask \/ Broken \/ Unexpected \/ Close
  PROVE  SC!End \/ UNCHANGED SC!vars
<1>1. UNCHANGED <<blocks, restarts, seen>>
  BY DEF Ask, Broken, Unexpected, Close, history
<1>2. CASE host' \in {"raised", "closed"}
  BY <1>1, <1>2 DEF Executing, SC!End, SC!vars
<1>3. CASE host' \notin {"raised", "closed"}
  <2>1. Executing = "idle" /\ Executing' = "idle"
    BY <1>3 DEF Ask, Broken, Unexpected, Close, Executing
  <2>2. QED
    BY <1>1, <2>1, ContractStutter
<1>4. QED
  BY <1>2, <1>3

\* A host call is served inside the block: only a dead session shows.
LEMMA ContractServes ==
  ASSUME HandlerReturns \/ PullRefused \/ Serve \/ Pull \/ PullItems
         \/ Answered
  PROVE  SC!End \/ UNCHANGED SC!vars
<1>1. UNCHANGED <<blocks, block, restarts, seen>>
  BY DEF HandlerReturns, PullRefused, Serve, Pull, PullItems, Answered,
     process, history
<1>2. CASE HandlerReturns \/ PullRefused
  <2>1. host \in {"serve", "pull"} /\ host' \in {"pump", "raised"}
    BY <1>2 DEF HandlerReturns, PullRefused, SendReply
  <2>2. QED
    BY <1>1, <2>1 DEF Executing, SC!End, SC!vars
<1>3. CASE Serve \/ Pull \/ PullItems \/ Answered
  <2>1. \/ host \in {"pump", "serve", "pull"} /\ host' \in {"serve", "pull"}
        \/ host = "ask" /\ host' = "idle"
    BY <1>3 DEF Serve, Pull, PullItems, Answered
  <2>2. QED
    BY <1>1, <2>1 DEF Executing, SC!vars
<1>4. QED
  BY <1>2, <1>3

\* What the worker does inside a block, and what the timer does.
LEMMA ContractInside ==
  ASSUME Fire \/ Kill \/ Die \/ Closed \/ WorkerAnswers \/ WorkerStreams
         \/ WorkerResumes \/ RunsCode \/ UNCHANGED vars
  PROVE  UNCHANGED SC!vars
<1>1. UNCHANGED <<host, then, blocks, block, restarts, seen>>
  BY DEF Fire, Kill, Die, Closed, WorkerAnswers, WorkerStreams, WorkerResumes,
     RunsCode, WorkerFinishes, WorkerCalls, WorkerYields, vars, hostVars,
     process, history
<1>2. QED
  BY <1>1 DEF Executing, SC!vars

\* Every step of the session is one of the contract or leaves it alone.
LEMMA ContractStep ==
  ASSUME IInv, Numbered, [Next]_vars
  PROVE  [SC!Next]_(SC!vars)
<1>1. CASE Execute
  BY <1>1, ContractExecute DEF SC!Next
<1>2. CASE Rebound
  BY <1>2, ContractRebound DEF SC!Next
<1>3. CASE Result
  BY <1>3, ContractResult DEF SC!Next
<1>4. CASE Died
  BY <1>4, ContractDied DEF SC!Next
<1>5. CASE WorkerBegins
  BY <1>5, ContractBegins DEF SC!Next
<1>6. CASE Ask \/ Broken \/ Unexpected \/ Close
  BY <1>6, ContractEnds DEF SC!Next
<1>7. CASE HandlerReturns \/ PullRefused \/ Serve \/ Pull \/ PullItems
           \/ Answered
  BY <1>7, ContractServes DEF SC!Next
<1>8. CASE Fire \/ Kill \/ Die \/ Closed \/ WorkerAnswers \/ WorkerStreams
           \/ WorkerResumes \/ RunsCode \/ UNCHANGED vars
  BY <1>8, ContractInside
<1>9. QED
  BY <1>1, <1>2, <1>3, <1>4, <1>5, <1>6, <1>7, <1>8 DEF Next, HostStep, Reacts

(***************************************************************************)
(* The session implements its contract (execute, _restart and _pump of     *)
(* repl/runtime.py): the code of a block begins at most once, what is      *)
(* observed is of the block just given and of the session that ran it or   *)
(* of its replacement, and an error is the end.                            *)
(***************************************************************************)
THEOREM ContractCorrect == Spec => Contract
<1>1. Init => SC!Init
  BY ContractInit
<1>2. IInv /\ Numbered /\ [Next]_vars => [SC!Next]_(SC!vars)
  BY ContractStep
<1>3. QED
  BY <1>1, <1>2, NumberedAlways, PTL DEF Spec, Contract, SC!Spec
=============================================================================
