---------------------------- MODULE ReplSession ----------------------------
(***************************************************************************)
(* The persistent Python session: the host side (ReplRuntime in            *)
(* repl/runtime.py), the worker process (main and Session._host_fn in      *)
(* repl/worker.py), the framed pipes between them (repl/rpc.py) and the    *)
(* timer that kills a block that runs too long.                            *)
(*                                                                         *)
(* execute sends a block and pumps frames until its result.  A block may   *)
(* call a host function: the host stops the timer, runs the handler, may   *)
(* pull items of a generator that stayed in the worker, replies and arms   *)
(* a fresh timer.  The timer's thread sets `expired` and kills the process *)
(* in a second step, at any later moment; a cancel that comes after the    *)
(* first one does not stop it.  A frame is its operation, the block or     *)
(* call it names and the one bit the receiver acts on.                     *)
(***************************************************************************)
EXTENDS Naturals, Sequences

CONSTANTS
  MaxBlocks,   \* bound: calls of execute in one episode
  MaxCalls,    \* bound: host calls of one worker process
  MaxPulls,    \* bound: chunks pulled for one call
  MaxAsks,     \* bound: reads of the session between blocks
  MayDie       \* may the worker process die by itself?

ASSUME SessionAssumption ==
  /\ {MaxBlocks, MaxCalls, MaxPulls, MaxAsks} \subseteq Nat
  /\ MayDie \in BOOLEAN

VARIABLES
  host,       \* what the host thread is doing
  then,       \* what follows a restart: "exec", "timeout" or "error"
  blocks,     \* blocks given to execute
  asks,       \* reads made between blocks
  call,       \* the host call being served: its id, stream and pulls
  timer,      \* "off" or "armed"
  firing,     \* has a timer's thread passed expired.set() and not yet killed?
  expired,    \* the Event of the current execute
  restarts,   \* ReplRuntime.restarts; the incarnation of the process
  worker,     \* what the worker process is doing
  block,      \* the block it runs
  waiting,    \* ids of the host calls it waits on, the innermost last
  pending,    \* Session.pending, the last call id used
  bound,      \* has bind_context been done in this process?
  toWorker,   \* frames in the worker's stdin
  toHost,     \* frames in the worker's stdout
  seen,       \* history: last observation, its block and incarnation
  told        \* history: last incarnation the model was told about

hostVars   == <<host, then, blocks, asks, call>>
clock      == <<timer, firing, expired>>
process    == <<worker, block, waiting, pending, bound>>
pipes      == <<toWorker, toHost>>
history    == <<seen, told>>
vars == <<hostVars, clock, restarts, process, pipes, history>>

Frame(op, id, flag) == [op |-> op, id |-> id, flag |-> flag]
Frames ==
  [op : {"exec", "bind", "ask", "pull", "reply",
         "result", "bound", "answer", "host", "items"},
   id : Nat, flag : BOOLEAN]

NoCall == [id |-> 0, stream |-> FALSE, pulls |-> 0]
Alive == worker # "dead"
Innermost == waiting[Len(waiting)]
Outer == SubSeq(waiting, 1, Len(waiting) - 1)
\* The next frame the host reads is `op`; every read blocks.
Arrives(op) == toHost # <<>> /\ Head(toHost).op = op
\* readline returned nothing: rpc.ChannelClosed.
HungUp == toHost = <<>> /\ ~Alive
SendToWorker(frame) == toWorker' = Append(toWorker, frame)
-----------------------------------------------------------------------------
\* ReplRuntime.__init__ and the bind_context of Episode.
Init ==
  /\ host = "idle"
  /\ then = "exec"
  /\ blocks = 0
  /\ asks = 0
  /\ call = NoCall
  /\ timer = "off"
  /\ firing = FALSE
  /\ expired = FALSE
  /\ restarts = 0
  /\ worker = "ready"
  /\ block = 0
  /\ waiting = <<>>
  /\ pending = 0
  /\ bound = TRUE
  /\ toWorker = <<>>
  /\ toHost = <<>>
  /\ seen = [block |-> 0, incarnation |-> 0]
  /\ told = 0

\* _start: a new process, without the context.
Start(frames) ==
  /\ restarts' = restarts + 1
  /\ worker' = "ready"
  /\ block' = 0
  /\ waiting' = <<>>
  /\ pending' = 0
  /\ bound' = FALSE
  /\ toWorker' = frames
  /\ toHost' = <<>>

\* _restart up to the frame it waits for: the context is sent again.
Restart(after) ==
  /\ Start(<<Frame("bind", 0, TRUE)>>)
  /\ host' = "bind"
  /\ then' = after

\* execute: a dead session is restarted first, otherwise the block is sent.
Execute ==
  /\ host = "idle"
  /\ blocks < MaxBlocks
  /\ blocks' = blocks + 1
  /\ expired' = FALSE
  /\ \/ /\ ~Alive
        /\ Restart("exec")
        /\ UNCHANGED timer
     \/ /\ Alive
        /\ SendToWorker(Frame("exec", blocks + 1, TRUE))
        /\ host' = "pump"
        /\ timer' = "armed"
        /\ UNCHANGED <<then, restarts, process, toHost>>
  /\ UNCHANGED <<asks, call, firing, history>>

(***************************************************************************)
(* _restart returns: the block is sent, the timeout is reported (and the   *)
(* model told what it lost), or the ReplError of a dead session is raised. *)
(***************************************************************************)
Rebound ==
  /\ host = "bind"
  /\ Arrives("bound")
  /\ toHost' = Tail(toHost)
  /\ \/ /\ then = "exec"
        /\ Alive
        /\ SendToWorker(Frame("exec", blocks, TRUE))
        /\ host' = "pump"
        /\ timer' = "armed"
        /\ UNCHANGED history
     \/ /\ then = "timeout"
        /\ host' = "idle"
        /\ timer' = "off"
        /\ seen' = [block |-> blocks, incarnation |-> restarts]
        /\ told' = restarts
        /\ UNCHANGED toWorker
     \/ /\ then = "error" \/ (then = "exec" /\ ~Alive)
        /\ host' = "raised"
        /\ timer' = "off"
        /\ UNCHANGED <<toWorker, history>>
  /\ UNCHANGED <<then, blocks, asks, call, firing, expired, restarts,
                 process>>

\* submission, presentation, peek_audit: one question, one answer, no timer.
Ask ==
  /\ host = "idle"
  /\ asks < MaxAsks
  /\ asks' = asks + 1
  /\ \/ /\ Alive
        /\ SendToWorker(Frame("ask", 0, TRUE))
        /\ host' = "ask"
     \/ /\ ~Alive
        /\ host' = "raised"
        /\ UNCHANGED toWorker
  /\ UNCHANGED <<then, blocks, call, clock, restarts, process, toHost,
                 history>>

Answered ==
  /\ host = "ask"
  /\ Arrives("answer")
  /\ toHost' = Tail(toHost)
  /\ host' = "idle"
  /\ UNCHANGED <<then, blocks, asks, call, clock, restarts, process,
                 toWorker, history>>

(***************************************************************************)
(* The process is gone where no handler of ChannelClosed stands: a read    *)
(* between blocks, the bind of a restart, and a pull, whose handler fails  *)
(* and whose failure cannot be sent either.                                *)
(***************************************************************************)
Broken ==
  /\ host \in {"ask", "bind", "pull"}
  /\ HungUp
  /\ host' = "raised"
  /\ timer' = "off"
  /\ UNCHANGED <<then, blocks, asks, call, firing, expired, restarts,
                 process, pipes, history>>

\* close: the process, if it still runs, is stopped for good.
Close ==
  /\ host \in {"idle", "raised"}
  /\ host' = "closed"
  /\ worker' = "dead"
  /\ UNCHANGED <<then, blocks, asks, call, clock, restarts, block, waiting,
                 pending, bound, pipes, history>>
-----------------------------------------------------------------------------
\* _pump: the result of the block; execute disarms and returns it.
Result ==
  /\ host = "pump"
  /\ Arrives("result")
  /\ toHost' = Tail(toHost)
  /\ host' = "idle"
  /\ timer' = "off"
  /\ seen' = [block |-> Head(toHost).id, incarnation |-> restarts]
  /\ UNCHANGED <<then, blocks, asks, call, firing, expired, restarts,
                 process, toWorker, told>>

\* Mutant: the timer keeps running while the host works.
ServeOnTheClock ==
  /\ host = "pump"
  /\ Arrives("host")
  /\ toHost' = Tail(toHost)
  /\ host' = "serve"
  /\ call' = [id |-> Head(toHost).id, stream |-> Head(toHost).flag, pulls |-> 0]
  /\ UNCHANGED <<then, blocks, asks, clock, restarts, process,
                 toWorker, history>>

\* _pump: a host call; pause(), then _serve runs the handler.
Serve ==
  /\ host = "pump"
  /\ Arrives("host")
  /\ toHost' = Tail(toHost)
  /\ host' = "serve"
  /\ timer' = "off"
  /\ call' = [id |-> Head(toHost).id, stream |-> Head(toHost).flag, pulls |-> 0]
  /\ UNCHANGED <<then, blocks, asks, firing, expired, restarts,
                 process, toWorker, history>>

\* Mutant: execute turns the broken protocol into an observation.
UnexpectedObserved ==
  /\ host = "pump"
  /\ Arrives("items")
  /\ toHost' = Tail(toHost)
  /\ host' = "idle"
  /\ timer' = "off"
  /\ seen' = [block |-> blocks, incarnation |-> restarts]
  /\ UNCHANGED <<then, blocks, asks, call, firing, expired, restarts,
                 process, toWorker, told>>

\* _pump: any other frame is a ReplError, and it leaves execute.
Unexpected ==
  /\ host = "pump"
  /\ Arrives("items")
  /\ toHost' = Tail(toHost)
  /\ host' = "raised"
  /\ timer' = "off"
  /\ UNCHANGED <<then, blocks, asks, call, firing, expired, restarts,
                 process, toWorker, history>>

\* Mutant: after an unexplained death the block is sent again.
DiedRetries ==
  /\ host = "pump"
  /\ HungUp
  /\ Restart(IF expired THEN "timeout" ELSE "exec")
  /\ UNCHANGED <<blocks, asks, call, clock, history>>

\* _pump: the process died, by its timer or by itself.
Died ==
  /\ host = "pump"
  /\ HungUp
  /\ Restart(IF expired THEN "timeout" ELSE "error")
  /\ UNCHANGED <<blocks, asks, call, clock, history>>

\* Mutant: the clock is not started again after a host call.
SendReplyUntimed(ok) ==
  \/ /\ Alive
     /\ SendToWorker(Frame("reply", call.id, ok))
     /\ host' = "pump"
     /\ UNCHANGED timer
  \/ /\ ~Alive
     /\ host' = "raised"
     /\ timer' = "off"
     /\ UNCHANGED toWorker

(***************************************************************************)
(* _serve sends its reply and _pump resumes the clock; to a dead session   *)
(* _send raises a ReplError, which execute lets through.                   *)
(***************************************************************************)
SendReply(ok) ==
  \/ /\ Alive
     /\ SendToWorker(Frame("reply", call.id, ok))
     /\ host' = "pump"
     /\ timer' = "armed"
  \/ /\ ~Alive
     /\ host' = "raised"
     /\ timer' = "off"
     /\ UNCHANGED toWorker

\* _serve: the handler returned, raised, or does not exist.
HandlerReturns ==
  /\ host = "serve"
  /\ \E ok \in BOOLEAN : SendReply(ok)
  /\ call' = NoCall
  /\ UNCHANGED <<then, blocks, asks, firing, expired, restarts,
                 process, toHost, history>>

\* _RemoteIterator.__next__ with an empty buffer: _pull asks for a chunk.
Pull ==
  /\ host = "serve"
  /\ call.stream
  /\ call.pulls < MaxPulls
  /\ Alive
  /\ SendToWorker(Frame("pull", call.id, TRUE))
  /\ host' = "pull"
  /\ call' = [call EXCEPT !.pulls = @ + 1]
  /\ UNCHANGED <<then, blocks, asks, clock, restarts, process, toHost,
                 history>>

\* _pull returns the chunk, or raises the generator's own error.
PullItems ==
  /\ host = "pull"
  /\ Arrives("items")
  /\ toHost' = Tail(toHost)
  /\ host' = "serve"
  /\ call' = [call EXCEPT !.stream = Head(toHost).flag]
  /\ UNCHANGED <<then, blocks, asks, clock, restarts, process,
                 toWorker, history>>

(***************************************************************************)
(* _pull reads the host call that the generator itself makes: a ReplError  *)
(* in the handler, which no handler catches, so the call being served      *)
(* fails and the nested one is never served.                               *)
(***************************************************************************)
PullRefused ==
  /\ host = "pull"
  /\ Arrives("host")
  /\ toHost' = Tail(toHost)
  /\ SendReply(FALSE)
  /\ call' = NoCall
  /\ UNCHANGED <<then, blocks, asks, firing, expired, restarts,
                 process, history>>
-----------------------------------------------------------------------------
\* kill_it, first step: the limit passed and this execute is told so.
Fire ==
  /\ timer = "armed"
  /\ ~firing
  /\ timer' = "off"
  /\ firing' = TRUE
  /\ expired' = TRUE
  /\ UNCHANGED <<hostVars, restarts, process, pipes, history>>

\* kill_it, second step: whatever process the runtime holds by now dies.
Kill ==
  /\ firing
  /\ firing' = FALSE
  /\ worker' = "dead"
  /\ UNCHANGED <<hostVars, timer, expired, restarts,  block, waiting,
                 pending, bound, pipes, history>>

\* The process dies by itself: killed for its memory, os._exit in a block.
Die ==
  /\ MayDie
  /\ Alive
  /\ worker' = "dead"
  /\ UNCHANGED <<hostVars, clock, restarts,  block, waiting, pending,
                 bound, pipes, history>>
-----------------------------------------------------------------------------
\* main: a frame that does not run the model's code is answered at once.
WorkerAnswers ==
  /\ worker = "ready"
  /\ toWorker # <<>>
  /\ \/ /\ Head(toWorker).op = "bind"
        /\ bound' = TRUE
        /\ toHost' = Append(toHost, Frame("bound", 0, TRUE))
     \/ /\ Head(toWorker).op = "ask"
        /\ toHost' = Append(toHost, Frame("answer", 0, TRUE))
        /\ UNCHANGED bound
  /\ toWorker' = Tail(toWorker)
  /\ UNCHANGED <<hostVars, clock, restarts,  worker, block, waiting,
                 pending, history>>

\* main: Session.execute begins.
WorkerBegins ==
  /\ worker = "ready"
  /\ toWorker # <<>>
  /\ Head(toWorker).op = "exec"
  /\ worker' = "running"
  /\ block' = Head(toWorker).id
  /\ toWorker' = Tail(toWorker)
  /\ UNCHANGED <<hostVars, clock, restarts,  waiting, pending, bound,
                 toHost, history>>

\* The block ended, with or without an error: its result goes out.
WorkerFinishes ==
  /\ worker = "running"
  /\ worker' = "ready"
  /\ toHost' = Append(toHost, Frame("result", block, TRUE))
  /\ UNCHANGED <<hostVars, clock, restarts,  block, waiting, pending,
                 bound, toWorker, history>>

(***************************************************************************)
(* _host_fn: the code calls a host function, possibly with a generator for *)
(* an argument; the code of a generator being pulled may call one as well. *)
(***************************************************************************)
WorkerCalls ==
  /\ worker \in {"running", "streaming"}
  /\ pending < MaxCalls
  /\ \E lazy \in BOOLEAN :
       /\ lazy => worker = "running"
       /\ toHost' = Append(toHost, Frame("host", pending + 1, lazy))
  /\ pending' = pending + 1
  /\ waiting' = Append(waiting, pending + 1)
  /\ worker' = "calling"
  /\ UNCHANGED <<hostVars, clock, restarts,  block, bound, toWorker,
                 history>>

\* _host_fn: a pull runs the generator, inside the pending call.
WorkerStreams ==
  /\ worker = "calling"
  /\ toWorker # <<>>
  /\ Head(toWorker).op = "pull"
  /\ worker' = "streaming"
  /\ toWorker' = Tail(toWorker)
  /\ UNCHANGED <<hostVars, clock, restarts,  block, waiting, pending,
                 bound, toHost, history>>

\* _host_fn: the chunk is complete, short (the stream is over) or failed.
WorkerYields ==
  /\ worker = "streaming"
  /\ worker' = "calling"
  /\ \E more \in BOOLEAN :
       toHost' = Append(toHost, Frame("items", Innermost, more))
  /\ UNCHANGED <<hostVars, clock, restarts,  block, waiting, pending,
                 bound, toWorker, history>>

\* Mutant: the code that made the innermost call is taken for the block.
WorkerResumesBlock ==
  /\ worker = "calling"
  /\ toWorker # <<>>
  /\ Head(toWorker).op # "pull"
  /\ toWorker' = Tail(toWorker)
  /\ waiting' = Outer
  /\ worker' = "running"
  /\ UNCHANGED <<hostVars, clock, restarts,  block, pending, bound,
                 toHost, history>>

(***************************************************************************)
(* _host_fn: anything but a pull ends the call that reads it.  A reply is  *)
(* its value or its error, whichever call it names; another frame raises.  *)
(***************************************************************************)
WorkerResumes ==
  /\ worker = "calling"
  /\ toWorker # <<>>
  /\ Head(toWorker).op # "pull"
  /\ toWorker' = Tail(toWorker)
  /\ waiting' = Outer
  /\ worker' = IF Outer = <<>> THEN "running" ELSE "streaming"
  /\ UNCHANGED <<hostVars, clock, restarts,  block, pending, bound,
                 toHost, history>>
-----------------------------------------------------------------------------
HostStep ==
  Rebound \/ Answered \/ Broken \/ Result \/ Serve \/ Unexpected \/ Died
  \/ HandlerReturns \/ PullItems \/ PullRefused
Reacts == WorkerAnswers \/ WorkerBegins \/ WorkerStreams \/ WorkerResumes
RunsCode == WorkerFinishes \/ WorkerCalls \/ WorkerYields
Closed == host = "closed" /\ UNCHANGED vars

Next ==
  \/ Execute \/ Ask \/ Close \/ HostStep \/ Pull
  \/ Fire \/ Kill \/ Die
  \/ Reacts \/ RunsCode
  \/ Closed

Spec == Init /\ [][Next]_vars

(***************************************************************************)
(* The host and the worker's frame loop go on, a handler returns (every    *)
(* one ends by its own limits), a timer fires and its thread kills.  The   *)
(* model's code owes nothing: a block may run forever, between host calls. *)
(* The exception is the code of a generator while the host pulls from it:  *)
(* no timer is armed then, and execute hangs for good if it never yields.  *)
(***************************************************************************)
FairSpec ==
  /\ Spec
  /\ WF_vars(HostStep) /\ WF_vars(Reacts) /\ WF_vars(WorkerYields)
  /\ WF_vars(Fire) /\ WF_vars(Kill)
-----------------------------------------------------------------------------
\* TypeOK: the types, and which calls the worker waits on in which phase.
TypeOK ==
  /\ host \in {"idle", "pump", "serve", "pull", "bind", "ask", "raised", "closed"}
  /\ then \in {"exec", "timeout", "error"}
  /\ blocks \in 0 .. MaxBlocks
  /\ asks \in 0 .. MaxAsks
  /\ call \in [id : 0 .. MaxCalls, stream : BOOLEAN, pulls : 0 .. MaxPulls]
  /\ timer \in {"off", "armed"}
  /\ firing \in BOOLEAN
  /\ expired \in BOOLEAN
  /\ restarts \in Nat
  /\ worker \in {"dead", "ready", "running", "calling", "streaming"}
  /\ block \in 0 .. MaxBlocks
  /\ waiting \in Seq(1 .. MaxCalls)
  /\ worker \in {"ready", "running"} => waiting = <<>>
  /\ worker \in {"calling", "streaming"} => waiting # <<>>
  /\ pending \in 0 .. MaxCalls
  /\ bound \in BOOLEAN
  /\ toWorker \in Seq(Frames)
  /\ toHost \in Seq(Frames)
  /\ seen \in [block : 0 .. MaxBlocks, incarnation : 0 .. restarts]
  /\ told \in 0 .. restarts

(***************************************************************************)
(* "The clock measures the model's code, not the harness's work": no timer *)
(* is armed while a handler runs, however often a block calls and is       *)
(* pulled from, and while a block runs with the host waiting for it a      *)
(* timer is armed, or has fired and is about to kill.                      *)
(***************************************************************************)
ClockMeasuresCode ==
  /\ host \in {"idle", "serve", "pull", "ask", "raised"} => timer = "off"
  /\ worker = "running" /\ host = "pump" /\ toHost = <<>>
       => timer = "armed" \/ firing

(***************************************************************************)
(* The observation execute returns is that of the block it was given,      *)
(* although frames carry no block, kills strike late and a nested call     *)
(* desynchronises the two sides: no result of an earlier block is left     *)
(* for a later one.                                                        *)
(***************************************************************************)
OwnObservation == host = "idle" => seen.block = blocks

(***************************************************************************)
(* A host call never returns the value of another one, although _host_fn   *)
(* reads a reply without looking at its id, and a chunk pulled for a call  *)
(* comes from that call's generator.                                       *)
(***************************************************************************)
ValueReachesItsCall ==
  /\ worker = "calling" /\ toWorker # <<>> =>
       LET frame == Head(toWorker)
       IN  frame.op = "pull" \/ (frame.op = "reply" /\ frame.flag)
             => frame.id = Innermost
  /\ host = "pull" /\ Arrives("items") => Head(toHost).id = call.id

(***************************************************************************)
(* "A session that comes back without it is unusable": no block ever runs  *)
(* in a process whose context was not bound, however the process before    *)
(* it died and however many times.                                         *)
(***************************************************************************)
NoBlockWithoutContext ==
  worker \in {"running", "calling", "streaming"} => bound

(***************************************************************************)
(* The two sides stay in step over an unnumbered, reentrant channel and    *)
(* across restarts: an observation is that of the block asked for, a value *)
(* goes to the call it answers, a block runs in a session with its context. *)
(***************************************************************************)
ChannelInStep == OwnObservation /\ ValueReachesItsCall /\ NoBlockWithoutContext

(***************************************************************************)
(* execute comes back: whatever the model's code does between host calls,  *)
(* and whenever the process dies, the episode gets an observation or an    *)
(* error.  (Blocks that go on calling the host are bounded by MaxCalls.)   *)
(***************************************************************************)
Back == host \in {"idle", "raised", "closed"}
ExecuteReturns == (~Back) ~> Back

(***************************************************************************)
(* The session implements its contract: SessionContract forgets the two    *)
(* processes, the pipes, host calls and the timer.  A block's code begins  *)
(* at most once, however often the process is restarted around it, and     *)
(* what execute returns is of that block and of the session that ran it or *)
(* of its replacement (execute, _restart and _pump of ReplRuntime).        *)
(***************************************************************************)
Executing ==
  CASE host \in {"raised", "closed"} -> "over"
    [] host \in {"idle", "ask"} -> "idle"
    [] host = "bind" -> IF then = "exec" THEN "given" ELSE "lost"
    [] OTHER -> IF block = blocks THEN "begun" ELSE "given"

SC == INSTANCE SessionContract WITH
        given <- blocks,
        state <- Executing,
        sessions <- restarts,
        observed <- seen

Contract == SC!Spec
-----------------------------------------------------------------------------
(***************************************************************************)
(* What the code's own words say of the session, and it does not do.       *)
(*                                                                         *)
(* rpc.py calls the channel "bidirectional and reentrant", and execute     *)
(* "never raises for errors in the code": the host should never meet a     *)
(* frame it does not expect.  It does, when a generator calls the host.    *)
(***************************************************************************)
NoUnexpectedFrame == ~(host = "pump" /\ Arrives("items"))

(***************************************************************************)
(* _restart and the module's docstring: the variables are gone "and [the   *)
(* model] is told so".  A process that died between two blocks, killed by  *)
(* its late timer for instance, is replaced without a word.                *)
(***************************************************************************)
LossIsTold == seen.incarnation <= told
=============================================================================
