-------------------------------- MODULE Agent --------------------------------
(***************************************************************************)
(* A request's way through the agent: the receivers (src/src/server.rs and *)
(* src/src/grpc.rs), each with a bounded queue and a worker pool of its    *)
(* own, the forwarder (src/src/forward.rs), the spool and the shutdown     *)
(* (src/src/main.rs).  The spool is the abstract Outbox, which module      *)
(* Spool is shown to implement: a push is refused, or stores the payload   *)
(* and then accepts it, and the draining task delivers and discards.       *)
(*                                                                         *)
(* A payload stands for one client request.  The connection, the queue and *)
(* the worker of a request are separate: a client may hang up while its    *)
(* job is queued or running, and the job goes on.                          *)
(***************************************************************************)
EXTENDS Outbox, Integers, Sequences

CONSTANTS
    Transports,        \* the OTLP/HTTP and OTLP/gRPC receivers
    Via,               \* the transport of each payload
    Workers, Pool,     \* the workers, and the transport each one serves
    channel_capacity,
    Unreadable,        \* requests the receiver turns away: wrong path, too large, bad frame
    Malformed,         \* payloads the parse stage cannot walk
    NoPayload,
    MaxStops,          \* bound on shutdowns and crashes
    MaxPanics          \* bound on panicking workers

ASSUME AgentAssumption ==
    /\ Via \in [Payloads -> Transports] /\ Pool \in [Workers -> Transports]
    /\ channel_capacity \in Nat
    /\ NoPayload \notin Payloads
    /\ MaxStops \in Nat /\ MaxPanics \in Nat

VARIABLES
    mode,       \* "down", "up", or "stopping" after the shutdown signal
    forwarding, \* a forward endpoint is configured
    spool,      \* the spool is open
    drainer,    \* where the draining task is, and with which payload
    flusher,    \* the flush task of the metrics
    conn,       \* each request's connection
    reply,      \* what the client was told
    queue,      \* the ingest->worker queue of each transport
    worker,     \* what each worker is doing, and for which job
    verdict,    \* the oneshot channel of each job
    arrived,    \* payloads the destination has received
    stops, panics

taskVars   == <<drainer, flusher>>
serverVars == <<conn, reply, queue, worker, verdict>>
vars == <<mode, forwarding, spool, taskVars, serverVars, arrived, stops, panics, outboxVars>>

\* bounded(capacity.max(1))
Capacity == IF channel_capacity < 1 THEN 1 ELSE channel_capacity

IdleWorker == [pc |-> "idle", job |-> NoPayload]
AtRest(pc) == [pc |-> pc, job |-> NoPayload]
Running    == mode # "down"
Open(p)    == conn[p] \in {"reading", "sending", "waiting"}

\* The queue is open as long as one worker holds its receiving end.
Served(t)  == \E w \in Workers : Pool[w] = t /\ worker[w].pc # "dead"

Init ==
    /\ OutboxInit
    /\ mode = "down" /\ forwarding \in BOOLEAN /\ spool = FALSE
    /\ drainer = AtRest("stopped") /\ flusher = "stopped"
    /\ conn = [p \in Payloads |-> "new"]
    /\ reply = [p \in Payloads |-> "none"]
    /\ queue = [t \in Transports |-> <<>>]
    /\ worker = [w \in Workers |-> IdleWorker]
    /\ verdict = [p \in Payloads |-> "none"]
    /\ arrived = {} /\ stops = 0 /\ panics = 0

-----------------------------------------------------------------------------
(* The process *)

\* A spool that cannot be opened is done without; there is none to open when
\* nothing is forwarded.  Without a spool the drainer waits for the signal.
Start ==
    /\ mode = "down" /\ mode' = "up"
    /\ spool' \in (IF forwarding THEN BOOLEAN ELSE {FALSE})
    /\ drainer' = AtRest("wait") /\ flusher' = "running"
    /\ UNCHANGED <<forwarding, serverVars, arrived, stops, panics, outboxVars>>

Shutdown ==
    /\ mode = "up" /\ mode' = "stopping"
    /\ stops < MaxStops /\ stops' = stops + 1
    /\ UNCHANGED <<forwarding, spool, taskVars, serverVars, arrived, panics, outboxVars>>

\* Connections, queued jobs, running jobs and tasks end with the process.
ProcessEnds ==
    /\ mode' = "down" /\ spool' = FALSE
    /\ drainer' = AtRest("stopped") /\ flusher' = "stopped"
    /\ conn' = [p \in Payloads |-> IF Open(p) THEN "gone" ELSE conn[p]]
    /\ queue' = [t \in Transports |-> <<>>]
    /\ worker' = [w \in Workers |-> IdleWorker]
    /\ verdict' = [p \in Payloads |-> "none"]
    /\ UNCHANGED <<forwarding, reply, arrived, panics, outboxVars>>

\* main joins both receivers, the flush task and the drainer; GracefulShutdown
\* waits for the open connections of each receiver.
Exit ==
    /\ mode = "stopping"
    /\ \A p \in Payloads : ~Open(p)
    /\ drainer.pc = "stopped" /\ flusher = "stopped"
    /\ ProcessEnds /\ UNCHANGED stops

\* The final flush; what the flush task counts is in module Metrics.
FlusherStops ==
    /\ mode = "stopping" /\ flusher = "running"
    /\ flusher' = "stopped"
    /\ UNCHANGED <<mode, forwarding, spool, drainer, serverVars, arrived, stops, panics, outboxVars>>

Crash ==
    /\ Running
    /\ stops < MaxStops /\ stops' = stops + 1
    /\ ProcessEnds

-----------------------------------------------------------------------------
(* The receivers: handle, handle_grpc and submit *)

\* After the shutdown signal no connection is accepted.
Connect(p) ==
    /\ mode = "up" /\ conn[p] = "new"
    /\ conn' = [conn EXCEPT ![p] = "reading"]
    /\ UNCHANGED <<mode, forwarding, spool, taskVars, reply, queue, worker, verdict, arrived, stops, panics, outboxVars>>

\* The whole body is read, or what was read is turned away.
Arrive(p) ==
    /\ Running /\ conn[p] = "reading"
    /\ IF p \in Unreadable
       THEN /\ conn' = [conn EXCEPT ![p] = "done"]
            /\ reply' = [reply EXCEPT ![p] = "refused"]
       ELSE conn' = [conn EXCEPT ![p] = "sending"] /\ UNCHANGED reply
    /\ UNCHANGED <<mode, forwarding, spool, taskVars, queue, worker, verdict, arrived, stops, panics, outboxVars>>

\* Mutant: one job more than the channel holds.
EnqueueOneMore(p) ==
    /\ Running /\ conn[p] = "sending"
    /\ Served(Via[p]) /\ Len(queue[Via[p]]) <= Capacity
    /\ queue' = [queue EXCEPT ![Via[p]] = Append(@, p)]
    /\ conn' = [conn EXCEPT ![p] = "waiting"]
    /\ UNCHANGED <<mode, forwarding, spool, taskVars, reply, worker, verdict, arrived, stops, panics, outboxVars>>

\* A bounded send: waits while the queue is full.
Enqueue(p) ==
    /\ Running /\ conn[p] = "sending"
    /\ Served(Via[p]) /\ Len(queue[Via[p]]) < Capacity
    /\ queue' = [queue EXCEPT ![Via[p]] = Append(@, p)]
    /\ conn' = [conn EXCEPT ![p] = "waiting"]
    /\ UNCHANGED <<mode, forwarding, spool, taskVars, reply, worker, verdict, arrived, stops, panics, outboxVars>>

\* The last receiver of the queue is gone with its worker: send fails.
EnqueueFails(p) ==
    /\ Running /\ conn[p] = "sending"
    /\ ~Served(Via[p])
    /\ conn' = [conn EXCEPT ![p] = "done"]
    /\ reply' = [reply EXCEPT ![p] = "failed"]
    /\ UNCHANGED <<mode, forwarding, spool, taskVars, queue, worker, verdict, arrived, stops, panics, outboxVars>>

Respond(p) ==
    /\ Running /\ conn[p] = "waiting" /\ verdict[p] # "none"
    /\ conn' = [conn EXCEPT ![p] = "done"]
    /\ reply' = [reply EXCEPT ![p] = verdict[p]]
    /\ UNCHANGED <<mode, forwarding, spool, taskVars, queue, worker, verdict, arrived, stops, panics, outboxVars>>

\* The handler of a connection that closes is dropped; its job is not.
ClientHangsUp(p) ==
    /\ Running /\ Open(p)
    /\ conn' = [conn EXCEPT ![p] = "gone"]
    /\ UNCHANGED <<mode, forwarding, spool, taskVars, reply, queue, worker, verdict, arrived, stops, panics, outboxVars>>

-----------------------------------------------------------------------------
(* A pipeline worker: the loop of spawn_pool around run *)

At(w, pc)   == Running /\ worker[w].pc = pc
Goto(w, pc) == worker' = [worker EXCEPT ![w].pc = pc]

\* The job is answered (its receiver may have gone) and the next one taken.
Answer(w, v) ==
    /\ verdict' = [verdict EXCEPT ![worker[w].job] = v]
    /\ worker' = [worker EXCEPT ![w] = IdleWorker]

\* Mutant: looks at the first job without removing it.
TakePeeks(w) ==
    /\ At(w, "idle") /\ queue[Pool[w]] # <<>>
    /\ worker' = [worker EXCEPT ![w] = [pc |-> "process", job |-> Head(queue[Pool[w]])]]
    /\ UNCHANGED <<mode, forwarding, spool, taskVars, conn, reply, queue, verdict, arrived, stops, panics, outboxVars>>

Take(w) ==
    /\ At(w, "idle") /\ queue[Pool[w]] # <<>>
    /\ worker' = [worker EXCEPT ![w] = [pc |-> "process", job |-> Head(queue[Pool[w]])]]
    /\ queue' = [queue EXCEPT ![Pool[w]] = Tail(@)]
    /\ UNCHANGED <<mode, forwarding, spool, taskVars, conn, reply, verdict, arrived, stops, panics, outboxVars>>

\* Pipeline::process and what run makes of it before the first await.
Process(w) ==
    /\ At(w, "process")
    /\ \/ worker[w].job \in Malformed /\ Answer(w, "malformed")
       \/ worker[w].job \notin Malformed /\ ~forwarding /\ Answer(w, "accepted")
       \/ worker[w].job \notin Malformed /\ forwarding /\ Goto(w, "forward") /\ UNCHANGED verdict
    /\ UNCHANGED <<mode, forwarding, spool, taskVars, conn, reply, queue, arrived, stops, panics, outboxVars>>

\* A panic ends the worker for good and drops its end of the oneshot channel.
Panic(w) ==
    /\ At(w, "process")
    /\ panics < MaxPanics /\ panics' = panics + 1
    /\ verdict' = [verdict EXCEPT ![worker[w].job] = "failed"]
    /\ worker' = [worker EXCEPT ![w] = [pc |-> "dead", job |-> NoPayload]]
    /\ UNCHANGED <<mode, forwarding, spool, taskVars, conn, reply, queue, arrived, stops, outboxVars>>

ForwardOk(w) ==
    /\ At(w, "forward")
    /\ arrived' = arrived \cup {worker[w].job}
    /\ Answer(w, "accepted")
    /\ UNCHANGED <<mode, forwarding, spool, taskVars, conn, reply, queue, stops, panics, outboxVars>>

\* Mutant: accepts without a spool to hold the payload.
ForwardErrAccepts(w) ==
    /\ At(w, "forward")
    /\ IF spool THEN Goto(w, "push") /\ UNCHANGED verdict ELSE Answer(w, "accepted")
    /\ UNCHANGED <<mode, forwarding, spool, taskVars, conn, reply, queue, arrived, stops, panics, outboxVars>>

\* Mutant: runs the job again, on the worker, until the destination is up.
ForwardErrRetries(w) ==
    /\ At(w, "forward") /\ Goto(w, "process")
    /\ arrived' \in {arrived, arrived \cup {worker[w].job}}
    /\ UNCHANGED <<mode, forwarding, spool, taskVars, conn, reply, queue, verdict, stops, panics, outboxVars>>

\* The destination is down, refuses, or its answer is lost.
ForwardErr(w) ==
    /\ At(w, "forward")
    /\ arrived' \in {arrived, arrived \cup {worker[w].job}}
    /\ IF spool THEN Goto(w, "push") /\ UNCHANGED verdict ELSE Answer(w, "failed")
    /\ UNCHANGED <<mode, forwarding, spool, taskVars, conn, reply, queue, stops, panics, outboxVars>>

\* push returns Full or Io.
PushRefused(w) ==
    /\ At(w, "push")
    /\ Answer(w, "failed")
    /\ UNCHANGED <<mode, forwarding, spool, taskVars, conn, reply, queue, arrived, stops, panics, outboxVars>>

PushStored(w) ==
    /\ At(w, "push") /\ Goto(w, "publish")
    /\ Store(worker[w].job)
    /\ UNCHANGED <<mode, forwarding, spool, taskVars, conn, reply, queue, verdict, arrived, stops, panics>>

\* Mutant: answers with the error of the forward.
PushAcceptedFails(w) ==
    /\ At(w, "publish")
    /\ Accept(worker[w].job)
    /\ Answer(w, "failed")
    /\ UNCHANGED <<mode, forwarding, spool, taskVars, conn, reply, queue, arrived, stops, panics>>

PushAccepted(w) ==
    /\ At(w, "publish")
    /\ Accept(worker[w].job)
    /\ Answer(w, "accepted")
    /\ UNCHANGED <<mode, forwarding, spool, taskVars, conn, reply, queue, arrived, stops, panics>>

-----------------------------------------------------------------------------
(* The draining task: run_drain_loop around drain_once, as the outbox       *)
(* promises it.  A payload a worker has stored and not yet published is not *)
(* in the drainer's reach.                                                  *)

Published(p) == p \in durable /\ \A w \in Workers : worker[w].job # p

Draining(pc) == Running /\ drainer.pc = pc

\* The head of the queue is read and sent.  A pass that finds nothing, or a head
\* it cannot read, changes nothing.
DrainPick(p) ==
    /\ Draining("wait") /\ spool /\ Published(p)
    /\ drainer' = [pc |-> "forward", job |-> p]
    /\ UNCHANGED <<mode, forwarding, spool, flusher, serverVars, arrived, stops, panics, outboxVars>>

DrainDeliver ==
    /\ Draining("forward")
    /\ Deliver(drainer.job)
    /\ arrived' = arrived \cup {drainer.job}
    /\ drainer' = [drainer EXCEPT !.pc = "discard"]
    /\ UNCHANGED <<mode, forwarding, spool, flusher, serverVars, stops, panics>>

\* The destination is down, refuses, or its answer is lost.
DrainRetry ==
    /\ Draining("forward")
    /\ \/ UNCHANGED <<arrived, outboxVars>>
       \/ arrived' = arrived \cup {drainer.job} /\ Deliver(drainer.job)
    /\ drainer' = AtRest("wait")
    /\ UNCHANGED <<mode, forwarding, spool, flusher, serverVars, stops, panics>>

DrainDiscard ==
    /\ Draining("discard")
    /\ Discard(drainer.job)
    /\ drainer' = AtRest("wait")
    /\ UNCHANGED <<mode, forwarding, spool, flusher, serverVars, arrived, stops, panics>>

\* Mutant: the signal is looked at once the spool is empty.
DrainStopsWhenEmpty ==
    /\ mode = "stopping" /\ drainer.pc = "wait"
    /\ spool => durable = {}
    /\ drainer' = AtRest("stopped")
    /\ UNCHANGED <<mode, forwarding, spool, flusher, serverVars, arrived, stops, panics, outboxVars>>

\* The signal is looked at between two passes only: never during a forward.
DrainStops ==
    /\ mode = "stopping" /\ drainer.pc = "wait"
    /\ drainer' = AtRest("stopped")
    /\ UNCHANGED <<mode, forwarding, spool, flusher, serverVars, arrived, stops, panics, outboxVars>>

-----------------------------------------------------------------------------
Receive(p)    == Arrive(p) \/ Enqueue(p) \/ EnqueueFails(p) \/ Respond(p)
WorkerStep(w) ==
    \/ Take(w) \/ Process(w) \/ ForwardOk(w) \/ ForwardErr(w)
    \/ PushRefused(w) \/ PushStored(w) \/ PushAccepted(w)

DrainStep ==
    \/ DrainDeliver \/ DrainRetry \/ DrainDiscard
    \/ \E p \in Payloads : DrainPick(p)

Next ==
    \/ Start \/ Shutdown \/ Exit \/ Crash
    \/ \E p \in Payloads : Connect(p) \/ Receive(p) \/ ClientHangsUp(p)
    \/ \E w \in Workers : WorkerStep(w) \/ Panic(w)
    \/ DrainStep \/ DrainStops \/ FlusherStops

Spec == Init /\ [][Next]_vars

\* The runtime polls every ready task.  A client sends the rest of its request,
\* and a forward, a worker's or the drainer's, returns, with or without success:
\* neither has a timeout, so that this is the doing of the client and of the
\* destination.  Between two passes the drainer selects the signal or the end of
\* its sleep: with the signal there, the sleep that follows a retry is not over
\* when the two are polled, and the empty one that follows a delivery loses the
\* draw sooner or later, so that the signal is seen if the drainer keeps passing.
FairSpec ==
    /\ Spec
    /\ WF_vars(Exit) /\ WF_vars(FlusherStops)
    /\ WF_vars(DrainStep) /\ SF_vars(DrainStops)
    /\ \A p \in Payloads : WF_vars(Receive(p))
    /\ \A w \in Workers : WF_vars(WorkerStep(w))

-----------------------------------------------------------------------------
(* Properties *)

\* The state of the receivers, the queues and the workers has its type.
TypeOK ==
    /\ mode \in {"down", "up", "stopping"} /\ forwarding \in BOOLEAN /\ spool \in BOOLEAN
    /\ drainer \in [pc : {"wait", "forward", "discard", "stopped"},
                    job : Payloads \cup {NoPayload}]
    /\ flusher \in {"running", "stopped"}
    /\ conn \in [Payloads -> {"new", "reading", "sending", "waiting", "done", "gone"}]
    /\ reply \in [Payloads -> {"none", "accepted", "malformed", "failed", "refused"}]
    /\ queue \in [Transports -> Seq(Payloads)]
    /\ \A t \in Transports : Len(queue[t]) <= Capacity
    /\ worker \in [Workers -> [pc : {"idle", "process", "forward", "push", "publish", "dead"},
                               job : Payloads \cup {NoPayload}]]
    /\ verdict \in [Payloads -> {"none", "accepted", "malformed", "failed"}]
    /\ durable \subseteq Payloads /\ accepted \subseteq Payloads
    /\ delivered \subseteq Payloads /\ arrived \subseteq Payloads
    /\ stops \in 0 .. MaxStops /\ panics \in 0 .. MaxPanics

\* "Never a false accept" (server.rs line 121): a client told "accepted" by an
\* agent that forwards has its payload at the destination or on stable storage,
\* whatever crashes, hangs up or is shut down between the steps.
NoFalseAccept ==
    forwarding => \A p \in Payloads : reply[p] = "accepted" => p \in arrived \cup durable

\* A client told to retry is not told so of a payload the spool took: what the
\* agent holds and what the client sends again do not overlap.
RefusedNotHeld == \A p \in Payloads : reply[p] \in {"failed", "malformed", "refused"} => p \notin durable

\* A payload is queued, or with one worker, or answered, and never two of these:
\* no job is run twice and none is overwritten by the next.
OneOwner ==
    \A p \in Payloads :
        LET queued  == {x \in Transports \X (1 .. Capacity) : x[2] <= Len(queue[x[1]]) /\ queue[x[1]][x[2]] = p}
            running == {w \in Workers : worker[w].job = p}
        IN  /\ \A x, y \in queued : x = y
            /\ \A v, w \in running : v = w
            /\ queued # {} => running = {} /\ verdict[p] = "none"
            /\ running # {} => verdict[p] = "none"
            /\ conn[p] = "waiting" => queued # {} \/ running # {} \/ verdict[p] # "none"

\* Every request a receiver has read is answered, or its connection ends.
RequestsEnd == \A p \in Payloads : Open(p) ~> ~Open(p)

\* "then drain in-flight requests" (server.rs line 234): a shutdown completes.
\* The join in main (main.rs line 178) waits for both receivers, these for their
\* open connections, these for the workers, and it waits for the drainer, which
\* may be in the middle of a pass, and for the final flush.
ShutdownCompletes == mode = "stopping" ~> mode = "down"
=============================================================================
