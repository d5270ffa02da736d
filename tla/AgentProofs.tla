----------------------------- MODULE AgentProofs -----------------------------
(***************************************************************************)
(* Theorems about Agent, for any number of requests, transports, workers,  *)
(* queue slots, shutdowns, crashes and panics.                             *)
(*                                                                         *)
(* The inductive invariant AInv says where a request can be: before the    *)
(* queue, in one slot of one queue, with one worker, or answered; and what *)
(* is on stable storage and at the destination at each of these places.    *)
(* DrainInv says the same of the payload the draining task is working on.  *)
(***************************************************************************)
EXTENDS Agent, SequenceTheorems, TLAPS

Busy == {"process", "forward", "push", "publish"}

\* The payload waits in a queue; a worker has it.
Queued(p) == \E t \in Transports : \E i \in 1 .. Len(queue[t]) : queue[t][i] = p
Held(p)   == \E w \in Workers : worker[w].job = p

\* A worker has a job exactly while it runs one.
JobInv == \A w \in Workers : worker[w].pc \in Busy <=> worker[w].job # NoPayload

\* No payload is in two slots, or with two workers.
QueueInv ==
    \A t, u \in Transports : \A i \in 1 .. Len(queue[t]), j \in 1 .. Len(queue[u]) :
        queue[t][i] = queue[u][j] => t = u /\ i = j

WorkerInv ==
    \A v, w \in Workers : worker[v].job = worker[w].job /\ worker[v].job # NoPayload => v = w

\* Where a request is, by its connection.
PlaceInv ==
    \A p \in Payloads :
        /\ conn[p] \in {"new", "reading", "sending", "done"} => ~Queued(p) /\ ~Held(p)
        /\ conn[p] \in {"new", "reading", "sending"} => verdict[p] = "none" /\ p \notin durable
        /\ conn[p] = "waiting" => Queued(p) \/ Held(p) \/ verdict[p] # "none"
        /\ Queued(p) => ~Held(p) /\ verdict[p] = "none" /\ p \notin durable
        /\ Held(p) => verdict[p] = "none"
        /\ reply[p] # "none" => conn[p] = "done"

\* A job is on stable storage exactly after PushStored.
StoredInv ==
    \A w \in Workers :
        /\ worker[w].pc \in {"process", "forward", "push"} => worker[w].job \notin durable
        /\ worker[w].pc = "publish" => worker[w].job \in durable

\* What the oneshot channel and the client were told is true.
TruthInv ==
    /\ delivered \subseteq arrived
    /\ \A p \in Payloads :
          /\ forwarding /\ verdict[p] = "accepted" => p \in arrived \cup durable
          /\ verdict[p] \in {"failed", "malformed"} => p \notin durable
    /\ NoFalseAccept /\ RefusedNotHeld

\* What the drainer holds is on stable storage and with no worker, and it is at
\* the destination before it is discarded.
DrainInv ==
    /\ drainer.pc \in {"forward", "discard"} =>
          drainer.job \in durable /\ \A w \in Workers : worker[w].job # drainer.job
    /\ drainer.pc = "discard" => drainer.job \in delivered

\* Requests and jobs; the drainer has DrainInv.
AInv == TypeOK /\ JobInv /\ QueueInv /\ WorkerInv /\ PlaceInv /\ StoredInv /\ TruthInv

-----------------------------------------------------------------------------
(* The queues *)

\* A bounded send.
LEMMA AppendQueue ==
    ASSUME NEW S, NEW s \in Seq(S), NEW e \in S
    PROVE  /\ Append(s, e) \in Seq(S) /\ Len(Append(s, e)) = Len(s) + 1
           /\ \A i \in 1 .. Len(s) : Append(s, e)[i] = s[i]
           /\ Append(s, e)[Len(s) + 1] = e
           /\ Len(s) \in Nat
OBVIOUS

\* A receive.
LEMMA TailQueue ==
    ASSUME NEW S, NEW s \in Seq(S), s # <<>>
    PROVE  /\ Tail(s) \in Seq(S) /\ Len(Tail(s)) = Len(s) - 1
           /\ \A i \in 1 .. Len(Tail(s)) : Tail(s)[i] = s[i + 1]
           /\ Head(s) = s[1] /\ Head(s) \in S
           /\ Len(s) \in Nat /\ Len(s) > 0
OBVIOUS

-----------------------------------------------------------------------------
(* Types *)

\* What a worker may look like.
WorkerRec == [pc : {"idle", "process", "forward", "push", "publish", "dead"},
              job : Payloads \cup {NoPayload}]

\* A worker that goes on keeps its job.
LEMMA GotoFacts ==
    ASSUME TypeOK, NEW w \in Workers, NEW pc \in Busy, Goto(w, pc)
    PROVE  /\ worker' \in [Workers -> WorkerRec]
           /\ worker'[w].pc = pc /\ worker'[w].job = worker[w].job
           /\ \A v \in Workers : v # w => worker'[v] = worker[v]
BY DEF TypeOK, Goto, Busy, WorkerRec

\* A worker that has answered is without a job.
LEMMA AnswerFacts ==
    ASSUME TypeOK, NEW w \in Workers, NEW v \in {"accepted", "malformed", "failed"}, Answer(w, v),
           worker[w].job \in Payloads
    PROVE  /\ worker' \in [Workers -> WorkerRec]
           /\ worker'[w].pc = "idle" /\ worker'[w].job = NoPayload
           /\ \A u \in Workers : u # w => worker'[u] = worker[u]
           /\ verdict' \in [Payloads -> {"none", "accepted", "malformed", "failed"}]
           /\ verdict'[worker[w].job] = v
           /\ \A p \in Payloads : p # worker[w].job => verdict'[p] = verdict[p]
BY DEF TypeOK, Answer, IdleWorker, WorkerRec

\* The queue of a transport never exceeds its capacity, whoever sends.
LEMMA TypeStep ==
    ASSUME TypeOK, JobInv, [Next]_vars PROVE TypeOK'
<1>1. ASSUME NEW w \in Workers, worker[w].pc \in Busy PROVE worker[w].job \in Payloads
  BY <1>1 DEF JobInv, TypeOK
<1>2. CASE Start \/ Shutdown \/ UNCHANGED vars
  <2>1. /\ UNCHANGED <<forwarding, conn, reply, queue, worker, verdict, arrived, panics, durable, accepted, delivered>>
        /\ mode' \in {"down", "up", "stopping"}
    BY <1>2 DEF Start, Shutdown, vars, serverVars, outboxVars, TypeOK
  <2>4. /\ drainer' \in [pc : {"wait", "forward", "discard", "stopped"}, job : Payloads \cup {NoPayload}]
        /\ flusher' \in {"running", "stopped"}
    <3>1. CASE Start
      <4>1. drainer' = [pc |-> "wait", job |-> NoPayload] /\ flusher' = "running"
        BY <3>1 DEF Start, AtRest
      <4> QED  BY <4>1
    <3>2. CASE Shutdown \/ UNCHANGED vars
      BY <3>2 DEF Shutdown, vars, taskVars, TypeOK
    <3> QED  BY <1>2, <3>1, <3>2
  <2>2. spool' \in BOOLEAN
    <3>1. CASE Start
      BY <3>1, Zenon DEF Start
    <3>2. CASE UNCHANGED spool
      BY <3>2 DEF TypeOK
    <3> QED  BY <1>2, <3>1, <3>2 DEF Shutdown, vars
  <2>3. stops' \in 0 .. MaxStops
    <3>1. CASE Shutdown
      BY <3>1, AgentAssumption DEF Shutdown, TypeOK
    <3>2. CASE UNCHANGED stops
      BY <3>2 DEF TypeOK
    <3> QED  BY <1>2, <3>1, <3>2 DEF Start, vars
  <2> QED  BY <2>1, <2>2, <2>3, <2>4 DEF TypeOK, Capacity
<1>3. CASE Exit \/ Crash
  <2>1. ProcessEnds /\ stops' \in 0 .. MaxStops
    BY <1>3, AgentAssumption DEF Exit, Crash, TypeOK
  <2>2. queue' \in [Transports -> Seq(Payloads)] /\ \A t \in Transports : Len(queue'[t]) <= Capacity
    BY <2>1, AgentAssumption DEF ProcessEnds, Capacity
  <2> QED  BY <2>1, <2>2 DEF ProcessEnds, TypeOK, outboxVars, IdleWorker, AtRest
<1>4. ASSUME NEW p \in Payloads, Connect(p) \/ Arrive(p) \/ EnqueueFails(p) \/ Respond(p) \/ ClientHangsUp(p)
      PROVE  TypeOK'
  <2>1. UNCHANGED <<mode, forwarding, spool, taskVars, queue, worker, verdict, arrived, stops, panics, outboxVars>>
    BY <1>4 DEF Connect, Arrive, EnqueueFails, Respond, ClientHangsUp
  <2>2. conn' \in [Payloads -> {"new", "reading", "sending", "waiting", "done", "gone"}]
    BY <1>4 DEF Connect, Arrive, EnqueueFails, Respond, ClientHangsUp, TypeOK
  <2>3. reply' \in [Payloads -> {"none", "accepted", "malformed", "failed", "refused"}]
    BY <1>4 DEF Connect, Arrive, EnqueueFails, Respond, ClientHangsUp, TypeOK
  <2> QED  BY <2>1, <2>2, <2>3 DEF TypeOK, outboxVars, taskVars, Capacity
<1>5. ASSUME NEW p \in Payloads, Enqueue(p) PROVE TypeOK'
  <2>1. Via[p] \in Transports /\ queue[Via[p]] \in Seq(Payloads) /\ Len(queue[Via[p]]) < Capacity
    BY <1>5, AgentAssumption DEF Enqueue, TypeOK
  <2>2. /\ Append(queue[Via[p]], p) \in Seq(Payloads)
        /\ Len(Append(queue[Via[p]], p)) = Len(queue[Via[p]]) + 1 /\ Len(queue[Via[p]]) \in Nat
    BY <2>1, AppendQueue
  <2>3. Capacity \in Nat
    BY AgentAssumption DEF Capacity
  <2>4. queue' \in [Transports -> Seq(Payloads)] /\ \A t \in Transports : Len(queue'[t]) <= Capacity
    BY <1>5, <2>1, <2>2, <2>3 DEF Enqueue, TypeOK
  <2> QED  BY <1>5, <2>4 DEF Enqueue, TypeOK, outboxVars, taskVars, Capacity
<1>6. ASSUME NEW w \in Workers, Take(w) PROVE TypeOK'
  <2>1. Pool[w] \in Transports /\ queue[Pool[w]] \in Seq(Payloads) /\ queue[Pool[w]] # <<>>
    BY <1>6, AgentAssumption DEF Take, TypeOK
  <2>2. /\ Tail(queue[Pool[w]]) \in Seq(Payloads) /\ Head(queue[Pool[w]]) \in Payloads
        /\ Len(Tail(queue[Pool[w]])) = Len(queue[Pool[w]]) - 1 /\ Len(queue[Pool[w]]) \in Nat
    BY <2>1, TailQueue
  <2>3. Capacity \in Nat
    BY AgentAssumption DEF Capacity
  <2>4. queue' \in [Transports -> Seq(Payloads)] /\ \A t \in Transports : Len(queue'[t]) <= Capacity
    BY <1>6, <2>1, <2>2, <2>3 DEF Take, TypeOK
  <2>5. worker' \in [Workers -> WorkerRec]
    BY <1>6, <2>2 DEF Take, TypeOK, WorkerRec
  <2> QED  BY <1>6, <2>4, <2>5 DEF Take, TypeOK, outboxVars, taskVars, Capacity, WorkerRec
<1>7. ASSUME NEW w \in Workers,
             Process(w) \/ ForwardOk(w) \/ ForwardErr(w) \/ PushRefused(w) \/ PushStored(w) \/ PushAccepted(w)
      PROVE  TypeOK'
  <2>1. worker[w].job \in Payloads
    BY <1>1, <1>7 DEF Process, ForwardOk, ForwardErr, PushRefused, PushStored, PushAccepted, At, Busy
  <2>2. \/ \E v \in {"accepted", "malformed", "failed"} : Answer(w, v)
        \/ UNCHANGED verdict /\ \E pc \in Busy : Goto(w, pc)
    BY <1>7 DEF Process, ForwardOk, ForwardErr, PushRefused, PushStored, PushAccepted, Busy
  <2>3. /\ worker' \in [Workers -> WorkerRec]
        /\ verdict' \in [Payloads -> {"none", "accepted", "malformed", "failed"}]
    BY <2>1, <2>2, AnswerFacts, GotoFacts DEF TypeOK
  <2>4. /\ UNCHANGED <<mode, forwarding, spool, drainer, flusher, conn, reply, queue, stops, panics>>
        /\ arrived' \subseteq Payloads /\ durable' \subseteq Payloads
        /\ accepted' \subseteq Payloads /\ delivered' \subseteq Payloads
    BY <1>7, <2>1
    DEF Process, ForwardOk, ForwardErr, PushRefused, PushStored, PushAccepted, Store, Accept, outboxVars, taskVars,
        TypeOK
  <2> QED  BY <2>3, <2>4 DEF TypeOK, Capacity, WorkerRec
<1>8. ASSUME NEW w \in Workers, Panic(w) PROVE TypeOK'
  <2>1. worker' \in [Workers -> WorkerRec] /\ panics' \in 0 .. MaxPanics
    BY <1>8, AgentAssumption DEF Panic, TypeOK, WorkerRec
  <2>2. verdict' \in [Payloads -> {"none", "accepted", "malformed", "failed"}]
    BY <1>8 DEF Panic, TypeOK
  <2> QED  BY <1>8, <2>1, <2>2 DEF Panic, TypeOK, outboxVars, taskVars, Capacity, WorkerRec
<1>9. CASE DrainStep \/ DrainStops \/ FlusherStops
  <2>1. UNCHANGED <<mode, forwarding, spool, serverVars, stops, panics, accepted>>
    BY <1>9 DEF DrainStep, DrainPick, DrainDeliver, DrainRetry, DrainDiscard, DrainStops, FlusherStops,
                Deliver, Discard, outboxVars
  <2>2. /\ arrived' \subseteq Payloads /\ durable' \subseteq Payloads /\ delivered' \subseteq Payloads
    BY <1>9 DEF DrainStep, DrainPick, DrainDeliver, DrainRetry, DrainDiscard, DrainStops, FlusherStops,
                Deliver, Discard, outboxVars, TypeOK
  <2>3. /\ drainer' \in [pc : {"wait", "forward", "discard", "stopped"}, job : Payloads \cup {NoPayload}]
        /\ flusher' \in {"running", "stopped"}
    BY <1>9 DEF DrainStep, DrainPick, DrainDeliver, DrainRetry, DrainDiscard, DrainStops, FlusherStops,
                AtRest, TypeOK
  <2> QED  BY <2>1, <2>2, <2>3 DEF serverVars, TypeOK, Capacity
<1> QED
  BY <1>2, <1>3, <1>4, <1>5, <1>6, <1>7, <1>8, <1>9 DEF Next, Receive, WorkerStep

-----------------------------------------------------------------------------
(* AInv is inductive *)

\* The queues and the workers at rest: only what a connection is told changes.
LEMMA ConnStep ==
    ASSUME AInv, TypeOK', NEW p \in Payloads,
           Connect(p) \/ Arrive(p) \/ EnqueueFails(p) \/ Respond(p) \/ ClientHangsUp(p)
    PROVE  AInv'
<1>1. UNCHANGED <<forwarding, queue, worker, verdict, arrived, durable, accepted, delivered>>
  BY DEF Connect, Arrive, EnqueueFails, Respond, ClientHangsUp, outboxVars
<1>2. JobInv' /\ QueueInv' /\ WorkerInv' /\ StoredInv'
  BY <1>1 DEF AInv, JobInv, QueueInv, WorkerInv, StoredInv
<1>3. \A q \in Payloads : (Queued(q)' <=> Queued(q)) /\ (Held(q)' <=> Held(q))
  BY <1>1 DEF Queued, Held
<1>4. /\ \A q \in Payloads : q # p => conn'[q] = conn[q] /\ reply'[q] = reply[q]
      /\ \/ conn[p] = "new" /\ conn'[p] = "reading" /\ reply'[p] = reply[p]
         \/ conn[p] = "reading" /\ conn'[p] = "sending" /\ reply'[p] = reply[p]
         \/ conn[p] \in {"reading", "sending"} /\ conn'[p] = "done" /\ reply'[p] \in {"refused", "failed"}
         \/ conn[p] = "waiting" /\ conn'[p] = "done" /\ verdict[p] # "none" /\ reply'[p] = verdict[p]
         \/ Open(p) /\ conn'[p] = "gone" /\ reply'[p] = reply[p]
  BY DEF Connect, Arrive, EnqueueFails, Respond, ClientHangsUp, AInv, TypeOK
<1>5. PlaceInv'
  <2> HIDE DEF Queued, Held
  <2> SUFFICES ASSUME NEW q \in Payloads
               PROVE  /\ conn'[q] \in {"new", "reading", "sending", "done"} => ~Queued(q) /\ ~Held(q)
                      /\ conn'[q] \in {"new", "reading", "sending"} => verdict[q] = "none" /\ q \notin durable
                      /\ conn'[q] = "waiting" => Queued(q) \/ Held(q) \/ verdict[q] # "none"
                      /\ Queued(q) => ~Held(q) /\ verdict[q] = "none" /\ q \notin durable
                      /\ Held(q) => verdict[q] = "none"
                      /\ reply'[q] # "none" => conn'[q] = "done"
    BY <1>1, <1>3 DEF PlaceInv
  <2> QED  BY <1>4 DEF AInv, PlaceInv, Open
<1>6. TruthInv'
  <2>1. NoFalseAccept' /\ RefusedNotHeld'
    BY <1>1, <1>4 DEF AInv, PlaceInv, TruthInv, NoFalseAccept, RefusedNotHeld, TypeOK
  <2> QED  BY <1>1, <2>1 DEF AInv, TruthInv
<1> QED  BY <1>2, <1>5, <1>6 DEF AInv

\* A job takes a slot nobody has.
LEMMA EnqueueStep ==
    ASSUME AInv, TypeOK', NEW p \in Payloads, Enqueue(p) PROVE AInv'
<1> DEFINE t == Via[p]
<1>1. /\ UNCHANGED <<forwarding, reply, worker, verdict, arrived, durable, accepted, delivered>>
      /\ conn[p] = "sending" /\ conn'[p] = "waiting" /\ \A q \in Payloads : q # p => conn'[q] = conn[q]
  BY DEF Enqueue, outboxVars, AInv, TypeOK
<1>2. t \in Transports /\ queue[t] \in Seq(Payloads)
  BY AgentAssumption DEF AInv, TypeOK
<1>3. /\ queue'[t] = Append(queue[t], p) /\ \A u \in Transports : u # t => queue'[u] = queue[u]
  BY <1>2 DEF Enqueue, AInv, TypeOK
<1>4. ~Queued(p) /\ ~Held(p) /\ verdict[p] = "none" /\ p \notin durable /\ reply[p] = "none"
  BY <1>1 DEF AInv, PlaceInv
<1> HIDE DEF t
<1>5. /\ Len(queue'[t]) = Len(queue[t]) + 1 /\ Len(queue[t]) \in Nat
      /\ \A i \in 1 .. Len(queue[t]) : queue'[t][i] = queue[t][i]
      /\ queue'[t][Len(queue[t]) + 1] = p
  BY <1>2, <1>3, AppendQueue
<1>6. \A u \in Transports : \A i \in 1 .. Len(queue'[u]) :
         \/ i \in 1 .. Len(queue[u]) /\ queue'[u][i] = queue[u][i]
         \/ u = t /\ i = Len(queue[t]) + 1 /\ queue'[u][i] = p
  <2> TAKE u \in Transports
  <2> TAKE i \in 1 .. Len(queue'[u])
  <2>1. CASE u # t
    BY ONLY <1>3, <2>1, u \in Transports, i \in 1 .. Len(queue'[u])
  <2>2. CASE u = t
    BY ONLY <1>5, <2>2, i \in 1 .. Len(queue'[u])
  <2> QED  BY ONLY <2>1, <2>2
<1>7. \A u \in Transports : \A i \in 1 .. Len(queue[u]) :
         queue[u][i] # p /\ i \in 1 .. Len(queue'[u]) /\ queue'[u][i] = queue[u][i]
  BY <1>3, <1>4, <1>5 DEF Queued
<1>8. \A q \in Payloads : (Queued(q)' <=> Queued(q) \/ q = p) /\ (Held(q)' <=> Held(q))
  <2>1. Queued(p)'
    BY <1>2, <1>5 DEF Queued
  <2>2. ASSUME NEW q \in Payloads, Queued(q) PROVE Queued(q)'
    BY <1>7, <2>2 DEF Queued
  <2>3. ASSUME NEW q \in Payloads, Queued(q)', q # p PROVE Queued(q)
    BY <1>6, <2>3 DEF Queued
  <2>4. ASSUME NEW q \in Payloads PROVE Held(q)' <=> Held(q)
    BY <1>1 DEF Held
  <2> QED  BY <2>1, <2>2, <2>3, <2>4
<1>9. QueueInv'
  <2> SUFFICES ASSUME NEW u \in Transports, NEW v \in Transports,
                      NEW i \in 1 .. Len(queue'[u]), NEW j \in 1 .. Len(queue'[v]), queue'[u][i] = queue'[v][j]
               PROVE  u = v /\ i = j
    BY DEF QueueInv
  <2>1. ASSUME NEW x \in Transports, NEW k \in 1 .. Len(queue'[x])
        PROVE  \/ k \in 1 .. Len(queue[x]) /\ queue'[x][k] = queue[x][k] /\ queue'[x][k] # p
               \/ x = t /\ k = Len(queue[t]) + 1 /\ queue'[x][k] = p
    BY ONLY <1>6, <1>7, <2>1
  <2>2. QueueInv
    BY DEF AInv
  <2>3. CASE queue'[u][i] = p
    BY ONLY <2>1, <2>3, u \in Transports, v \in Transports, i \in 1 .. Len(queue'[u]),
            j \in 1 .. Len(queue'[v]), queue'[u][i] = queue'[v][j]
  <2>4. CASE queue'[u][i] # p
    <3>1. /\ i \in 1 .. Len(queue[u]) /\ j \in 1 .. Len(queue[v]) /\ queue[u][i] = queue[v][j]
      BY ONLY <2>1, <2>4, u \in Transports, v \in Transports, i \in 1 .. Len(queue'[u]),
              j \in 1 .. Len(queue'[v]), queue'[u][i] = queue'[v][j]
    <3> QED  BY ONLY <2>2, <3>1, u \in Transports, v \in Transports DEF QueueInv
  <2> QED  BY ONLY <2>3, <2>4
<1>10. JobInv' /\ WorkerInv' /\ StoredInv' /\ TruthInv'
  BY <1>1 DEF AInv, JobInv, WorkerInv, StoredInv, TruthInv, NoFalseAccept, RefusedNotHeld
<1>11. PlaceInv'
  <2> HIDE DEF Queued, Held
  <2> SUFFICES ASSUME NEW q \in Payloads
               PROVE  /\ conn'[q] \in {"new", "reading", "sending", "done"} => ~Queued(q)' /\ ~Held(q)
                      /\ conn'[q] \in {"new", "reading", "sending"} => verdict[q] = "none" /\ q \notin durable
                      /\ conn'[q] = "waiting" => Queued(q)' \/ Held(q) \/ verdict[q] # "none"
                      /\ Queued(q)' => ~Held(q) /\ verdict[q] = "none" /\ q \notin durable
                      /\ Held(q) => verdict[q] = "none"
                      /\ reply[q] # "none" => conn'[q] = "done"
    BY <1>1, <1>8 DEF PlaceInv
  <2> QED  BY <1>1, <1>4, <1>8 DEF AInv, PlaceInv
<1> QED  BY <1>9, <1>10, <1>11 DEF AInv

\* A worker with nothing to do takes the first job of its queue.
LEMMA TakeStep ==
    ASSUME AInv, TypeOK', NEW w \in Workers, Take(w) PROVE AInv'
<1> DEFINE t == Pool[w]
           p == Head(queue[t])
<1>1. /\ UNCHANGED <<forwarding, conn, reply, verdict, arrived, durable, accepted, delivered>>
      /\ worker[w].pc = "idle"
  BY DEF Take, At, outboxVars
<1>2. t \in Transports /\ queue[t] \in Seq(Payloads) /\ queue[t] # <<>>
  BY AgentAssumption DEF Take, AInv, TypeOK
<1>3. /\ queue'[t] = Tail(queue[t]) /\ \A u \in Transports : u # t => queue'[u] = queue[u]
      /\ worker'[w].pc = "process" /\ worker'[w].job = p /\ \A v \in Workers : v # w => worker'[v] = worker[v]
  BY <1>2 DEF Take, AInv, TypeOK
<1>4. /\ Len(queue'[t]) = Len(queue[t]) - 1 /\ Len(queue[t]) \in Nat /\ Len(queue[t]) > 0
      /\ \A i \in 1 .. Len(queue'[t]) : queue'[t][i] = queue[t][i + 1]
      /\ p = queue[t][1] /\ p \in Payloads
  BY <1>2, <1>3, TailQueue
<1>5. Queued(p) /\ ~Held(p) /\ verdict[p] = "none" /\ p \notin durable
  <2>1. Queued(p)
    BY <1>2, <1>4 DEF Queued
  <2> QED  BY <1>4, <2>1 DEF AInv, PlaceInv
<1> HIDE DEF t, p
<1>6. p # NoPayload /\ worker[w].job = NoPayload /\ \A v \in Workers : worker[v].job # p
  BY <1>1, <1>4, <1>5, AgentAssumption DEF AInv, JobInv, Busy, Held
<1>7. \A u \in Transports : \A i \in 1 .. Len(queue'[u]) :
         LET k == IF u = t THEN i + 1 ELSE i
         IN  k \in 1 .. Len(queue[u]) /\ queue'[u][i] = queue[u][k] /\ queue'[u][i] # p
  <2>1. ASSUME NEW i \in 1 .. Len(queue'[t])
        PROVE  i + 1 \in 1 .. Len(queue[t]) /\ queue'[t][i] = queue[t][i + 1] /\ queue[t][i + 1] # p
    BY <1>2, <1>4 DEF AInv, QueueInv
  <2>2. ASSUME NEW u \in Transports, u # t, NEW i \in 1 .. Len(queue[u]) PROVE queue[u][i] # p
    <3>1. 1 \in 1 .. Len(queue[t])
      BY <1>4
    <3> QED  BY <1>2, <1>4, <2>2, <3>1 DEF AInv, QueueInv
  <2>3. ASSUME NEW u \in Transports, NEW i \in 1 .. Len(queue'[u])
        PROVE  LET k == IF u = t THEN i + 1 ELSE i
               IN  k \in 1 .. Len(queue[u]) /\ queue'[u][i] = queue[u][k] /\ queue'[u][i] # p
    <3>1. CASE u = t
      BY <2>1, <3>1
    <3>2. CASE u # t
      BY <1>3, <2>2, <3>2
    <3> QED  BY <3>1, <3>2
  <2> QED  BY <2>3
<1>8. \A q \in Payloads : (Queued(q)' <=> Queued(q) /\ q # p) /\ (Held(q)' <=> Held(q) \/ q = p)
  <2>1. ASSUME NEW q \in Payloads, Queued(q)' PROVE Queued(q) /\ q # p
    BY <1>7, <2>1 DEF Queued
  <2>2. ASSUME NEW q \in Payloads, Queued(q), q # p PROVE Queued(q)'
    <3>0. PICK u \in Transports : \E i \in 1 .. Len(queue[u]) : queue[u][i] = q
      BY <2>2 DEF Queued
    <3>1. PICK i \in 1 .. Len(queue[u]) : queue[u][i] = q
      BY <3>0
    <3>2. CASE u # t
      BY <1>3, <3>1, <3>2 DEF Queued
    <3>3. CASE u = t
      <4>1. i # 1 /\ i - 1 \in 1 .. Len(queue'[t]) /\ queue'[t][i - 1] = queue[t][i]
        BY <1>4, <2>2, <3>1, <3>3
      <4> QED  BY <1>2, <3>1, <3>3, <4>1 DEF Queued
    <3> QED  BY <3>2, <3>3
  <2>3. ASSUME NEW q \in Payloads PROVE Held(q)' <=> Held(q) \/ q = p
    BY <1>3, <1>6, AgentAssumption DEF Held
  <2> QED  BY <2>1, <2>2, <2>3
<1>9. QueueInv'
  <2> SUFFICES ASSUME NEW u \in Transports, NEW v \in Transports,
                      NEW i \in 1 .. Len(queue'[u]), NEW j \in 1 .. Len(queue'[v]), queue'[u][i] = queue'[v][j]
               PROVE  u = v /\ i = j
    BY DEF QueueInv
  <2>1. Len(queue'[u]) \in Nat /\ Len(queue'[v]) \in Nat
    BY DEF TypeOK
  <2> DEFINE k == IF u = t THEN i + 1 ELSE i
             l == IF v = t THEN j + 1 ELSE j
  <2>2. k \in 1 .. Len(queue[u]) /\ l \in 1 .. Len(queue[v]) /\ queue[u][k] = queue[v][l]
    BY <1>7
  <2>3. u = v /\ k = l
    BY <2>2 DEF AInv, QueueInv
  <2> QED  BY <2>1, <2>3
<1>10. JobInv' /\ WorkerInv' /\ StoredInv'
  BY <1>1, <1>3, <1>5, <1>6 DEF AInv, JobInv, WorkerInv, StoredInv, Busy
<1>11. TruthInv'
  BY <1>1 DEF AInv, TruthInv, NoFalseAccept, RefusedNotHeld
<1>12. PlaceInv'
  <2> SUFFICES ASSUME NEW q \in Payloads
               PROVE  /\ conn[q] \in {"new", "reading", "sending", "done"} => ~Queued(q)' /\ ~Held(q)'
                      /\ conn[q] \in {"new", "reading", "sending"} => verdict[q] = "none" /\ q \notin durable
                      /\ conn[q] = "waiting" => Queued(q)' \/ Held(q)' \/ verdict[q] # "none"
                      /\ Queued(q)' => ~Held(q)' /\ verdict[q] = "none" /\ q \notin durable
                      /\ Held(q)' => verdict[q] = "none"
                      /\ reply[q] # "none" => conn[q] = "done"
    BY <1>1 DEF PlaceInv
  <2> HIDE DEF Queued, Held
  <2> QED  BY <1>5, <1>8 DEF AInv, PlaceInv
<1> QED  BY <1>9, <1>10, <1>11, <1>12 DEF AInv

\* A job is answered, truthfully, and leaves its worker.
LEMMA AnswerStep ==
    ASSUME AInv, TypeOK', NEW w \in Workers, worker[w].pc \in Busy,
           UNCHANGED <<forwarding, conn, reply, queue, durable, delivered>>, arrived \subseteq arrived',
           NEW v \in {"accepted", "malformed", "failed"},
           verdict' = [verdict EXCEPT ![worker[w].job] = v],
           worker'[w].pc \in {"idle", "dead"}, worker'[w].job = NoPayload,
           \A u \in Workers : u # w => worker'[u] = worker[u],
           forwarding /\ v = "accepted" => worker[w].job \in arrived' \cup durable,
           v \in {"failed", "malformed"} => worker[w].job \notin durable
    PROVE  AInv'
<1> DEFINE p == worker[w].job
<1>1. p \in Payloads /\ Held(p) /\ p # NoPayload
  BY DEF AInv, JobInv, TypeOK, Held
<1>2. verdict'[p] = v /\ \A q \in Payloads : q # p => verdict'[q] = verdict[q]
  BY <1>1 DEF AInv, TypeOK
<1>3. \A u \in Workers : u # w => worker[u].job # p
  BY <1>1 DEF AInv, WorkerInv
<1> HIDE DEF p
<1>4. \A q \in Payloads : (Queued(q)' <=> Queued(q)) /\ (Held(q)' <=> Held(q) /\ q # p)
  BY <1>3, AgentAssumption DEF Queued, Held, p
<1>5. JobInv' /\ QueueInv' /\ WorkerInv' /\ StoredInv'
  BY DEF AInv, JobInv, QueueInv, WorkerInv, StoredInv, Busy
<1>6. PlaceInv'
  <2> SUFFICES ASSUME NEW q \in Payloads
               PROVE  /\ conn[q] \in {"new", "reading", "sending", "done"} => ~Queued(q)' /\ ~Held(q)'
                      /\ conn[q] \in {"new", "reading", "sending"} => verdict'[q] = "none" /\ q \notin durable
                      /\ conn[q] = "waiting" => Queued(q)' \/ Held(q)' \/ verdict'[q] # "none"
                      /\ Queued(q)' => ~Held(q)' /\ verdict'[q] = "none" /\ q \notin durable
                      /\ Held(q)' => verdict'[q] = "none"
                      /\ reply[q] # "none" => conn[q] = "done"
    BY DEF PlaceInv
  <2> HIDE DEF Queued, Held
  <2> QED  BY <1>1, <1>2, <1>4 DEF AInv, PlaceInv
<1>7. TruthInv'
  <2>1. NoFalseAccept' /\ RefusedNotHeld'
    BY DEF AInv, TruthInv, NoFalseAccept, RefusedNotHeld
  <2> QED  BY <1>1, <1>2, <2>1 DEF AInv, TruthInv, p
<1> QED  BY <1>5, <1>6, <1>7 DEF AInv

\* A job goes on with its worker; PushStored puts it on stable storage.
LEMMA GoOnStep ==
    ASSUME AInv, TypeOK', NEW w \in Workers, worker[w].pc \in Busy,
           NEW pc \in Busy, Goto(w, pc),
           UNCHANGED <<forwarding, conn, reply, queue, verdict, delivered>>, arrived \subseteq arrived',
           \/ /\ UNCHANGED durable
              /\ worker[w].pc # "publish" /\ pc # "publish"
           \/ durable' = durable \cup {worker[w].job} /\ pc = "publish"
    PROVE  AInv'
<1> DEFINE p == worker[w].job
<1>1. /\ worker'[w].pc = pc /\ worker'[w].job = p
      /\ \A v \in Workers : v # w => worker'[v] = worker[v]
  BY GotoFacts DEF AInv
<1>2. p \in Payloads /\ Held(p) /\ p # NoPayload
  BY DEF AInv, JobInv, TypeOK, Held
<1>3. \A v \in Workers : v # w => worker[v].job # p
  BY <1>2 DEF AInv, WorkerInv
<1> HIDE DEF p
<1>4. \A q \in Payloads : (Queued(q)' <=> Queued(q)) /\ (Held(q)' <=> Held(q))
  BY <1>1 DEF Queued, Held, p
<1>5. durable \subseteq durable' /\ durable' \subseteq durable \cup {p}
  BY DEF p
<1>6. JobInv' /\ QueueInv' /\ WorkerInv'
  BY <1>1, <1>2 DEF AInv, JobInv, QueueInv, WorkerInv, p
<1>7. StoredInv'
  BY <1>1, <1>3, <1>5 DEF AInv, StoredInv, Busy, p
<1>8. /\ ~Queued(p) /\ verdict[p] = "none" /\ reply[p] = "none"
      /\ conn[p] \notin {"new", "reading", "sending", "done"}
  BY <1>2 DEF AInv, PlaceInv
<1>9. PlaceInv'
  <2> SUFFICES ASSUME NEW q \in Payloads
               PROVE  /\ conn[q] \in {"new", "reading", "sending", "done"} => ~Queued(q) /\ ~Held(q)
                      /\ conn[q] \in {"new", "reading", "sending"} => verdict[q] = "none" /\ q \notin durable'
                      /\ conn[q] = "waiting" => Queued(q) \/ Held(q) \/ verdict[q] # "none"
                      /\ Queued(q) => ~Held(q) /\ verdict[q] = "none" /\ q \notin durable'
                      /\ Held(q) => verdict[q] = "none"
                      /\ reply[q] # "none" => conn[q] = "done"
    BY <1>4 DEF PlaceInv
  <2> HIDE DEF Queued, Held
  <2> QED  BY <1>5, <1>8 DEF AInv, PlaceInv
<1>10. TruthInv'
  BY <1>5, <1>8 DEF AInv, TruthInv, NoFalseAccept, RefusedNotHeld
<1> QED  BY <1>6, <1>7, <1>9, <1>10 DEF AInv

\* The steps of a worker between two receives.
LEMMA RunStep ==
    ASSUME AInv, TypeOK', NEW w \in Workers,
           \/ Process(w) \/ Panic(w) \/ ForwardOk(w) \/ ForwardErr(w)
           \/ PushRefused(w) \/ PushStored(w) \/ PushAccepted(w)
    PROVE  AInv'
<1> DEFINE p == worker[w].job
<1>1. worker[w].pc \in Busy
  BY DEF Process, Panic, ForwardOk, ForwardErr, PushRefused, PushStored, PushAccepted, At, Busy
<1>2. /\ UNCHANGED <<forwarding, conn, reply, queue, delivered>> /\ arrived \subseteq arrived'
  BY DEF Process, Panic, ForwardOk, ForwardErr, PushRefused, PushStored, PushAccepted,
         Store, Accept, outboxVars
<1>3. p \in Payloads /\ TypeOK
  BY <1>1 DEF AInv, JobInv, TypeOK
<1>4. worker[w].pc \in {"process", "forward", "push"} => p \notin durable
  BY DEF AInv, StoredInv
<1>5. ASSUME NEW v \in {"accepted", "malformed", "failed"}, Answer(w, v), UNCHANGED durable,
             forwarding /\ v = "accepted" => p \in arrived' \cup durable,
             v \in {"failed", "malformed"} => p \notin durable
      PROVE  AInv'
  <2>1. /\ worker'[w].pc = "idle" /\ worker'[w].job = NoPayload
        /\ \A u \in Workers : u # w => worker'[u] = worker[u]
    BY <1>3, <1>5, AnswerFacts
  <2>2. verdict' = [verdict EXCEPT ![worker[w].job] = v]
    BY <1>5 DEF Answer
  <2> QED  BY <1>1, <1>2, <1>5, <2>1, <2>2, AnswerStep
<1>6. CASE Process(w)
  <2>1. worker[w].pc = "process" /\ UNCHANGED durable
    BY <1>6 DEF Process, At, outboxVars
  <2>2. CASE Answer(w, "malformed")
    BY <1>4, <1>5, <2>1, <2>2
  <2>3. CASE ~forwarding /\ Answer(w, "accepted")
    BY <1>5, <2>1, <2>3
  <2>4. CASE Goto(w, "forward") /\ UNCHANGED verdict
    BY <1>1, <1>2, <2>1, <2>4, GoOnStep DEF Busy
  <2> QED  BY <1>6, <2>2, <2>3, <2>4 DEF Process
<1>7. CASE Panic(w)
  <2>1. /\ worker[w].pc = "process" /\ UNCHANGED durable
        /\ verdict' = [verdict EXCEPT ![worker[w].job] = "failed"]
        /\ worker' = [worker EXCEPT ![w] = [pc |-> "dead", job |-> NoPayload]]
    BY <1>7 DEF Panic, At, outboxVars
  <2>2. /\ worker'[w].pc = "dead" /\ worker'[w].job = NoPayload
        /\ \A u \in Workers : u # w => worker'[u] = worker[u]
    BY <1>3, <2>1 DEF TypeOK
  <2> QED  BY <1>1, <1>2, <1>4, <2>1, <2>2, AnswerStep
<1>8. CASE ForwardOk(w)
  <2>1. UNCHANGED durable /\ p \in arrived' /\ Answer(w, "accepted")
    BY <1>8 DEF ForwardOk, outboxVars
  <2> QED  BY <1>5, <2>1
<1>9. CASE ForwardErr(w)
  <2>1. worker[w].pc = "forward" /\ UNCHANGED durable
    BY <1>9 DEF ForwardErr, At, outboxVars
  <2>2. CASE Answer(w, "failed")
    BY <1>4, <1>5, <2>1, <2>2
  <2>3. CASE Goto(w, "push") /\ UNCHANGED verdict
    BY <1>1, <1>2, <2>1, <2>3, GoOnStep DEF Busy
  <2> QED  BY <1>9, <2>2, <2>3 DEF ForwardErr
<1>10. CASE PushRefused(w)
  <2>1. worker[w].pc = "push" /\ UNCHANGED durable /\ Answer(w, "failed")
    BY <1>10 DEF PushRefused, At, outboxVars
  <2> QED  BY <1>4, <1>5, <2>1
<1>11. CASE PushStored(w)
  <2>1. Goto(w, "publish") /\ durable' = durable \cup {worker[w].job} /\ UNCHANGED verdict
    BY <1>11 DEF PushStored, Store
  <2> QED  BY <1>1, <1>2, <2>1, GoOnStep DEF Busy
<1>12. CASE PushAccepted(w)
  <2>1. UNCHANGED durable /\ p \in durable /\ Answer(w, "accepted")
    BY <1>12 DEF PushAccepted, Accept
  <2> QED  BY <1>5, <2>1
<1> QED  BY <1>6, <1>7, <1>8, <1>9, <1>10, <1>11, <1>12

\* With the process end the queues, the workers and the open connections.
LEMMA EndStep ==
    ASSUME AInv, TypeOK', ProcessEnds PROVE AInv'
<1>1. /\ UNCHANGED <<forwarding, reply, arrived, durable, delivered>>
      /\ \A t \in Transports : queue'[t] = <<>>
      /\ \A w \in Workers : worker'[w].pc = "idle" /\ worker'[w].job = NoPayload
      /\ \A p \in Payloads : verdict'[p] = "none" /\ conn'[p] # "waiting"
                             /\ (conn'[p] = conn[p] \/ (conn'[p] = "gone" /\ Open(p)))
  <2>1. /\ UNCHANGED <<forwarding, reply, arrived, durable, delivered>>
        /\ \A t \in Transports : queue'[t] = <<>>
        /\ \A w \in Workers : worker'[w] = IdleWorker
        /\ \A p \in Payloads : verdict'[p] = "none" /\ conn'[p] = IF Open(p) THEN "gone" ELSE conn[p]
    BY DEF ProcessEnds, outboxVars
  <2>2. ASSUME NEW p \in Payloads
        PROVE  conn'[p] # "waiting" /\ (conn'[p] = conn[p] \/ (conn'[p] = "gone" /\ Open(p)))
    <3>1. CASE Open(p)
      BY <2>1, <3>1
    <3>2. CASE ~Open(p)
      BY <2>1, <3>2 DEF Open
    <3> QED  BY <3>1, <3>2
  <2>3. IdleWorker.pc = "idle" /\ IdleWorker.job = NoPayload
    BY DEF IdleWorker
  <2> QED  BY <2>1, <2>2, <2>3
<1>2. \A p \in Payloads : ~Queued(p)' /\ ~Held(p)'
  BY <1>1, AgentAssumption DEF Queued, Held
<1>3. JobInv' /\ WorkerInv' /\ StoredInv'
  BY <1>1 DEF JobInv, WorkerInv, StoredInv, Busy
<1>4. QueueInv'
  BY <1>1 DEF QueueInv
<1>5. PlaceInv'
  <2> SUFFICES ASSUME NEW q \in Payloads
               PROVE  /\ conn'[q] \in {"new", "reading", "sending"} => q \notin durable
                      /\ reply[q] # "none" => conn'[q] = "done"
    BY <1>1, <1>2 DEF PlaceInv
  <2> QED  BY <1>1 DEF AInv, PlaceInv, Open
<1>6. TruthInv'
  BY <1>1 DEF AInv, TruthInv, NoFalseAccept, RefusedNotHeld
<1> QED  BY <1>3, <1>4, <1>5, <1>6 DEF AInv

\* The draining task touches only what no worker holds.
LEMMA DrainAInv ==
    ASSUME AInv, DrainInv, TypeOK', DrainStep \/ DrainStops \/ FlusherStops PROVE AInv'
<1> DEFINE p == drainer.job
<1>1. /\ UNCHANGED <<forwarding, conn, reply, queue, worker, verdict>>
      /\ durable \subseteq durable' \cup {p} /\ durable' \subseteq durable
      /\ arrived \subseteq arrived'
      /\ durable' = durable \/ (p \in delivered /\ \A w \in Workers : worker[w].job # p)
      /\ delivered' \subseteq delivered \cup (arrived' \cap {p})
  <2>1. CASE DrainDiscard
    BY <2>1 DEF DrainDiscard, Draining, Discard, DrainInv, serverVars
  <2>2. CASE DrainDeliver \/ DrainRetry
    BY <2>2 DEF DrainDeliver, DrainRetry, Deliver, serverVars, outboxVars
  <2>3. CASE DrainStops \/ FlusherStops \/ \E q \in Payloads : DrainPick(q)
    BY <2>3 DEF DrainStops, FlusherStops, DrainPick, serverVars, outboxVars
  <2> QED  BY <2>1, <2>2, <2>3 DEF DrainStep
<1> HIDE DEF p
<1>2. JobInv' /\ QueueInv' /\ WorkerInv' /\ StoredInv'
  BY <1>1 DEF AInv, JobInv, QueueInv, WorkerInv, StoredInv
<1>3. \A q \in Payloads : (Queued(q)' <=> Queued(q)) /\ (Held(q)' <=> Held(q))
  BY <1>1 DEF Queued, Held
<1>4. PlaceInv'
  <2> SUFFICES ASSUME NEW q \in Payloads
               PROVE  /\ conn[q] \in {"new", "reading", "sending", "done"} => ~Queued(q) /\ ~Held(q)
                      /\ conn[q] \in {"new", "reading", "sending"} => verdict[q] = "none" /\ q \notin durable'
                      /\ conn[q] = "waiting" => Queued(q) \/ Held(q) \/ verdict[q] # "none"
                      /\ Queued(q) => ~Held(q) /\ verdict[q] = "none" /\ q \notin durable'
                      /\ Held(q) => verdict[q] = "none"
                      /\ reply[q] # "none" => conn[q] = "done"
    BY <1>1, <1>3 DEF PlaceInv
  <2> HIDE DEF Queued, Held
  <2> QED  BY <1>1 DEF AInv, PlaceInv
<1>5. TruthInv'
  BY <1>1 DEF AInv, TruthInv, NoFalseAccept, RefusedNotHeld
<1> QED  BY <1>2, <1>4, <1>5 DEF AInv

\* Every step of the specification keeps AInv.
LEMMA NextAInv == AInv /\ DrainInv /\ [Next]_vars => AInv'
<1> SUFFICES ASSUME AInv, DrainInv, [Next]_vars PROVE AInv'
  OBVIOUS
<1>1. TypeOK'
  BY TypeStep DEF AInv
<1>2. CASE Start \/ Shutdown \/ UNCHANGED vars
  <2>1. UNCHANGED <<forwarding, conn, reply, queue, worker, verdict, arrived, durable, delivered>>
    BY <1>2 DEF Start, Shutdown, vars, serverVars, outboxVars
  <2>2. JobInv' /\ QueueInv' /\ WorkerInv' /\ StoredInv' /\ TruthInv'
    BY <2>1 DEF AInv, JobInv, QueueInv, WorkerInv, StoredInv, TruthInv, NoFalseAccept, RefusedNotHeld
  <2>3. PlaceInv'
    BY <2>1 DEF AInv, PlaceInv, Queued, Held
  <2> QED  BY <1>1, <2>2, <2>3 DEF AInv
<1>3. CASE Exit \/ Crash
  BY <1>1, <1>3, EndStep DEF Exit, Crash
<1>4. CASE \E p \in Payloads : Connect(p) \/ Receive(p) \/ ClientHangsUp(p)
  BY <1>1, <1>4, ConnStep, EnqueueStep DEF Receive
<1>5. CASE \E w \in Workers : WorkerStep(w) \/ Panic(w)
  BY <1>1, <1>5, TakeStep, RunStep DEF WorkerStep
<1>6. CASE DrainStep \/ DrainStops \/ FlusherStops
  BY <1>1, <1>6, DrainAInv
<1> QED  BY <1>2, <1>3, <1>4, <1>5, <1>6 DEF Next

\* No request before the first start.
LEMMA InitAInv == Init => AInv /\ DrainInv
<1> SUFFICES ASSUME Init PROVE AInv /\ DrainInv
  OBVIOUS
<1>1. /\ \A t \in Transports : queue[t] = <<>> /\ Len(queue[t]) = 0
      /\ \A w \in Workers : worker[w].pc = "idle" /\ worker[w].job = NoPayload
  BY DEF Init, IdleWorker
<1>2. TypeOK
  <2>1. Capacity \in Nat /\ queue \in [Transports -> Seq(Payloads)]
    BY AgentAssumption DEF Capacity, Init
  <2>2. worker \in [Workers -> WorkerRec]
    BY DEF Init, IdleWorker, WorkerRec
  <2>3. /\ mode = "down" /\ spool = FALSE /\ arrived = {} /\ stops = 0 /\ panics = 0
        /\ durable = {} /\ accepted = {} /\ delivered = {}
        /\ conn \in [Payloads -> {"new", "reading", "sending", "waiting", "done", "gone"}]
        /\ reply \in [Payloads -> {"none", "accepted", "malformed", "failed", "refused"}]
        /\ verdict \in [Payloads -> {"none", "accepted", "malformed", "failed"}]
    BY DEF Init, OutboxInit
  <2>4. /\ forwarding \in BOOLEAN /\ flusher \in {"running", "stopped"}
        /\ drainer \in [pc : {"wait", "forward", "discard", "stopped"}, job : Payloads \cup {NoPayload}]
    BY DEF Init, AtRest
  <2>5. 0 \in 0 .. MaxStops /\ 0 \in 0 .. MaxPanics /\ \A t \in Transports : Len(queue[t]) <= Capacity
    BY <1>1, <2>1, AgentAssumption
  <2> QED  BY <2>1, <2>2, <2>3, <2>4, <2>5 DEF TypeOK, WorkerRec
<1>3. JobInv /\ QueueInv /\ WorkerInv /\ StoredInv
  BY <1>1 DEF JobInv, QueueInv, WorkerInv, StoredInv, Busy
<1>4. \A p \in Payloads : ~Queued(p) /\ ~Held(p)
  BY <1>1, AgentAssumption DEF Queued, Held
<1>5. PlaceInv /\ TruthInv
  BY <1>4 DEF Init, OutboxInit, PlaceInv, TruthInv, NoFalseAccept, RefusedNotHeld
<1>6. DrainInv
  BY DEF Init, AtRest, DrainInv
<1> QED  BY <1>2, <1>3, <1>5, <1>6 DEF AInv

\* No step takes from the drainer what it is working on.
LEMMA NextDrainInv == AInv /\ DrainInv /\ [Next]_vars => DrainInv'
<1> SUFFICES ASSUME AInv, DrainInv, [Next]_vars PROVE DrainInv'
  OBVIOUS
<1>1. CASE Start \/ Exit \/ Crash \/ DrainRetry \/ DrainDiscard \/ DrainStops
  <2>1. drainer' = AtRest("wait") \/ drainer' = AtRest("stopped")
    <3>1. CASE Start
      BY <3>1 DEF Start
    <3>2. CASE Exit \/ Crash
      BY <3>2 DEF Exit, Crash, ProcessEnds
    <3>3. CASE DrainRetry \/ DrainDiscard \/ DrainStops
      BY <3>3 DEF DrainRetry, DrainDiscard, DrainStops
    <3> QED  BY <1>1, <3>1, <3>2, <3>3
  <2>2. AtRest("wait").pc = "wait" /\ AtRest("stopped").pc = "stopped"
    BY DEF AtRest
  <2>3. drainer'.pc \in {"wait", "stopped"}
    BY <2>1, <2>2
  <2> QED  BY <2>3 DEF DrainInv
<1>2. CASE Shutdown \/ FlusherStops \/ UNCHANGED vars
           \/ \E p \in Payloads : Connect(p) \/ Receive(p) \/ ClientHangsUp(p)
  <2>1. UNCHANGED <<drainer, worker, durable, delivered>>
    BY <1>2 DEF Shutdown, FlusherStops, vars, Connect, Receive, Arrive, Enqueue, EnqueueFails, Respond,
                ClientHangsUp, serverVars, taskVars, outboxVars
  <2> QED  BY <2>1 DEF DrainInv
<1>3. ASSUME NEW w \in Workers, Take(w) PROVE DrainInv'
  <2>1. UNCHANGED <<drainer, durable, delivered>>
    BY <1>3 DEF Take, taskVars, outboxVars
  <2>2. /\ Pool[w] \in Transports /\ queue[Pool[w]] \in Seq(Payloads) /\ queue[Pool[w]] # <<>>
    BY <1>3, AgentAssumption DEF Take, AInv, TypeOK
  <2>3. Queued(Head(queue[Pool[w]])) /\ Head(queue[Pool[w]]) \in Payloads
    BY <2>2, TailQueue DEF Queued
  <2>4. Head(queue[Pool[w]]) \notin durable
    BY <2>3 DEF AInv, PlaceInv
  <2>5. \A v \in Workers : worker'[v].job \in {worker[v].job, Head(queue[Pool[w]])}
    BY <1>3 DEF Take, AInv, TypeOK
  <2> QED  BY <2>1, <2>4, <2>5 DEF DrainInv
<1>4. ASSUME NEW w \in Workers, Process(w) \/ ForwardOk(w) \/ ForwardErr(w) \/ PushRefused(w)
                                 \/ PushStored(w) \/ PushAccepted(w) \/ Panic(w)
      PROVE  DrainInv'
  <2>1. UNCHANGED <<drainer, delivered>> /\ durable \subseteq durable'
    BY <1>4 DEF Process, ForwardOk, ForwardErr, PushRefused, PushStored, PushAccepted, Panic,
                Store, Accept, taskVars, outboxVars
  <2>2. \A v \in Workers : worker'[v].job \in {worker[v].job, NoPayload}
    BY <1>4 DEF Process, ForwardOk, ForwardErr, PushRefused, PushStored, PushAccepted, Panic,
                Answer, Goto, IdleWorker, AInv, TypeOK
  <2>3. NoPayload \notin durable
    BY AgentAssumption DEF AInv, TypeOK
  <2> QED  BY <2>1, <2>2, <2>3 DEF DrainInv
<1>5. ASSUME NEW p \in Payloads, DrainPick(p) PROVE DrainInv'
  BY <1>5 DEF DrainPick, Published, DrainInv, serverVars, outboxVars
<1>6. CASE DrainDeliver
  BY <1>6 DEF DrainDeliver, Draining, Deliver, DrainInv, AInv, TypeOK, serverVars
<1> QED  BY <1>1, <1>2, <1>3, <1>4, <1>5, <1>6 DEF Next, WorkerStep, DrainStep

\* The inductive invariant holds in every reachable state.
THEOREM AgentInvariant == Spec => [](AInv /\ DrainInv)
BY InitAInv, NextAInv, NextDrainInv, PTL DEF Spec

-----------------------------------------------------------------------------
(* What follows from it *)

\* Receivers, queues and workers are well typed, and no queue exceeds its
\* capacity, in every run of any size.
THEOREM AgentTyped == Spec => []TypeOK
<1>1. AInv => TypeOK
  BY DEF AInv
<1> QED  BY <1>1, AgentInvariant, PTL

\* "Never a false accept" (server.rs line 121), for any number of requests and
\* workers, through crashes, panics, hang-ups and shutdowns.
THEOREM NeverAFalseAccept == Spec => []NoFalseAccept
<1>1. AInv => NoFalseAccept
  BY DEF AInv, TruthInv
<1> QED  BY <1>1, AgentInvariant, PTL

\* What a client is told to send again is not on stable storage.
THEOREM RetriedNotHeld == Spec => []RefusedNotHeld
<1>1. AInv => RefusedNotHeld
  BY DEF AInv, TruthInv
<1> QED  BY <1>1, AgentInvariant, PTL

\* A request has one owner on its way from the receiver to its answer: no job is
\* run twice, dropped by a worker that lives, or left without an answer to come.
THEOREM ExactlyOneOwner == Spec => []OneOwner
<1>1. ASSUME AInv, NEW p \in Payloads
      PROVE  LET queued  == {x \in Transports \X (1 .. Capacity) :
                                x[2] <= Len(queue[x[1]]) /\ queue[x[1]][x[2]] = p}
                 running == {w \in Workers : worker[w].job = p}
             IN  /\ \A x, y \in queued : x = y
                 /\ \A v, w \in running : v = w
                 /\ queued # {} => running = {} /\ verdict[p] = "none"
                 /\ running # {} => verdict[p] = "none"
                 /\ conn[p] = "waiting" => queued # {} \/ running # {} \/ verdict[p] # "none"
  <2> DEFINE queued  == {x \in Transports \X (1 .. Capacity) :
                            x[2] <= Len(queue[x[1]]) /\ queue[x[1]][x[2]] = p}
             running == {w \in Workers : worker[w].job = p}
  <2>1. \A t \in Transports : Len(queue[t]) \in Nat /\ Len(queue[t]) <= Capacity
    BY <1>1 DEF AInv, TypeOK
  <2>2. Capacity \in Nat
    BY AgentAssumption DEF Capacity
  <2>3. ASSUME NEW x \in queued
        PROVE  /\ x = <<x[1], x[2]>> /\ x[1] \in Transports
               /\ x[2] \in 1 .. Len(queue[x[1]]) /\ queue[x[1]][x[2]] = p
    BY <2>1, <2>2
  <2>4. queued # {} <=> Queued(p)
    <3>1. ASSUME queued # {} PROVE Queued(p)
      BY <2>3, <3>1 DEF Queued
    <3>2. ASSUME Queued(p) PROVE queued # {}
      <4>1. PICK t \in Transports : \E i \in 1 .. Len(queue[t]) : queue[t][i] = p
        BY <3>2 DEF Queued
      <4>2. PICK i \in 1 .. Len(queue[t]) : queue[t][i] = p
        BY <4>1
      <4>3. i \in 1 .. Capacity /\ i <= Len(queue[t])
        BY <2>1, <2>2
      <4>4. <<t, i>> \in Transports \X (1 .. Capacity) /\ <<t, i>>[1] = t /\ <<t, i>>[2] = i
        BY <4>3
      <4>5. <<t, i>> \in queued
        BY <4>2, <4>3, <4>4
      <4> QED  BY <4>5
    <3> QED  BY <3>1, <3>2
  <2>5. \A x, y \in queued : x = y
    <3>1. ASSUME NEW x \in queued, NEW y \in queued PROVE x[1] = y[1] /\ x[2] = y[2]
      <4> HIDE DEF queued
      <4> QED  BY <1>1, <2>3 DEF AInv, QueueInv
    <3> HIDE DEF queued
    <3> QED  BY <2>3, <3>1
  <2>6. (running # {} <=> Held(p)) /\ \A v, w \in running : v = w
    BY <1>1, AgentAssumption DEF AInv, WorkerInv, Held
  <2> HIDE DEF queued, running
  <2>7. /\ queued # {} => running = {} /\ verdict[p] = "none"
        /\ running # {} => verdict[p] = "none"
        /\ conn[p] = "waiting" => queued # {} \/ running # {} \/ verdict[p] # "none"
    BY <1>1, <2>4, <2>6 DEF AInv, PlaceInv
  <2> QED  BY <2>5, <2>6, <2>7 DEF queued, running
<1>2. AInv => OneOwner
  BY <1>1 DEF OneOwner
<1> QED  BY <1>2, AgentInvariant, PTL

\* The agent uses the spool only as the outbox allows: it stores before it
\* accepts, and nothing leaves stable storage before it was delivered.
THEOREM AgentUsesOutbox == Spec => OutboxSpec
<1>1. Init => OutboxInit
  BY DEF Init
<1>2. AInv /\ [Next]_vars => [OutboxNext]_outboxVars
  <2> SUFFICES ASSUME AInv, [Next]_vars PROVE OutboxNext \/ UNCHANGED outboxVars
    OBVIOUS
  <2>1. ASSUME NEW w \in Workers, PushStored(w) \/ PushAccepted(w) PROVE OutboxNext
    <3>1. worker[w].job \in Payloads
      BY <2>1 DEF PushStored, PushAccepted, At, AInv, JobInv, TypeOK, Busy
    <3> QED  BY <2>1, <3>1 DEF PushStored, PushAccepted, OutboxNext
  <2>2. CASE DrainDeliver \/ DrainRetry \/ DrainDiscard
    <3>1. Deliver(drainer.job) \/ Discard(drainer.job) \/ UNCHANGED outboxVars
      BY <2>2 DEF DrainDeliver, DrainRetry, DrainDiscard
    <3>2. ASSUME Deliver(drainer.job) \/ Discard(drainer.job) PROVE drainer.job \in Payloads
      BY <3>2 DEF Deliver, Discard, AInv, TypeOK
    <3> QED  BY <3>1, <3>2 DEF OutboxNext
  <2> QED
    BY <2>1, <2>2
    DEF Next, Start, Shutdown, Exit, Crash, ProcessEnds, Connect, Receive, Arrive, Enqueue, EnqueueFails,
        Respond, ClientHangsUp, WorkerStep, Take, Process, ForwardOk, ForwardErr, PushRefused, Panic,
        DrainStep, DrainPick, DrainStops, FlusherStops, vars
<1> QED  BY <1>1, <1>2, AgentInvariant, PTL DEF Spec, OutboxSpec
=============================================================================
