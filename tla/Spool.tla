-------------------------------- MODULE Spool --------------------------------
(***************************************************************************)
(* The durable destination spool: src/src/spool.rs.                        *)
(*                                                                         *)
(* Pipeline workers (Writers) call `push` concurrently; one task runs      *)
(* `run_drain_loop`.  The mutex is held for the reservation, the publish,  *)
(* the rollback, the pick and the forget only, so each of these and each   *)
(* file operation between them is an action of its own.  The process may   *)
(* crash between any two of them, and the machine may lose power.          *)
(*                                                                         *)
(* A payload is an identity with a size.  Each is handed to `push` at most *)
(* once: what a client sends again is another payload.                     *)
(***************************************************************************)
EXTENDS Integers, FiniteSets, Functions

CONSTANTS
    Writers,          \* tasks that may be inside `push`
    Payloads,         \* governed payloads whose forward failed
    Size,             \* their lengths in bytes
    MaxBytes,         \* max_bytes, the cap of the spool
    Rejected,         \* payloads the destination answers with a non-2xx for ever
    NoPayload,        \* no payload
    Torn,             \* content of a file whose data did not reach the disk
    MaxFaults,        \* bound on failing file operations
    MaxCrashes,       \* bound on crashes and shutdowns
    MaxPowerLosses    \* bound on power losses

ASSUME SpoolAssumption ==
    /\ Size \in [Payloads -> Nat]
    /\ MaxBytes \in Nat
    /\ Rejected \subseteq Payloads
    /\ NoPayload \notin Payloads
    /\ Torn \notin Payloads \cup {NoPayload}
    /\ MaxFaults \in Nat /\ MaxCrashes \in Nat /\ MaxPowerLosses \in Nat

VARIABLES
    mode,         \* "down": no open spool; "up": `open` has returned one
    \* the directory: survives a crash of the process
    otlp,         \* <seq>.otlp files: seq -> content
    tmp,          \* <seq>.otlp.tmp files: seq -> bytes written
    unsynced,     \* sequences whose file data a power loss may lose
    renamed,      \* sequences whose rename a power loss may undo
    \* struct State
    next_seq, total_bytes,
    pending,      \* seq -> byte length
    \* the tasks
    push,         \* where each writer is in `push`
    drain,        \* where the draining task is
    \* history
    result,       \* what became of each payload's `push`
    delivered,    \* payloads the destination has received
    preds,        \* payloads acknowledged before this one's reservation
    spent         \* faults, crashes and power losses so far

disk  == <<otlp, tmp, unsynced, renamed>>
state == <<next_seq, total_bytes, pending>>
vars  == <<mode, disk, state, push, drain, result, delivered, preds, spent>>

-----------------------------------------------------------------------------
Content == Payloads \cup {Torn}
Seqs    == Nat

ByteLen(c) == IF c = Torn THEN 0 ELSE Size[c]

Empty        == [x \in {} |-> 0]
Put(f, k, v) == [x \in DOMAIN f \cup {k} |-> IF x = k THEN v ELSE f[x]]
Drop(f, K)   == Restrict(f, DOMAIN f \ K)
SatSub(a, b) == IF a < b THEN 0 ELSE a - b

\* The individual bytes behind a map from sequences to lengths: the sum of the
\* lengths is their number.
Bytes(lens)   == UNION {{s} \X (1 .. lens[s]) : s \in DOMAIN lens}
NBytes(lens)  == Cardinality(Bytes(lens))
Lengths(files) == [s \in DOMAIN files |-> ByteLen(files[s])]

IdlePush  == [pc |-> "idle", seq |-> 0, payload |-> NoPayload]
IdleDrain == [pc |-> "idle", seq |-> 0, len |-> 0, body |-> NoPayload]

Acked == {p \in Payloads : result[p] = "ok"}

\* Writers that hold a reservation under the cap.
Reserving == {w \in Writers : push[w].pc # "idle"}

Spend(what) == spent' = [spent EXCEPT ![what] = @ + 1]

Init ==
    /\ mode = "down"
    /\ otlp = Empty /\ tmp = Empty /\ unsynced = {} /\ renamed = {}
    /\ next_seq = 0 /\ total_bytes = 0 /\ pending = Empty
    /\ push = [w \in Writers |-> IdlePush]
    /\ drain = IdleDrain
    /\ result = [p \in Payloads |-> "untried"]
    /\ delivered = {}
    /\ preds = [p \in Payloads |-> {}]
    /\ spent = [faults |-> 0, crashes |-> 0, power |-> 0]

-----------------------------------------------------------------------------
(* Spool::open: sweep *.tmp (a failing removal is ignored), recount *.otlp, *)
(* resume the sequence after the highest one found.                         *)

\* Mutant: resumes at the highest published sequence, not after it.
ResumeSeqsAtMax == {n \in {0} \cup DOMAIN otlp : \A s \in DOMAIN otlp : s <= n}

\* One past every published sequence: max + 1, or 0 for an empty directory.
ResumeSeqs == {n \in {0} \cup {s + 1 : s \in DOMAIN otlp} : \A s \in DOMAIN otlp : s < n}

\* Mutant: starts with an empty backlog.
RecountForgetsBacklog == next_seq' \in ResumeSeqs /\ pending' = Empty /\ total_bytes' = 0

Recount ==
    /\ next_seq' \in ResumeSeqs
    /\ pending' = Lengths(otlp)
    /\ total_bytes' = NBytes(Lengths(otlp))

Open ==
    /\ mode = "down"
    /\ mode' = "up"
    /\ Recount
    /\ \/ tmp' = Empty /\ UNCHANGED spent
       \/ /\ spent.faults < MaxFaults /\ Spend("faults")
          /\ \E left \in (SUBSET DOMAIN tmp) \ {{}} : tmp' = Restrict(tmp, left)
    /\ UNCHANGED <<otlp, unsynced, renamed, push, drain, result, delivered, preds>>

-----------------------------------------------------------------------------
(* Spool::push *)

At(w, pc)   == mode = "up" /\ push[w].pc = pc
Goto(w, pc) == push' = [push EXCEPT ![w].pc = pc]

\* Mutant: compares the bytes held already, without the new ones.
FitsBeforeAdding(p) == total_bytes <= MaxBytes

Fits(p) == total_bytes + Size[p] <= MaxBytes

PushFull(w, p) ==
    /\ At(w, "idle") /\ result[p] = "untried"
    /\ ~Fits(p)
    /\ result' = [result EXCEPT ![p] = "full"]
    /\ UNCHANGED <<mode, disk, state, push, drain, delivered, preds, spent>>

PushReserve(w, p) ==
    /\ At(w, "idle") /\ result[p] = "untried"
    /\ Fits(p)
    /\ push' = [push EXCEPT ![w] = [pc |-> "create", seq |-> next_seq, payload |-> p]]
    /\ next_seq' = next_seq + 1
    /\ total_bytes' = total_bytes + Size[p]
    /\ result' = [result EXCEPT ![p] = "pushing"]
    /\ preds' = [preds EXCEPT ![p] = Acked]
    /\ UNCHANGED <<mode, disk, pending, drain, delivered, spent>>

\* File::create truncates a file of that name.
PushCreate(w) ==
    /\ At(w, "create") /\ Goto(w, "write")
    /\ tmp' = Put(tmp, push[w].seq, 0)
    /\ unsynced' = unsynced \cup {push[w].seq}
    /\ UNCHANGED <<mode, otlp, renamed, state, drain, result, delivered, preds, spent>>

\* Mutant: renames without fsync.
PushWriteNoSync(w) ==
    /\ At(w, "write") /\ Goto(w, "rename")
    /\ tmp' = Put(tmp, push[w].seq, Size[push[w].payload])
    /\ UNCHANGED <<mode, otlp, unsynced, renamed, state, drain, result, delivered, preds, spent>>

PushWrite(w) ==
    /\ At(w, "write") /\ Goto(w, "sync")
    /\ tmp' = Put(tmp, push[w].seq, Size[push[w].payload])
    /\ UNCHANGED <<mode, otlp, unsynced, renamed, state, drain, result, delivered, preds, spent>>

\* Mutant: acknowledges the tmp file.
PushSyncNoRename(w) ==
    /\ At(w, "sync") /\ Goto(w, "publish")
    /\ unsynced' = unsynced \ {push[w].seq}
    /\ UNCHANGED <<mode, otlp, tmp, renamed, state, drain, result, delivered, preds, spent>>

PushSync(w) ==
    /\ At(w, "sync") /\ Goto(w, "rename")
    /\ unsynced' = unsynced \ {push[w].seq}
    /\ UNCHANGED <<mode, otlp, tmp, renamed, state, drain, result, delivered, preds, spent>>

\* rename replaces a file of the target name; the directory is not fsynced.
PushRename(w) ==
    /\ At(w, "rename") /\ Goto(w, "publish")
    /\ otlp' = Put(otlp, push[w].seq, push[w].payload)
    /\ tmp' = Drop(tmp, {push[w].seq})
    /\ renamed' = renamed \cup {push[w].seq}
    /\ UNCHANGED <<mode, unsynced, state, drain, result, delivered, preds, spent>>

PushPublish(w) ==
    /\ At(w, "publish")
    /\ pending' = Put(pending, push[w].seq, Size[push[w].payload])
    /\ push' = [push EXCEPT ![w] = IdlePush]
    /\ result' = [result EXCEPT ![push[w].payload] = "ok"]
    /\ UNCHANGED <<mode, disk, next_seq, total_bytes, drain, delivered, preds, spent>>

\* Mutant: a fault reported after the rename is rolled back too.
PushIoFaultAfterRename(w) ==
    /\ mode = "up" /\ push[w].pc \in {"create", "write", "sync", "rename", "publish"}
    /\ spent.faults < MaxFaults /\ Spend("faults")
    /\ Goto(w, "rollback")
    /\ UNCHANGED <<mode, disk, state, drain, result, delivered, preds>>

\* One of the four file operations fails; a failing write may have written a
\* part.  What is on disk stays there.
PushIoFault(w) ==
    /\ mode = "up" /\ push[w].pc \in {"create", "write", "sync", "rename"}
    /\ spent.faults < MaxFaults /\ Spend("faults")
    /\ Goto(w, "rollback")
    /\ \/ UNCHANGED tmp
       \/ /\ push[w].pc = "write"
          /\ \E n \in 1 .. Size[push[w].payload] : tmp' = Put(tmp, push[w].seq, n)
    /\ UNCHANGED <<mode, otlp, unsynced, renamed, state, drain, result, delivered, preds>>

\* Mutant: keeps the reservation.
PushRollbackLeaks(w) ==
    /\ At(w, "rollback")
    /\ push' = [push EXCEPT ![w] = IdlePush]
    /\ result' = [result EXCEPT ![push[w].payload] = "io"]
    /\ UNCHANGED <<mode, disk, state, drain, delivered, preds, spent>>

\* Mutant: releases the reservation twice, and without saturating.
PushRollbackTwice(w) ==
    /\ At(w, "rollback")
    /\ total_bytes' = total_bytes - 2 * Size[push[w].payload]
    /\ push' = [push EXCEPT ![w] = IdlePush]
    /\ result' = [result EXCEPT ![push[w].payload] = "io"]
    /\ UNCHANGED <<mode, disk, next_seq, pending, drain, delivered, preds, spent>>

PushRollback(w) ==
    /\ At(w, "rollback")
    /\ total_bytes' = SatSub(total_bytes, Size[push[w].payload])
    /\ push' = [push EXCEPT ![w] = IdlePush]
    /\ result' = [result EXCEPT ![push[w].payload] = "io"]
    /\ UNCHANGED <<mode, disk, next_seq, pending, drain, delivered, preds, spent>>

-----------------------------------------------------------------------------
(* Spool::drain_once, called over and over by run_drain_loop; the wait      *)
(* between two calls is the time the task stays in "idle".                  *)

DrainAt(pc) == mode = "up" /\ drain.pc = pc

DrainPick ==
    /\ DrainAt("idle")
    /\ \E s \in DOMAIN pending :
          /\ \A t \in DOMAIN pending : s <= t
          /\ drain' = [pc |-> "read", seq |-> s, len |-> pending[s], body |-> NoPayload]
    /\ UNCHANGED <<mode, disk, state, push, result, delivered, preds, spent>>

\* DrainOutcome::Idle
DrainIdle ==
    /\ DrainAt("idle")
    /\ DOMAIN pending = {}
    /\ UNCHANGED vars

DrainRead ==
    /\ DrainAt("read")
    /\ drain.seq \in DOMAIN otlp
    /\ drain' = [drain EXCEPT !.pc = "forward", !.body = otlp[drain.seq]]
    /\ UNCHANGED <<mode, disk, state, push, result, delivered, preds, spent>>

\* Mutant: gives up the entry and goes on with the next.
DrainUnreadableDrops ==
    /\ DrainAt("read")
    /\ spent.faults < MaxFaults /\ Spend("faults")
    /\ pending' = Drop(pending, {drain.seq})
    /\ total_bytes' = SatSub(total_bytes, drain.len)
    /\ drain' = IdleDrain
    /\ UNCHANGED <<mode, disk, next_seq, push, result, delivered, preds>>

\* The read fails: DrainOutcome::Retry with the entry kept.
DrainUnreadable ==
    /\ DrainAt("read")
    /\ IF drain.seq \in DOMAIN otlp
       THEN spent.faults < MaxFaults /\ Spend("faults")
       ELSE UNCHANGED spent
    /\ drain' = IdleDrain
    /\ UNCHANGED <<mode, disk, state, push, result, delivered, preds>>

DrainForwardOk ==
    /\ DrainAt("forward")
    /\ drain.body \notin Rejected
    /\ delivered' = delivered \cup {drain.body}
    /\ drain' = [drain EXCEPT !.pc = "remove"]
    /\ UNCHANGED <<mode, disk, state, push, result, preds, spent>>

\* Mutant: removes the payload although it was not delivered.
DrainForwardErrRemoves ==
    /\ DrainAt("forward")
    /\ drain' = [drain EXCEPT !.pc = "remove"]
    /\ UNCHANGED <<mode, disk, state, push, result, delivered, preds, spent>>

\* DrainOutcome::Retry.  The destination may have taken the payload although
\* the answer was lost.
DrainForwardErr ==
    /\ DrainAt("forward")
    /\ \/ UNCHANGED delivered
       \/ drain.body \notin Rejected /\ delivered' = delivered \cup {drain.body}
    /\ drain' = IdleDrain
    /\ UNCHANGED <<mode, disk, state, push, result, preds, spent>>

\* The result of remove_file is ignored: a failing removal leaves the file.
DrainRemove ==
    /\ DrainAt("remove")
    /\ drain' = [drain EXCEPT !.pc = "forget"]
    /\ \/ /\ otlp' = Drop(otlp, {drain.seq})
          /\ renamed' = renamed \ {drain.seq}
          /\ UNCHANGED spent
       \/ /\ spent.faults < MaxFaults /\ Spend("faults")
          /\ UNCHANGED <<otlp, renamed>>
    /\ UNCHANGED <<mode, tmp, unsynced, state, push, result, delivered, preds>>

DrainForget ==
    /\ DrainAt("forget")
    /\ IF drain.seq \in DOMAIN pending
       THEN /\ pending' = Drop(pending, {drain.seq})
            /\ total_bytes' = SatSub(total_bytes, drain.len)
       ELSE UNCHANGED <<pending, total_bytes>>
    /\ drain' = IdleDrain
    /\ UNCHANGED <<mode, disk, next_seq, push, result, delivered, preds, spent>>

\* The shutdown signal: run_drain_loop breaks at its select, between two calls
\* of drain_once, while the workers finish what they hold.
DrainStop ==
    /\ DrainAt("idle")
    /\ spent.crashes < MaxCrashes /\ Spend("crashes")
    /\ drain' = [IdleDrain EXCEPT !.pc = "stopped"]
    /\ UNCHANGED <<mode, disk, state, push, result, delivered, preds>>

-----------------------------------------------------------------------------
(* The end of the process *)

\* What is in memory is gone, and so is the connection of every push that was
\* under way.
MemoryLost ==
    /\ mode = "up" /\ mode' = "down"
    /\ next_seq' = 0 /\ total_bytes' = 0 /\ pending' = Empty
    /\ push' = [w \in Writers |-> IdlePush]
    /\ drain' = IdleDrain
    /\ result' = [p \in Payloads |-> IF result[p] = "pushing" THEN "lost" ELSE result[p]]
    /\ UNCHANGED <<delivered, preds>>

\* The end of a shutdown.  main waits for the connections, not for the
\* workers: a push whose client has gone is cut off.
Exit ==
    /\ drain.pc = "stopped"
    /\ MemoryLost
    /\ UNCHANGED <<disk, spent>>

Crash ==
    /\ spent.crashes < MaxCrashes /\ Spend("crashes")
    /\ MemoryLost
    /\ UNCHANGED disk

\* A power loss may also undo any rename that the file system had not made
\* durable, and lose any data that was not fsynced.  (It may undo a removal too:
\* that leaves the same directory as a removal that fails.)
PowerLoss ==
    /\ spent.power < MaxPowerLosses /\ Spend("power")
    /\ MemoryLost
    /\ \E undone \in SUBSET (renamed \cap DOMAIN otlp), torn \in SUBSET (unsynced \cap DOMAIN otlp) :
          /\ otlp' = [s \in DOMAIN otlp \ undone |-> IF s \in torn THEN Torn ELSE otlp[s]]
          /\ tmp' = [s \in DOMAIN tmp \cup undone |->
                        IF s \in undone THEN ByteLen(otlp[s]) ELSE tmp[s]]
    /\ unsynced' = {} /\ renamed' = {}

-----------------------------------------------------------------------------
PushStep(w) ==
    \/ PushCreate(w) \/ PushWrite(w) \/ PushSync(w) \/ PushRename(w)
    \/ PushPublish(w) \/ PushRollback(w)

DrainStep ==
    \/ DrainPick \/ DrainIdle \/ DrainRead \/ DrainUnreadable
    \/ DrainForwardOk \/ DrainForwardErr
    \/ DrainRemove \/ DrainForget

Next ==
    \/ Open
    \/ \E w \in Writers, p \in Payloads : PushFull(w, p) \/ PushReserve(w, p)
    \/ \E w \in Writers : PushStep(w) \/ PushIoFault(w)
    \/ DrainStep \/ DrainStop
    \/ Exit \/ Crash \/ PowerLoss

Spec == Init /\ [][Next]_vars

\* The runtime polls every task that is ready; a stopped agent is started
\* again; a forward returns, and the destination is not down for ever (but may
\* refuse a payload it does not like, for ever).
Fairness ==
    /\ WF_vars(Open) /\ WF_vars(Exit)
    /\ \A w \in Writers : WF_vars(PushStep(w))
    /\ WF_vars(DrainPick) /\ WF_vars(DrainRead)
    /\ WF_vars(DrainForwardOk \/ DrainForwardErr) /\ SF_vars(DrainForwardOk)
    /\ WF_vars(DrainRemove) /\ WF_vars(DrainForget)

FairSpec == Spec /\ Fairness

-----------------------------------------------------------------------------
(* Properties *)

PushPCs  == {"idle", "create", "write", "sync", "rename", "publish", "rollback"}
DrainPCs == {"idle", "read", "forward", "remove", "forget", "stopped"}
PushRec  == [pc : PushPCs, seq : Nat, payload : Payloads \cup {NoPayload}]
DrainRec == [pc : DrainPCs, seq : Nat, len : Nat, body : Content \cup {NoPayload}]
SpentRec == [faults : 0 .. MaxFaults, crashes : 0 .. MaxCrashes, power : 0 .. MaxPowerLosses]
Results  == {"untried", "pushing", "ok", "full", "io", "lost"}

IsFiles(f, S) == f \in [DOMAIN f -> S] /\ DOMAIN f \subseteq Nat /\ IsFiniteSet(DOMAIN f)

\* The fields of Spool and State, the directory and the places of the tasks
\* have their types.
TypeOK ==
    /\ mode \in {"down", "up"}
    /\ IsFiles(otlp, Content) /\ IsFiles(tmp, Nat) /\ IsFiles(pending, Nat)
    /\ unsynced \in SUBSET Nat /\ renamed \in SUBSET Nat
    /\ next_seq \in Nat /\ total_bytes \in Nat
    /\ push \in [Writers -> PushRec] /\ drain \in DrainRec
    /\ result \in [Payloads -> Results]
    /\ delivered \in SUBSET Content
    /\ preds \in [Payloads -> SUBSET Payloads]
    /\ spent \in SpentRec

\* The payloads a reader of the directory would find.
Durable == {otlp[s] : s \in DOMAIN otlp} \cap Payloads

\* `push` says Ok only for a payload that is durable, and it stays durable until
\* the destination has it (lines 3-7): whatever crashes, fails or is retried.
AcceptedDurable == Acked \subseteq Durable \cup delivered

\* A sender told to try again ("full" or "io") is not told so of a payload that
\* the spool kept, or delivered: the two copies would both reach the destination.
RefusedNotHeld ==
    \A p \in Payloads : result[p] \in {"full", "io"} => p \notin Durable \cup delivered

\* The bytes charged against the cap: published files and open reservations.
Charged ==
    [s \in DOMAIN pending \cup {push[w].seq : w \in Reserving} |->
        IF s \in DOMAIN pending THEN pending[s]
        ELSE Size[push[CHOOSE w \in Reserving : push[w].seq = s].payload]]

\* total_bytes is exactly the published bytes plus the bytes reserved by the
\* pushes under way: no release is forgotten or done twice, so that
\* saturating_sub never saturates and the cap neither leaks nor drifts.
Accounting == mode = "up" => total_bytes = NBytes(Charged)

\* What lies in the directory, published or partial, stays under the cap; each
\* failing file operation may leave one cap's worth behind that nothing charges
\* (a tmp file of a failed push, a file whose removal failed), and no more:
\* crashes, recoveries and overlapping pushes add nothing of their own.
DiskBounded ==
    NBytes(Lengths(otlp)) + NBytes(tmp) <= (1 + spent.faults) * MaxBytes

\* A payload acknowledged before another's push began is delivered before it:
\* the drain is FIFO across concurrent pushes, crashes and retries (line 59).
FifoByAcceptance == \A p \in delivered \cap Payloads : preds[p] \subseteq delivered

\* A published file always holds one whole payload (lines 9-11): a power loss
\* leaves at worst a stray tmp file.
PublishedComplete == Torn \notin {otlp[s] : s \in DOMAIN otlp} \cup delivered

\* No step rewrites a published file: the sequence resumed by `open` never
\* collides with a payload still waiting.
NoOverwrite == [][\A s \in DOMAIN otlp \cap DOMAIN otlp' : otlp'[s] = otlp[s]]_vars

\* The oldest entry is a payload that the destination refuses for ever.
Blocked ==
    \E s \in DOMAIN pending \cap DOMAIN otlp :
        otlp[s] \in Rejected /\ \A t \in DOMAIN pending : s <= t

\* Every acknowledged payload reaches the destination (line 6, "data is delayed,
\* never lost"), unless one that the destination always refuses is before it (the
\* drain retries the oldest payload only, whatever the error was), or a power loss
\* took its file back.
TakenBack(p)   == spent.power > 0 /\ p \notin Durable
AckedDelivered ==
    \A p \in Payloads : p \in Acked ~> p \in delivered \/ Blocked \/ TakenBack(p)

\* The spool keeps the promise of the abstract outbox.
O == INSTANCE Outbox WITH durable <- Durable, accepted <- Acked

RefinesOutbox == O!OutboxSpec
=============================================================================
