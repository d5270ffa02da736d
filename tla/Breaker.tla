------------------------------- MODULE Breaker -------------------------------
(***************************************************************************)
(* The circuit breaker of the redaction stage, src/src/breaker.rs, as      *)
(* Pipeline::process uses it (src/src/pipeline.rs, lines 161-179): a       *)
(* worker reads the clock once, asks allow_at, runs the stage, and reports *)
(* a fault with the time it read at the start.  The lock covers allow_at   *)
(* and record_fault_at, never the stage between them, so any number of     *)
(* workers may be inside the stage when the breaker opens or closes.       *)
(***************************************************************************)
EXTENDS Integers, Sequences, FiniteSets

CONSTANTS
    Callers,      \* workers inside Pipeline::process
    Threshold,    \* the argument of `new`, before max(1)
    Window, Cooldown,
    MaxTime,      \* bound on the clock
    MaxFaults     \* bound on the faults between two closings

ASSUME BreakerAssumption ==
    /\ Threshold \in Nat /\ Window \in Nat /\ Cooldown \in Nat
    /\ MaxTime \in Nat /\ MaxFaults \in Nat

VARIABLES
    clock,                             \* Instant::now()
    window_start, faults, opened_at,   \* struct Inner
    caller,      \* where each worker is, and its `now`
    log,         \* history: the time of each fault reported since the last closing
    trippedAt,   \* history: clock when the breaker last opened
    warned       \* history: "tripped" warnings since the last closing

inner   == <<window_start, faults, opened_at>>
history == <<log, trippedAt, warned>>
vars    == <<clock, inner, caller, history>>

None == -1    \* Option::None

threshold == IF Threshold < 1 THEN 1 ELSE Threshold

\* Instant::saturating_duration_since
Since(now, earlier) == IF now < earlier THEN 0 ELSE now - earlier

At(c, pc)   == caller[c].pc = pc
Goto(c, pc) == caller' = [caller EXCEPT ![c].pc = pc]

Init ==
    /\ clock = 0
    /\ window_start = 0 /\ faults = 0 /\ opened_at = None
    /\ caller = [c \in Callers |-> [pc |-> "idle", now |-> 0]]
    /\ log = <<>> /\ trippedAt = None /\ warned = 0

Tick ==
    /\ clock < MaxTime
    /\ clock' = clock + 1
    /\ UNCHANGED <<inner, caller, history>>

ReadClock(c) ==
    /\ At(c, "idle")
    /\ caller' = [caller EXCEPT ![c] = [pc |-> "allow", now |-> clock]]
    /\ UNCHANGED <<clock, inner, history>>

-----------------------------------------------------------------------------
(* allow_at(now) *)

\* Mutant: the cooldown lasts one moment longer.
CoolingDownInclusive(now) == opened_at # None /\ Since(now, opened_at) <= Cooldown

\* Open and still cooling down: the stage is skipped.
CoolingDown(now) == opened_at # None /\ Since(now, opened_at) < Cooldown

Skip(c) ==
    /\ At(c, "allow") /\ CoolingDown(caller[c].now)
    /\ Goto(c, "skipped")
    /\ UNCHANGED <<clock, inner, history>>

AllowClosed(c) ==
    /\ At(c, "allow") /\ opened_at = None
    /\ Goto(c, "stage")
    /\ UNCHANGED <<clock, inner, history>>

\* Mutant: closes with the old count.
RecloseKeepsCount(now) == opened_at' = None /\ window_start' = now /\ UNCHANGED faults

\* The cooldown has elapsed: forget everything and let the stage run.
Reclose(now) == opened_at' = None /\ faults' = 0 /\ window_start' = now

AllowReclose(c) ==
    /\ At(c, "allow") /\ opened_at # None /\ ~CoolingDown(caller[c].now)
    /\ Reclose(caller[c].now)
    /\ Goto(c, "stage")
    /\ log' = <<>> /\ warned' = 0
    /\ UNCHANGED <<clock, trippedAt>>

-----------------------------------------------------------------------------
(* The stage, outside the lock *)

\* The request leaves the stage, redacted or skipped.
Finish(c) ==
    /\ At(c, "stage") \/ At(c, "skipped")
    /\ Goto(c, "idle")
    /\ UNCHANGED <<clock, inner, history>>

StageFaults(c) ==
    /\ At(c, "stage")
    /\ Len(log) + Cardinality({d \in Callers : At(d, "record")}) < MaxFaults
    /\ Goto(c, "record")
    /\ UNCHANGED <<clock, inner, history>>

-----------------------------------------------------------------------------
(* record_fault_at(now) *)

\* Mutant: the fault that starts a window is not counted.
CountForgetsFirst(now) ==
    IF Since(now, window_start) > Window
    THEN window_start' = now /\ faults' = 0
    ELSE faults' = faults + 1 /\ UNCHANGED window_start

\* A window that has run out starts again at this fault.
Count(now) ==
    IF Since(now, window_start) > Window
    THEN window_start' = now /\ faults' = 1
    ELSE faults' = faults + 1 /\ UNCHANGED window_start

\* Mutants: one fault too many; every further fault opens it again.
TripsLate  == faults' > threshold /\ opened_at = None
TripsAgain == faults' >= threshold

Trips == faults' >= threshold /\ opened_at = None

\* Mutant: stores the end of the cooldown for its start.
RecordFaultStoresEnd(c) ==
    /\ At(c, "record")
    /\ Count(caller[c].now)
    /\ IF Trips
       THEN opened_at' = caller[c].now + Cooldown /\ trippedAt' = clock /\ warned' = warned + 1
       ELSE UNCHANGED <<opened_at, trippedAt, warned>>
    /\ log' = Append(log, caller[c].now)
    /\ Goto(c, "idle")
    /\ UNCHANGED clock

RecordFault(c) ==
    /\ At(c, "record")
    /\ Count(caller[c].now)
    /\ IF Trips
       THEN opened_at' = caller[c].now /\ warned' = warned + 1
       ELSE UNCHANGED <<opened_at, warned>>
    /\ trippedAt' = IF opened_at = None /\ opened_at' # None THEN clock ELSE trippedAt
    /\ log' = Append(log, caller[c].now)
    /\ Goto(c, "idle")
    /\ UNCHANGED clock

Next ==
    \/ Tick
    \/ \E c \in Callers :
          \/ ReadClock(c) \/ Skip(c) \/ AllowClosed(c) \/ AllowReclose(c)
          \/ Finish(c) \/ StageFaults(c) \/ RecordFault(c)

Spec == Init /\ [][Next]_vars

-----------------------------------------------------------------------------
(* Properties *)

\* The fields of Inner and the place of each worker have their types; no time
\* is in the future.
TypeOK ==
    /\ clock \in 0 .. MaxTime
    /\ window_start \in 0 .. clock /\ faults \in Nat
    /\ opened_at \in {None} \cup 0 .. clock
    /\ caller \in [Callers -> [pc : {"idle", "allow", "stage", "skipped", "record"}, now : 0 .. clock]]
    /\ log \in Seq(Nat)
    /\ trippedAt \in {None} \cup 0 .. clock /\ warned \in Nat

\* While the breaker is closed the count is under the threshold, whatever order
\* the workers report in: the fault that reaches it is the one that opens it.
ClosedBelowThreshold == opened_at = None => faults < threshold

\* Every opening is earned by `threshold` faults reported since the breaker last
\* closed: the faults that opened it before do not count again.
TripEarned == opened_at # None => Len(log) >= threshold

\* record_fault_at answers true exactly once per opening, so that the warning
\* is logged exactly once (line 72), however many workers report a fault late.
WarnedOnce == warned = IF opened_at = None THEN 0 ELSE 1

\* Redaction is skipped only by a request that began less than Cooldown after
\* the breaker opened: faults reported while it is open do not prolong it.
OutageBounded ==
    \A c \in Callers : At(c, "skipped") => caller[c].now < trippedAt + Cooldown

\* The window tumbles, so that `threshold` faults within `window` (lines 2-3) may
\* straddle a reset; but one fewer than twice as many, reported one after the other
\* with times no further apart than that, always leave the breaker open.
TumblingWindow ==
    LET n == Len(log)
        m == 2 * threshold - 1
    IN  n >= m /\ (\A i, j \in n - m + 1 .. n : log[i] - log[j] <= Window) => opened_at # None
=============================================================================
