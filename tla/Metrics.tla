------------------------------- MODULE Metrics -------------------------------
(***************************************************************************)
(* The aggregation register, src/crates/archiv-metrics/src/lib.rs, and the *)
(* task that flushes it, src/src/metrics.rs.                               *)
(*                                                                         *)
(* A counter is modelled by the set of the samples added to it since it    *)
(* was last reset: the number it holds is the sum of their values.  Each   *)
(* counter is added to and swapped with an atomic operation of its own,    *)
(* with Relaxed ordering: the operations of one `record`, and those of one *)
(* `drain`, may be seen by others in any order.                            *)
(***************************************************************************)
EXTENDS Naturals, Sequences

CONSTANTS
    Samples,      \* the requests that are counted
    Fields,       \* the counters of WindowCounters
    MaxFlushes    \* bound on the aggregates emitted

ASSUME MetricsAssumption == MaxFlushes \in Nat

VARIABLES
    mode,       \* "up", "stopping" after the shutdown signal, "exited"
    counters,   \* WindowCounters
    todo,       \* fields each sample's `record` has still to add to
    flusher,    \* "wait" for a tick, "flush" one window, the "last" one, "done"
    left,       \* fields the `drain` under way has still to swap
    drained,    \* the DrainedCounts being built
    reports     \* the aggregates emitted, in order of seq

vars == <<mode, counters, todo, flusher, left, drained, reports>>

Zero == [f \in Fields |-> {}]

Init ==
    /\ mode = "up"
    /\ counters = Zero
    /\ todo = [s \in Samples |-> Fields]
    /\ flusher = "wait" /\ left = {} /\ drained = Zero
    /\ reports = <<>>

\* One fetch_add of record.
Add(s, f) ==
    /\ mode # "exited" /\ f \in todo[s]
    /\ counters' = [counters EXCEPT ![f] = @ \cup {s}]
    /\ todo' = [todo EXCEPT ![s] = @ \ {f}]
    /\ UNCHANGED <<mode, flusher, left, drained, reports>>

StartFlush(next) ==
    /\ flusher = "wait" /\ flusher' = next
    /\ left' = Fields /\ drained' = Zero
    /\ UNCHANGED <<mode, counters, todo, reports>>

\* The 10 s tick, or the shutdown signal, whichever the select takes first.
Tick      == Len(reports) < MaxFlushes /\ StartFlush("flush")
LastFlush == mode = "stopping" /\ StartFlush("last")

\* Mutant: a load, without the reset.
SwapLoads(f) ==
    /\ f \in left
    /\ drained' = [drained EXCEPT ![f] = counters[f]]
    /\ left' = left \ {f}
    /\ UNCHANGED <<mode, counters, todo, flusher, reports>>

\* One swap(0) of drain.
Swap(f) ==
    /\ f \in left
    /\ drained' = [drained EXCEPT ![f] = counters[f]]
    /\ counters' = [counters EXCEPT ![f] = {}]
    /\ left' = left \ {f}
    /\ UNCHANGED <<mode, todo, flusher, reports>>

\* Mutant: emits the counts read so far.
EmitEarly ==
    /\ flusher \in {"flush", "last"}
    /\ reports' = Append(reports, drained)
    /\ drained' = Zero
    /\ flusher' = IF flusher = "flush" THEN "wait" ELSE "done"
    /\ UNCHANGED <<mode, counters, todo, left>>

\* The aggregate gets its seq and goes to the sink.
Emit ==
    /\ flusher \in {"flush", "last"} /\ left = {}
    /\ reports' = Append(reports, drained)
    /\ drained' = Zero
    /\ flusher' = IF flusher = "flush" THEN "wait" ELSE "done"
    /\ UNCHANGED <<mode, counters, todo, left>>

Shutdown ==
    /\ mode = "up" /\ mode' = "stopping"
    /\ UNCHANGED <<counters, todo, flusher, left, drained, reports>>

\* main's join: the flusher has returned.  A task is dropped at an await only,
\* and record has none: no record is cut off half way.
Exit ==
    /\ mode = "stopping" /\ flusher = "done"
    /\ \A s \in Samples : todo[s] \in {{}, Fields}
    /\ mode' = "exited"
    /\ UNCHANGED <<counters, todo, flusher, left, drained, reports>>

Next ==
    \/ \E s \in Samples, f \in Fields : Add(s, f)
    \/ Tick \/ LastFlush
    \/ \E f \in Fields : Swap(f)
    \/ Emit \/ Shutdown \/ Exit

Spec == Init /\ [][Next]_vars

-----------------------------------------------------------------------------
(* Properties *)

\* The register and the flush task have their types; between two flushes nothing
\* is left half drained.
TypeOK ==
    /\ mode \in {"up", "stopping", "exited"}
    /\ counters \in [Fields -> SUBSET Samples]
    /\ todo \in [Samples -> SUBSET Fields]
    /\ flusher \in {"wait", "flush", "last", "done"}
    /\ left \in SUBSET Fields
    /\ drained \in [Fields -> SUBSET Samples]
    /\ reports \in Seq([Fields -> SUBSET Samples])
    /\ flusher \in {"wait", "done"} => left = {} /\ drained = Zero

\* Where a sample's contribution to a field can be.
Places(s, f) ==
    {<<"report", i>> : i \in {i \in DOMAIN reports : s \in reports[i][f]}}
    \cup (IF s \in counters[f] THEN {<<"counters", 0>>} ELSE {})
    \cup (IF s \in drained[f] THEN {<<"drained", 0>>} ELSE {})

\* Nothing is lost and nothing counted twice between a `record` and a `flush`
\* that run at the same time: each contribution made is in exactly one window.
CountedOnce ==
    \A s \in Samples, f \in Fields :
        IF f \in todo[s] THEN Places(s, f) = {}
        ELSE \E x \in Places(s, f) : Places(s, f) = {x}

\* Lines 61-62 of metrics.rs, "one final aggregate so the last partial window is
\* not lost": after a graceful exit every sample recorded has been reported.
LastWindowReported ==
    mode = "exited" => \A s \in Samples, f \in Fields :
        f \notin todo[s] => \E i \in DOMAIN reports : s \in reports[i][f]
=============================================================================
