---------------------------- MODULE BreakerProofs ----------------------------
(***************************************************************************)
(* Theorems about Breaker, for any number of workers, any threshold,       *)
(* window and cooldown, and any schedule of late reports.                  *)
(***************************************************************************)
EXTENDS Breaker, TLAPS

\* The count never runs ahead of the faults reported since the last closing, and
\* an open breaker carries a stamp no later than the moment it opened.
CountInv == faults <= Len(log)
StampInv == opened_at # None => opened_at <= trippedAt

\* While the breaker is closed, the window under way began at the first fault it
\* counts, unless no fault began one since the last closing.
WindowInv ==
    opened_at = None /\ faults < Len(log) => faults >= 1 /\ window_start = log[Len(log) - faults + 1]

\* ... and the window before it held fewer than `threshold` faults, the first of
\* them more than Window before the first of this one, or began with the closing.
Reset(g) ==
    /\ g + faults <= Len(log)
    /\ log[Len(log) - faults + 1] - log[Len(log) - faults - g + 1] > Window
TumbleInv ==
    opened_at = None =>
        \/ Len(log) - faults < threshold
        \/ \E g \in 1 .. threshold - 1 : Reset(g)

IInv ==
    /\ TypeOK /\ CountInv /\ StampInv
    /\ ClosedBelowThreshold /\ TripEarned /\ WarnedOnce /\ OutageBounded
    /\ WindowInv /\ TumbleInv

\* threshold.max(1) in `new`.
LEMMA ThresholdType == threshold \in Nat /\ threshold >= 1
BY BreakerAssumption DEF threshold

\* A worker that is turned away keeps the time it read.
LEMMA SkipFacts ==
    ASSUME TypeOK, NEW c \in Callers, Goto(c, "skipped")
    PROVE  /\ caller' \in [Callers -> [pc : {"idle", "allow", "stage", "skipped", "record"}, now : 0 .. clock]]
           /\ caller'[c].now = caller[c].now
           /\ \A d \in Callers : d # c => caller'[d] = caller[d]
BY DEF TypeOK, Goto

\* A new breaker is closed and has seen no fault.
LEMMA InitIInv == Init => IInv
BY BreakerAssumption, ThresholdType
DEF Init, IInv, TypeOK, CountInv, StampInv, ClosedBelowThreshold, TripEarned, WarnedOnce, OutageBounded, None, At,
    WindowInv, TumbleInv

\* Steps that leave the breaker's own state alone.
LEMMA QuietIInv ==
    ASSUME IInv, UNCHANGED <<inner, history>>, TypeOK', OutageBounded'
    PROVE  IInv'
BY DEF IInv, CountInv, StampInv, ClosedBelowThreshold, TripEarned, WarnedOnce, WindowInv, TumbleInv, Reset,
       inner, history

\* A fault that leaves the breaker closed goes on with the window or begins one.
LEMMA TumbleStep ==
    ASSUME IInv, NEW c \in Callers, RecordFault(c), opened_at = None, ~Trips
    PROVE  WindowInv' /\ TumbleInv'
<1> USE BreakerAssumption, ThresholdType
<1> DEFINE n == Len(log)
           now == caller[c].now
<1>1. /\ now \in Nat /\ log \in Seq(Nat) /\ n \in Nat
      /\ faults \in Nat /\ faults <= n /\ faults < threshold /\ window_start \in Nat
  BY DEF IInv, TypeOK, CountInv, ClosedBelowThreshold
<1>2. log' = Append(log, now)
  BY DEF RecordFault
<1>3. Len(log') = n + 1 /\ log'[n + 1] = now /\ \A i \in 1 .. n : log'[i] = log[i] /\ log[i] \in Nat
  BY <1>1, <1>2
<1>4. CASE Since(now, window_start) > Window
  <2>1. faults' = 1 /\ window_start' = now /\ now - window_start > Window
    BY <1>1, <1>4 DEF RecordFault, Count, Since
  <2>2. WindowInv'
    BY <1>1, <1>3, <2>1 DEF WindowInv
  <2>3. ASSUME faults = n PROVE TumbleInv'
    BY <1>1, <1>3, <2>1, <2>3 DEF TumbleInv
  <2>4. ASSUME faults < n PROVE TumbleInv'
    <3>1. PICK g \in 1 .. threshold - 1 : g = faults /\ window_start = log[n - g + 1]
      BY <1>1, <2>4 DEF IInv, WindowInv
    <3>2. n - g + 1 \in 1 .. n /\ (n + 1) - 1 - g + 1 = n - g + 1 /\ (n + 1) - 1 + 1 = n + 1 /\ g + 1 <= n + 1
      BY <1>1, <2>4, <3>1
    <3>3. log'[n - g + 1] = window_start
      BY <1>3, <3>1, <3>2
    <3>4. Reset(g)'
      BY <1>3, <2>1, <3>2, <3>3 DEF Reset
    <3> QED  BY <3>4 DEF TumbleInv
  <2>5. faults = n \/ faults < n
    BY <1>1
  <2>6. TumbleInv'
    BY <2>3, <2>4, <2>5
  <2> QED  BY <2>2, <2>6
<1>5. CASE ~(Since(now, window_start) > Window)
  <2>1. faults' = faults + 1 /\ window_start' = window_start
    BY <1>5 DEF RecordFault, Count
  <2>2. WindowInv'
    <3> SUFFICES ASSUME faults < n PROVE window_start' = log'[Len(log') - faults' + 1] /\ faults' >= 1
      BY <1>1, <1>3, <2>1 DEF WindowInv
    <3>1. faults >= 1 /\ window_start = log[n - faults + 1]
      BY DEF IInv, WindowInv
    <3>2. n - faults + 1 \in 1 .. n /\ (n + 1) - (faults + 1) + 1 = n - faults + 1
      BY <1>1, <3>1
    <3>3. log'[n - faults + 1] = log[n - faults + 1]
      BY ONLY <1>3, <3>2
    <3>4. Len(log') - faults' + 1 = n - faults + 1
      BY ONLY <1>1, <1>3, <2>1, <3>2
    <3> QED  BY ONLY <1>1, <2>1, <3>1, <3>3, <3>4
  <2>3. ASSUME NEW g \in 1 .. threshold - 1, Reset(g) PROVE Reset(g)'
    <3>1. g + faults <= n
      BY <2>3 DEF Reset
    <3>2. CASE faults = 0
      BY <1>1, <2>3, <3>1, <3>2 DEF Reset, IInv, WindowInv
    <3>3. CASE faults > 0
      <4>1. n - faults + 1 \in 1 .. n /\ n - faults - g + 1 \in 1 .. n
        BY <1>1, <3>1, <3>3
      <4>2. n + 1 - faults' + 1 = n - faults + 1 /\ n + 1 - faults' - g + 1 = n - faults - g + 1
        BY <1>1, <2>1
      <4>3. g + faults' <= n + 1
        BY <1>1, <2>1, <3>1
      <4>4. log'[n - faults + 1] - log'[n - faults - g + 1] > Window
        BY <1>3, <2>3, <4>1 DEF Reset
      <4>5. /\ Len(log') - faults' + 1 = n - faults + 1 /\ Len(log') - faults' - g + 1 = n - faults - g + 1
            /\ g + faults' <= Len(log')
        BY <1>1, <1>3, <2>1, <3>1, <2>3
      <4> HIDE DEF n
      <4> QED  BY <4>4, <4>5 DEF Reset
    <3> QED  BY <1>1, <3>2, <3>3
  <2>4. TumbleInv'
    <3>1. CASE n - faults < threshold
      BY <1>1, <1>3, <2>1, <3>1 DEF TumbleInv
    <3>2. CASE \E g \in 1 .. threshold - 1 : Reset(g)
      BY <2>3, <3>2 DEF TumbleInv
    <3> QED  BY <3>1, <3>2 DEF IInv, TumbleInv
  <2> QED  BY <2>2, <2>4
<1> QED  BY <1>4, <1>5

\* Every step of the specification keeps IInv.
LEMMA NextIInv == IInv /\ [Next]_vars => IInv'
<1> SUFFICES ASSUME IInv, [Next]_vars PROVE IInv'
  OBVIOUS
<1> USE BreakerAssumption, ThresholdType DEF IInv, None
<1>1. CASE Tick
  <2>1. TypeOK'
    BY <1>1 DEF Tick, TypeOK, inner, history
  <2>2. OutageBounded'
    BY <1>1 DEF Tick, OutageBounded, At, history
  <2> QED  BY <1>1, <2>1, <2>2, QuietIInv DEF Tick
<1>2. ASSUME NEW c \in Callers, ReadClock(c) PROVE IInv'
  <2>1. TypeOK'
    BY <1>2 DEF ReadClock, TypeOK, inner, history
  <2>2. OutageBounded'
    BY <1>2 DEF ReadClock, OutageBounded, At, history, TypeOK
  <2> QED  BY <1>2, <2>1, <2>2, QuietIInv DEF ReadClock
<1>3. ASSUME NEW c \in Callers, Skip(c) PROVE IInv'
  <2>1. /\ caller' \in [Callers -> [pc : {"idle", "allow", "stage", "skipped", "record"}, now : 0 .. clock]]
        /\ caller'[c].now = caller[c].now
        /\ \A d \in Callers : d # c => caller'[d] = caller[d]
    BY <1>3, SkipFacts DEF Skip
  <2>2. TypeOK'
    BY <1>3, <2>1 DEF Skip, TypeOK, inner, history
  <2>3. caller[c].now < trippedAt + Cooldown
    BY <1>3 DEF Skip, CoolingDown, Since, StampInv, TypeOK
  <2>4. OutageBounded'
    BY <1>3, <2>1, <2>3 DEF Skip, OutageBounded, At, history
  <2> QED  BY <1>3, <2>2, <2>4, QuietIInv DEF Skip
<1>4. ASSUME NEW c \in Callers, AllowClosed(c) \/ Finish(c) \/ StageFaults(c) PROVE IInv'
  <2>1. /\ caller' \in [Callers -> [pc : {"idle", "allow", "stage", "skipped", "record"}, now : 0 .. clock]]
        /\ caller'[c].pc # "skipped"
        /\ \A d \in Callers : d # c => caller'[d] = caller[d]
    <3>1. PICK x \in {"idle", "stage", "record"} : caller' = [caller EXCEPT ![c].pc = x]
      BY <1>4 DEF AllowClosed, Finish, StageFaults, Goto
    <3>2. caller \in [Callers -> [pc : {"idle", "allow", "stage", "skipped", "record"}, now : 0 .. clock]]
      BY DEF IInv, TypeOK
    <3> QED  BY <3>1, <3>2
  <2>2. TypeOK'
    BY <1>4, <2>1 DEF AllowClosed, Finish, StageFaults, TypeOK, inner, history
  <2>3. OutageBounded'
    BY <1>4, <2>1 DEF AllowClosed, Finish, StageFaults, OutageBounded, At, history
  <2> QED  BY <1>4, <2>2, <2>3, QuietIInv DEF AllowClosed, Finish, StageFaults
<1>5. ASSUME NEW c \in Callers, AllowReclose(c) PROVE IInv'
  <2>1. /\ caller' \in [Callers -> [pc : {"idle", "allow", "stage", "skipped", "record"}, now : 0 .. clock]]
        /\ caller'[c].pc = "stage"
        /\ \A d \in Callers : d # c => caller'[d] = caller[d]
    BY <1>5 DEF AllowReclose, Goto, TypeOK
  <2>2. TypeOK'
    BY <1>5, <2>1 DEF AllowReclose, Reclose, TypeOK
  <2>3. /\ CountInv' /\ StampInv' /\ ClosedBelowThreshold' /\ TripEarned' /\ WarnedOnce'
        /\ WindowInv' /\ TumbleInv'
    BY <1>5 DEF AllowReclose, Reclose, CountInv, StampInv, ClosedBelowThreshold, TripEarned, WarnedOnce,
                WindowInv, TumbleInv
  <2>4. OutageBounded'
    BY <1>5, <2>1 DEF AllowReclose, OutageBounded, At
  <2> QED  BY <2>2, <2>3, <2>4
<1>6. ASSUME NEW c \in Callers, RecordFault(c) PROVE IInv'
  <2>1. /\ caller' \in [Callers -> [pc : {"idle", "allow", "stage", "skipped", "record"}, now : 0 .. clock]]
        /\ caller'[c].pc = "idle"
        /\ \A d \in Callers : d # c => caller'[d] = caller[d]
    BY <1>6 DEF RecordFault, Goto, TypeOK
  <2>2. caller[c].now \in 0 .. clock /\ clock \in Nat
    BY DEF TypeOK
  <2>3. log' \in Seq(Nat) /\ Len(log') = Len(log) + 1 /\ Len(log) \in Nat
    BY <1>6, <2>2 DEF RecordFault, TypeOK
  <2>4. faults' \in Nat /\ faults' <= faults + 1 /\ window_start' \in 0 .. clock
    BY <1>6, <2>2 DEF RecordFault, Count, TypeOK
  <2>5. CountInv'
    BY <2>3, <2>4 DEF CountInv, TypeOK
  <2>6. CASE Trips
    <3>1. /\ opened_at' = caller[c].now /\ trippedAt' = clock /\ warned' = warned + 1
          /\ opened_at = None /\ faults' >= threshold /\ clock' = clock
      BY <1>6, <2>2, <2>6 DEF RecordFault, Trips
    <3>2. TypeOK'
      BY <2>1, <2>2, <2>3, <2>4, <3>1 DEF TypeOK
    <3>3. StampInv' /\ ClosedBelowThreshold' /\ TripEarned' /\ WarnedOnce'
      BY <2>2, <2>3, <2>4, <2>5, <3>1
      DEF StampInv, ClosedBelowThreshold, TripEarned, WarnedOnce, CountInv, TypeOK
    <3>4. OutageBounded'
      BY <2>1, <3>1 DEF OutageBounded, At, TypeOK
    <3>5. WindowInv' /\ TumbleInv'
      BY <2>2, <3>1 DEF WindowInv, TumbleInv
    <3> QED  BY <2>5, <3>2, <3>3, <3>4, <3>5
  <2>7. CASE ~Trips
    <3>1. UNCHANGED <<opened_at, trippedAt, warned, clock>> /\ ~(faults' >= threshold /\ opened_at = None)
      BY <1>6, <2>7 DEF RecordFault, Trips
    <3>2. TypeOK'
      BY <2>1, <2>3, <2>4, <3>1 DEF TypeOK
    <3>3. StampInv' /\ ClosedBelowThreshold' /\ TripEarned' /\ WarnedOnce'
      BY <2>3, <2>4, <3>1 DEF StampInv, ClosedBelowThreshold, TripEarned, WarnedOnce
    <3>4. OutageBounded'
      BY <2>1, <3>1 DEF OutageBounded, At
    <3>5. WindowInv' /\ TumbleInv'
      <4>1. CASE opened_at = None
        BY <1>6, <2>7, <4>1, TumbleStep
      <4>2. CASE opened_at # None
        BY <3>1, <4>2 DEF WindowInv, TumbleInv
      <4> QED  BY <4>1, <4>2
    <3> QED  BY <2>5, <3>2, <3>3, <3>4, <3>5
  <2> QED  BY <2>6, <2>7
<1>7. CASE UNCHANGED vars
  <2>1. TypeOK' /\ OutageBounded'
    BY <1>7 DEF vars, inner, history, TypeOK, OutageBounded, At
  <2> QED  BY <1>7, <2>1, QuietIInv DEF vars
<1> HIDE DEF IInv
<1> QED  BY <1>1, <1>2, <1>3, <1>4, <1>5, <1>6, <1>7 DEF Next

\* The inductive invariant holds in every reachable state.
THEOREM BreakerIInv == Spec => []IInv
<1>1. IInv /\ [Next]_vars => IInv'
  BY NextIInv
<1> QED  BY InitIInv, <1>1, PTL DEF Spec

\* The fields of Inner keep their types; no time is in the future.
THEOREM BreakerTyped == Spec => []TypeOK
<1>1. IInv => TypeOK
  BY DEF IInv
<1> QED  BY <1>1, BreakerIInv, PTL

\* However many workers report late and however old their stamps are, the
\* breaker is closed only under the threshold (record_fault_at).
THEOREM OpensExactlyOnThreshold == Spec => []ClosedBelowThreshold
<1>1. IInv => ClosedBelowThreshold
  BY DEF IInv
<1> QED  BY <1>1, BreakerIInv, PTL

\* Faults reported before the breaker last closed do not help to open it again.
THEOREM EveryTripEarned == Spec => []TripEarned
<1>1. IInv => TripEarned
  BY DEF IInv
<1> QED  BY <1>1, BreakerIInv, PTL

\* record_fault_at answers true once for each opening.
THEOREM WarnsOnce == Spec => []WarnedOnce
<1>1. IInv => WarnedOnce
  BY DEF IInv
<1> QED  BY <1>1, BreakerIInv, PTL

\* Redaction is off for a request only if it began within the cooldown of the
\* last opening: faults reported meanwhile do not prolong the outage.
THEOREM OutageIsBounded == Spec => []OutageBounded
<1>1. IInv => OutageBounded
  BY DEF IInv
<1> QED  BY <1>1, BreakerIInv, PTL

\* The exact strength of the tumbling window: the last 2 * threshold - 1 faults
\* cannot all lie within Window of one another while the breaker is closed,
\* since they would reach over two resets.
THEOREM TumblesAtMostTwice == Spec => []TumblingWindow
<1>1. IInv => TumblingWindow
  <2> DEFINE n == Len(log)
             m == 2 * threshold - 1
  <2> SUFFICES ASSUME IInv, opened_at = None, n >= m,
                      \A i, j \in n - m + 1 .. n : log[i] - log[j] <= Window
               PROVE  FALSE
    BY DEF TumblingWindow
  <2>1. /\ n \in Nat /\ faults \in Nat /\ faults <= n /\ faults < threshold
        /\ threshold \in Nat
    BY ThresholdType DEF IInv, TypeOK, CountInv, ClosedBelowThreshold
  <2>2. PICK g \in 1 .. threshold - 1 : Reset(g)
    BY <2>1 DEF IInv, TumbleInv
  <2>3. faults >= 1
    BY <2>1, <2>2 DEF IInv, WindowInv, Reset
  <2>4. n - faults + 1 \in n - m + 1 .. n /\ n - faults - g + 1 \in n - m + 1 .. n
    BY <2>1, <2>2, <2>3
  <2> QED
    <3> DEFINE d == log[n - faults + 1] - log[n - faults - g + 1]
    <3>1. d <= Window /\ d > Window
      BY <2>2, <2>4 DEF Reset
    <3>2. log[n - faults + 1] \in Nat /\ log[n - faults - g + 1] \in Nat
      <4>1. log \in Seq(Nat)
        BY DEF IInv, TypeOK
      <4>2. n - faults + 1 \in 1 .. n /\ n - faults - g + 1 \in 1 .. n
        BY <2>1, <2>2, <2>3 DEF Reset
      <4> QED  BY <4>1, <4>2
    <3>3. d \in Int /\ Window \in Nat
      BY <3>2, BreakerAssumption
    <3> QED
      BY <3>1, <3>3
<1> QED  BY <1>1, BreakerIInv, PTL
=============================================================================
