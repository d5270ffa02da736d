---------------------------- MODULE MetricsProofs ----------------------------
(***************************************************************************)
(* Proofs about Metrics, for any set of samples and of counters and any    *)
(* number of flushes: `record` and `flush` may overlap as they like.       *)
(***************************************************************************)
EXTENDS Metrics, TLAPS

\* What is drained in this flush was not drained before in it.
FreshInv == \A f \in left : drained[f] = {}

Reported(s, f) == {i \in DOMAIN reports : s \in reports[i][f]}

\* A contribution not yet made is nowhere; one made is somewhere, and in no
\* two places.
OnceInv ==
    \A s \in Samples, f \in Fields :
        /\ f \in todo[s] => s \notin counters[f] /\ s \notin drained[f] /\ Reported(s, f) = {}
        /\ f \notin todo[s] => s \in counters[f] \/ s \in drained[f] \/ Reported(s, f) # {}
        /\ ~(s \in counters[f] /\ s \in drained[f])
        /\ Reported(s, f) # {} => s \notin counters[f] /\ s \notin drained[f]
        /\ \A i, j \in Reported(s, f) : i = j

IInv == TypeOK /\ FreshInv /\ OnceInv

\* At the start nothing is counted.
LEMMA InitIInv == Init => IInv
  BY DEF Init, IInv, TypeOK, FreshInv, OnceInv, Reported, Zero

\* A fetch_add of record makes one contribution, to the window that is open.
LEMMA AddIInv ==
    ASSUME NEW s \in Samples, NEW f \in Fields, IInv, Add(s, f)
    PROVE  IInv'
  <1>1. TypeOK' BY DEF IInv, TypeOK, Add, Zero
  <1>2. FreshInv' BY DEF IInv, FreshInv, Add
  <1>3. OnceInv'
    <2> SUFFICES ASSUME NEW t \in Samples, NEW g \in Fields
                 PROVE  /\ g \in todo'[t] => t \notin counters'[g] /\ t \notin drained'[g] /\ Reported(t, g)' = {}
                        /\ g \notin todo'[t] => t \in counters'[g] \/ t \in drained'[g] \/ Reported(t, g)' # {}
                        /\ ~(t \in counters'[g] /\ t \in drained'[g])
                        /\ Reported(t, g)' # {} => t \notin counters'[g] /\ t \notin drained'[g]
                        /\ \A i, j \in Reported(t, g)' : i = j
      BY DEF OnceInv
    <2>1. Reported(t, g)' = Reported(t, g) /\ drained' = drained BY DEF Add, Reported
    <2>2. CASE t = s /\ g = f
      BY <2>1, <2>2 DEF IInv, TypeOK, OnceInv, Add
    <2>3. CASE ~(t = s /\ g = f)
      <3>1. (t \in counters'[g] <=> t \in counters[g]) /\ (g \in todo'[t] <=> g \in todo[t])
        BY <2>3 DEF IInv, TypeOK, Add
      <3> QED BY <2>1, <3>1 DEF IInv, OnceInv
    <2> QED BY <2>2, <2>3
  <1> QED BY <1>1, <1>2, <1>3 DEF IInv

\* A flush begins with nothing drained.
LEMMA StartFlushIInv ==
    ASSUME IInv, StartFlush("flush") \/ StartFlush("last")
    PROVE  IInv'
  <1>1. drained = Zero /\ drained' = drained BY DEF IInv, TypeOK, StartFlush
  <1>2. TypeOK' BY <1>1 DEF IInv, TypeOK, StartFlush, Zero
  <1>3. FreshInv' BY <1>1 DEF FreshInv, StartFlush, Zero
  <1>4. OnceInv' BY <1>1 DEF IInv, OnceInv, StartFlush, Reported
  <1> QED BY <1>2, <1>3, <1>4 DEF IInv

\* A swap moves what a counter holds to the window that is drained.
LEMMA SwapIInv ==
    ASSUME NEW f \in Fields, IInv, Swap(f)
    PROVE  IInv'
  <1>1. drained[f] = {} BY DEF IInv, FreshInv, Swap
  <1>2. TypeOK' BY DEF IInv, TypeOK, Swap
  <1>3. FreshInv' BY DEF IInv, TypeOK, FreshInv, Swap
  <1>4. OnceInv'
    <2>1. ASSUME NEW s \in Samples, NEW g \in Fields
          PROVE  /\ Reported(s, g)' = Reported(s, g) /\ todo' = todo
                 /\ (s \in counters'[g] <=> g # f /\ s \in counters[g])
                 /\ (s \in drained'[g] <=> IF g = f THEN s \in counters[g] ELSE s \in drained[g])
      BY DEF IInv, TypeOK, Swap, Reported
    <2> QED BY <1>1, <2>1 DEF IInv, OnceInv
  <1> QED BY <1>2, <1>3, <1>4 DEF IInv

\* The window drained becomes the next report.
LEMMA EmitIInv ==
    ASSUME IInv, Emit
    PROVE  IInv'
  <1>1. TypeOK' BY DEF IInv, TypeOK, Emit, Zero
  <1>2. FreshInv' BY DEF IInv, FreshInv, Emit
  <1>3. OnceInv'
    <2>1. ASSUME NEW s \in Samples, NEW f \in Fields
          PROVE  /\ counters' = counters /\ todo' = todo /\ s \notin drained'[f]
                 /\ Reported(s, f)' = Reported(s, f) \cup (IF s \in drained[f] THEN {Len(reports) + 1} ELSE {})
      BY DEF IInv, TypeOK, Emit, Reported, Zero
    <2> QED BY <2>1 DEF IInv, OnceInv
  <1> QED BY <1>1, <1>2, <1>3 DEF IInv

\* The strengthened invariant of the register: a contribution is where it was
\* added, drained or reported, and nowhere else, after every atomic step of
\* record and drain.
THEOREM MetricsIInv == Spec => []IInv
  <1>1. IInv /\ [Next]_vars => IInv'
    <2> SUFFICES ASSUME IInv, [Next]_vars PROVE IInv' OBVIOUS
    <2>1. ASSUME NEW s \in Samples, NEW f \in Fields, Add(s, f) PROVE IInv' BY <2>1, AddIInv
    <2>2. CASE Tick \/ LastFlush BY <2>2, StartFlushIInv DEF Tick, LastFlush
    <2>3. ASSUME NEW f \in Fields, Swap(f) PROVE IInv' BY <2>3, SwapIInv
    <2>4. CASE Emit BY <2>4, EmitIInv
    <2>5. CASE Shutdown \/ Exit \/ UNCHANGED vars
      BY <2>5 DEF Shutdown, Exit, vars, IInv, TypeOK, FreshInv, OnceInv, Reported, Zero
    <2> QED BY <2>1, <2>2, <2>3, <2>4, <2>5 DEF Next
  <1> QED BY InitIInv, <1>1, PTL DEF Spec

\* The register and the flush task keep their types.
THEOREM RegisterTyped == Spec => []TypeOK
  <1>1. IInv => TypeOK BY DEF IInv
  <1> QED BY <1>1, MetricsIInv, PTL

\* Nothing recorded is lost or counted twice by a flush at the same time
\* (drain's swaps against record's fetch_adds).
THEOREM CountedExactlyOnce == Spec => []CountedOnce
  <1>1. IInv => CountedOnce
    <2> SUFFICES ASSUME IInv, NEW s \in Samples, NEW f \in Fields
                 PROVE  IF f \in todo[s] THEN Places(s, f) = {}
                        ELSE \E x \in Places(s, f) : Places(s, f) = {x}
      BY DEF CountedOnce
    <2>1. Places(s, f) = {<<"report", i>> : i \in Reported(s, f)}
                           \cup (IF s \in counters[f] THEN {<<"counters", 0>>} ELSE {})
                           \cup (IF s \in drained[f] THEN {<<"drained", 0>>} ELSE {})
      BY DEF Places, Reported
    <2>2. CASE f \in todo[s] BY <2>1, <2>2 DEF IInv, OnceInv
    <2>3. CASE f \notin todo[s] /\ s \in counters[f]
      <3>1. Places(s, f) = {<<"counters", 0>>} BY <2>1, <2>3 DEF IInv, OnceInv
      <3> QED BY <2>3, <3>1
    <2>4. CASE f \notin todo[s] /\ s \in drained[f]
      <3>1. Places(s, f) = {<<"drained", 0>>} BY <2>1, <2>4 DEF IInv, OnceInv
      <3> QED BY <2>4, <3>1
    <2>5. CASE f \notin todo[s] /\ Reported(s, f) # {}
      <3>1. PICK i : i \in Reported(s, f) BY <2>5
      <3>2. Reported(s, f) = {i} BY <3>1 DEF IInv, OnceInv
      <3>3. Places(s, f) = {<<"report", i>>} BY <2>1, <2>5, <3>2 DEF IInv, OnceInv
      <3> QED BY <2>5, <3>3
    <2> QED BY <2>2, <2>3, <2>4, <2>5 DEF IInv, OnceInv
  <1> QED BY <1>1, MetricsIInv, PTL
=============================================================================
