----------------------------- MODULE SpoolProofs -----------------------------
(***************************************************************************)
(* Theorems about Spool, for any number of writers, payloads, bytes,       *)
(* faults, crashes and power losses.                                       *)
(*                                                                         *)
(* Everything rests on one inductive invariant, IInv: it ties the sequence *)
(* numbers in the directory, in `pending` and in the hands of the tasks to *)
(* next_seq, so that no two of them name the same file.                    *)
(***************************************************************************)
EXTENDS Spool, FiniteSetTheorems, TLAPS

Active(w) == push[w].pc # "idle"

\* No task outlives the process.
DownInv ==
    mode = "down" => push = [w \in Writers |-> IdlePush] /\ drain = IdleDrain

\* Every sequence in use was handed out already.
SeqInv ==
    mode = "up" =>
        /\ \A s \in DOMAIN otlp \cup DOMAIN pending : s < next_seq
        /\ \A w \in Writers : Active(w) => push[w].seq < next_seq

\* Two pushes under way share neither sequence nor payload.
OwnInv ==
    /\ \A w \in Writers : Active(w) =>
          /\ push[w].payload \in Payloads
          /\ result[push[w].payload] = "pushing"
          /\ push[w].seq \notin DOMAIN pending
    /\ \A v, w \in Writers : Active(v) /\ Active(w) /\ v # w =>
          push[v].seq # push[w].seq /\ push[v].payload # push[w].payload

\* A push has published its file exactly when it has come to "publish".
FileInv ==
    \A w \in Writers : Active(w) =>
        IF push[w].pc = "publish"
        THEN push[w].seq \in DOMAIN otlp /\ otlp[push[w].seq] = push[w].payload
        ELSE push[w].seq \notin DOMAIN otlp

\* What is pending is in the directory, until the draining task removes it.
DrainInv ==
    /\ \A s \in DOMAIN pending :
          s \in DOMAIN otlp \/ (drain.pc = "forget" /\ drain.seq = s)
    /\ drain.pc \in {"read", "forward", "remove", "forget"} => drain.seq \in DOMAIN pending
    /\ drain.pc \in {"forward", "remove"} =>
          drain.seq \in DOMAIN otlp /\ drain.body = otlp[drain.seq]
    /\ drain.pc = "remove" => drain.body \in delivered

\* What is published was fsynced before.
SyncInv ==
    /\ \A s \in DOMAIN otlp : otlp[s] \in Payloads /\ s \notin unsynced
    /\ \A w \in Writers : push[w].pc = "rename" => push[w].seq \notin unsynced

\* A payload is published once, by a push that was answered, cut off, or is
\* about to be answered.
OnceInv ==
    /\ \A s, t \in DOMAIN otlp : otlp[s] = otlp[t] => s = t
    /\ \A s \in DOMAIN otlp :
          \/ result[otlp[s]] \in {"ok", "lost"}
          \/ \E w \in Writers : push[w].pc = "publish" /\ push[w].payload = otlp[s]

\* What was sent had been published by a push that was not refused.
SentInv == \A p \in delivered : p \in Payloads /\ result[p] \in {"ok", "lost"}

IInv ==
    /\ TypeOK /\ DownInv /\ SeqInv /\ OwnInv /\ FileInv
    /\ DrainInv /\ SyncInv /\ OnceInv
    /\ SentInv
    /\ spent.power = 0 => AcceptedDurable

-----------------------------------------------------------------------------
(* The helpers on directories *)

\* Writing one file leaves the others alone.
LEMMA PutFiles ==
    ASSUME NEW S, NEW f, IsFiles(f, S), NEW k, k \in Nat, NEW v, v \in S
    PROVE  /\ IsFiles(Put(f, k, v), S)
           /\ DOMAIN Put(f, k, v) = DOMAIN f \cup {k}
           /\ Put(f, k, v)[k] = v
           /\ \A x \in DOMAIN f : x # k => Put(f, k, v)[x] = f[x]
<1>1. DOMAIN Put(f, k, v) = DOMAIN f \cup {k}
  BY DEF Put
<1>2. IsFiniteSet(DOMAIN f \cup {k})
  BY FS_AddElement DEF IsFiles
<1>3. Put(f, k, v) \in [DOMAIN f \cup {k} -> S]
  BY DEF Put, IsFiles
<1> QED  BY <1>1, <1>2, <1>3 DEF Put, IsFiles

\* The same for a map to lengths.
LEMMA PutLength ==
    ASSUME NEW f, IsFiles(f, Nat), NEW k, k \in Nat, NEW n, n \in Nat
    PROVE  IsFiles(Put(f, k, n), Nat) /\ DOMAIN Put(f, k, n) = DOMAIN f \cup {k}
<1>1. IsFiniteSet(DOMAIN f \cup {k})
  BY FS_AddElement DEF IsFiles
<1> QED  BY <1>1 DEF Put, IsFiles

\* Keeping some of the files.
LEMMA RestrictFiles ==
    ASSUME NEW S, NEW f, IsFiles(f, S), NEW K, K \subseteq DOMAIN f
    PROVE  /\ IsFiles(Restrict(f, K), S)
           /\ DOMAIN Restrict(f, K) = K
           /\ \A x \in K : Restrict(f, K)[x] = f[x]
<1>1. IsFiniteSet(K)
  BY FS_Subset DEF IsFiles
<1> QED  BY <1>1 DEF Restrict, IsFiles

\* Removing some of the files.
LEMMA DropFiles ==
    ASSUME NEW S, NEW f, IsFiles(f, S), NEW K
    PROVE  /\ IsFiles(Drop(f, K), S)
           /\ DOMAIN Drop(f, K) = DOMAIN f \ K
           /\ \A x \in DOMAIN f \ K : Drop(f, K)[x] = f[x]
BY RestrictFiles DEF Drop

\* A directory's bytes can be counted.
LEMMA NBytesType ==
    ASSUME NEW f, IsFiles(f, Nat)
    PROVE  IsFiniteSet(Bytes(f)) /\ NBytes(f) \in Nat
<1> DEFINE B(s) == {s} \X (1 .. f[s])
           g == [s \in DOMAIN f |-> B(s)]
           T == {B(s) : s \in DOMAIN f}
<1>1. IsFiniteSet(T)
  <2>1. g \in Surjection(DOMAIN f, T)
    BY DEF Surjection
  <2> QED  BY <2>1, FS_Surjection DEF IsFiles
<1>2. ASSUME NEW s \in DOMAIN f PROVE IsFiniteSet(B(s))
  <2>1. f[s] \in Int
    BY DEF IsFiles
  <2>2. IsFiniteSet({s})
    BY FS_Singleton
  <2>3. IsFiniteSet(1 .. f[s])
    BY <2>1, FS_Interval
  <2> QED  BY <2>2, <2>3, FS_Product
<1>3. IsFiniteSet(UNION T)
  BY <1>1, <1>2, FS_UNION
<1> QED  BY <1>3, FS_CardinalityType DEF Bytes, NBytes

\* The lengths of the published files.
LEMMA LengthsFiles ==
    ASSUME NEW f, IsFiles(f, Content)
    PROVE  IsFiles(Lengths(f), Nat) /\ DOMAIN Lengths(f) = DOMAIN f
BY SpoolAssumption DEF IsFiles, Lengths, ByteLen, Content

\* The empty directory.
LEMMA EmptyFiles ==
    ASSUME NEW S PROVE IsFiles(Empty, S) /\ DOMAIN Empty = {}
BY FS_EmptySet DEF Empty, IsFiles

-----------------------------------------------------------------------------
(* The steps of the tasks *)

\* What the idle tasks look like.
LEMMA IdleTypes ==
    /\ IdlePush \in PushRec /\ IdlePush.pc = "idle"
    /\ IdleDrain \in DrainRec /\ IdleDrain.pc = "idle"
BY DEF IdlePush, IdleDrain, PushRec, DrainRec, PushPCs, DrainPCs

\* A writer that goes on keeps its sequence and its payload.
LEMMA GotoFacts ==
    ASSUME TypeOK, NEW w \in Writers, NEW pc \in PushPCs, Goto(w, pc)
    PROVE  /\ push' \in [Writers -> PushRec]
           /\ push'[w].pc = pc /\ push'[w].seq = push[w].seq
           /\ push'[w].payload = push[w].payload
           /\ \A v \in Writers : v # w => push'[v] = push[v]
BY DEF TypeOK, Goto, PushRec

\* A writer that has returned is idle.
LEMMA ReturnFacts ==
    ASSUME TypeOK, NEW w \in Writers, push' = [push EXCEPT ![w] = IdlePush]
    PROVE  /\ push' \in [Writers -> PushRec]
           /\ push'[w].pc = "idle"
           /\ \A v \in Writers : v # w => push'[v] = push[v]
BY IdleTypes DEF TypeOK

\* Counting one more fault, crash or power loss.
LEMMA SpendFacts ==
    ASSUME TypeOK,
           \/ spent.faults < MaxFaults /\ Spend("faults")
           \/ spent.crashes < MaxCrashes /\ Spend("crashes")
    PROVE  spent' \in SpentRec /\ spent'.power = spent.power
BY SpoolAssumption DEF TypeOK, Spend, SpentRec

\* A writer inside push.
LEMMA ActiveFacts ==
    ASSUME IInv, NEW w \in Writers, Active(w)
    PROVE  /\ mode = "up"
           /\ push[w].seq \in Nat /\ push[w].seq < next_seq
           /\ push[w].payload \in Payloads /\ Size[push[w].payload] \in Nat
           /\ result[push[w].payload] = "pushing"
           /\ push[w].seq \notin DOMAIN pending
<1>1. mode = "up"
  BY IdleTypes DEF IInv, DownInv, TypeOK, Active
<1> QED
  BY <1>1, SpoolAssumption DEF IInv, TypeOK, PushRec, SeqInv, OwnInv

-----------------------------------------------------------------------------
(* IInv is inductive *)

\* The empty directory of a first start satisfies IInv.
LEMMA InitIInv == Init => IInv
<1> SUFFICES ASSUME Init PROVE IInv
  OBVIOUS
<1>1. IsFiles(Empty, Content) /\ IsFiles(Empty, Nat) /\ DOMAIN Empty = {}
  BY EmptyFiles
<1>2. TypeOK
  BY <1>1, IdleTypes, SpoolAssumption DEF Init, TypeOK, Results, SpentRec
<1>3. DownInv /\ SeqInv /\ OwnInv /\ FileInv
  BY <1>1, IdleTypes DEF Init, DownInv, SeqInv, OwnInv, FileInv, Active
<1>4. DrainInv /\ SyncInv /\ OnceInv
  BY <1>1, IdleTypes DEF Init, DrainInv, SyncInv, OnceInv
<1>5. SentInv /\ AcceptedDurable
  BY DEF Init, SentInv, AcceptedDurable, Acked
<1> QED  BY <1>2, <1>3, <1>4, <1>5 DEF IInv

\* open finds the directory as it is and resumes after its highest sequence.
LEMMA OpenIInv ==
    ASSUME IInv, Open PROVE IInv'
<1> USE DEF Open, IInv
<1>1. IsFiles(pending', Nat) /\ DOMAIN pending' = DOMAIN otlp
  BY LengthsFiles DEF TypeOK, Recount
<1>2. next_seq' \in Nat /\ total_bytes' \in Nat /\ \A s \in DOMAIN otlp : s < next_seq'
  <2>1. total_bytes' \in Nat
    BY LengthsFiles, NBytesType DEF TypeOK, Recount
  <2> QED  BY <2>1 DEF TypeOK, Recount, ResumeSeqs, IsFiles
<1>3. IsFiles(tmp', Nat) /\ spent' \in SpentRec /\ spent'.power = spent.power
  BY EmptyFiles, RestrictFiles, SpendFacts DEF TypeOK
<1>4. \A w \in Writers : push[w].pc = "idle"
  BY IdleTypes DEF DownInv
<1>5. drain.pc = "idle"
  BY IdleTypes DEF DownInv
<1>6. TypeOK'
  BY <1>1, <1>2, <1>3 DEF TypeOK
<1>7. DownInv' /\ SeqInv' /\ OwnInv' /\ FileInv'
  BY <1>1, <1>2, <1>4 DEF DownInv, SeqInv, OwnInv, FileInv, Active
<1>8. DrainInv' /\ SyncInv' /\ OnceInv'
  BY <1>1, <1>5 DEF DrainInv, SyncInv, OnceInv
<1>9. SentInv' /\ (spent.power = 0 => AcceptedDurable)'
  BY <1>3 DEF SentInv, AcceptedDurable, Durable, Acked
<1> QED  BY <1>6, <1>7, <1>8, <1>9

\* A refusal changes nothing but the answer.
LEMMA PushFullIInv ==
    ASSUME IInv, NEW w \in Writers, NEW p \in Payloads, PushFull(w, p) PROVE IInv'
<1> USE DEF PushFull, IInv, disk, state
<1>1. TypeOK'
  BY DEF TypeOK, Results
<1>2. DownInv' /\ SeqInv' /\ FileInv' /\ DrainInv' /\ SyncInv'
  BY DEF DownInv, SeqInv, FileInv, DrainInv, SyncInv, Active
<1>3. OwnInv' /\ OnceInv'
  BY DEF TypeOK, OwnInv, OnceInv, Active
<1>4. SentInv' /\ (spent.power = 0 => AcceptedDurable)'
  BY DEF SentInv, TypeOK, AcceptedDurable, Durable, Acked
<1> QED  BY <1>1, <1>2, <1>3, <1>4

\* The new sequence is one nobody has.
LEMMA PushReserveIInv ==
    ASSUME IInv, NEW w \in Writers, NEW p \in Payloads, PushReserve(w, p) PROVE IInv'
<1> USE DEF PushReserve, IInv, disk
<1>1. mode = "up" /\ next_seq \in Nat /\ Size[p] \in Nat /\ push[w].pc = "idle"
  BY SpoolAssumption DEF At, TypeOK
<1>2. /\ push' \in [Writers -> PushRec]
      /\ push'[w] = [pc |-> "create", seq |-> next_seq, payload |-> p]
      /\ \A v \in Writers : v # w => push'[v] = push[v]
  BY <1>1 DEF TypeOK, PushRec, PushPCs
<1>3. next_seq \notin DOMAIN otlp /\ next_seq \notin DOMAIN pending
  BY <1>1 DEF SeqInv
<1>4. TypeOK'
  BY <1>1, <1>2 DEF TypeOK, Results, Acked
<1>5. DownInv' /\ SeqInv'
  BY <1>1, <1>2 DEF DownInv, SeqInv, Active, TypeOK, IsFiles, PushRec
<1>6. OwnInv'
  BY <1>1, <1>2, <1>3 DEF OwnInv, SeqInv, Active, TypeOK, PushRec
<1>7. FileInv' /\ SyncInv'
  BY <1>2, <1>3 DEF FileInv, SyncInv, Active
<1>8. DrainInv' /\ OnceInv'
  BY <1>1, <1>2 DEF DrainInv, OnceInv, TypeOK
<1>9. SentInv' /\ (spent.power = 0 => AcceptedDurable)'
  BY DEF SentInv, TypeOK, AcceptedDurable, Durable, Acked
<1> QED  BY <1>4, <1>5, <1>6, <1>7, <1>8, <1>9

\* The steps up to the rename touch no published file.
LEMMA PushTmpIInv ==
    ASSUME IInv, NEW w \in Writers, PushCreate(w) \/ PushWrite(w) \/ PushSync(w) \/ PushIoFault(w)
    PROVE  IInv'
<1> USE DEF IInv, state
<1>1. Active(w) /\ push[w].pc # "publish" /\ push[w].pc # "rollback"
  BY DEF PushCreate, PushWrite, PushSync, PushIoFault, At, Active
<1>2. PICK pc \in PushPCs \ {"idle", "publish"} : Goto(w, pc) /\ (pc = "rename" => PushSync(w))
  BY DEF PushCreate, PushWrite, PushSync, PushIoFault, PushPCs
<1>3. /\ push' \in [Writers -> PushRec]
      /\ push'[w].pc = pc /\ push'[w].seq = push[w].seq
      /\ push'[w].payload = push[w].payload
      /\ \A v \in Writers : v # w => push'[v] = push[v]
  BY <1>2, GotoFacts
<1>4. UNCHANGED <<mode, otlp, renamed, next_seq, total_bytes, pending, drain, result, delivered, preds>>
  BY DEF PushCreate, PushWrite, PushSync, PushIoFault
<1>5. IsFiles(tmp', Nat)
  <2>1. push[w].seq \in Nat /\ Size[push[w].payload] \in Nat
    BY <1>1, ActiveFacts
  <2>2. CASE UNCHANGED tmp
    BY <2>2 DEF TypeOK
  <2>3. CASE \E n \in Nat : tmp' = Put(tmp, push[w].seq, n)
    <3>1. IsFiles(tmp, Nat)
      BY DEF TypeOK
    <3>2. PICK n : n \in Nat /\ tmp' = Put(tmp, push[w].seq, n)
      BY <2>3
    <3> QED  BY ONLY <2>1, <3>1, <3>2, PutLength
  <2> QED
    BY <2>1, <2>2, <2>3 DEF PushCreate, PushWrite, PushSync, PushIoFault
<1>6. spent' \in SpentRec /\ spent'.power = spent.power
  BY SpendFacts DEF PushCreate, PushWrite, PushSync, PushIoFault, TypeOK
<1>7. unsynced' \in SUBSET Nat /\ unsynced' \subseteq unsynced \cup {push[w].seq}
  BY <1>1, ActiveFacts DEF PushCreate, PushWrite, PushSync, PushIoFault, TypeOK
<1>8. TypeOK'
  BY <1>3, <1>4, <1>5, <1>6, <1>7 DEF TypeOK
<1>9. DownInv' /\ SeqInv' /\ OwnInv' /\ FileInv' /\ DrainInv'
  BY <1>1, <1>2, <1>3, <1>4, ActiveFacts DEF DownInv, SeqInv, OwnInv, FileInv, DrainInv, Active
<1>10. SyncInv'
  <2>1. \A s \in DOMAIN otlp' : otlp'[s] \in Payloads /\ s \notin unsynced'
    BY <1>1, <1>4, <1>7 DEF SyncInv, FileInv
  <2>2. push'[w].pc = "rename" => push'[w].seq \notin unsynced'
    BY <1>2, <1>3 DEF PushSync
  <2>3. ASSUME NEW v \in Writers, v # w, push'[v].pc = "rename" PROVE push'[v].seq \notin unsynced'
    BY <1>1, <1>3, <1>7, <2>3 DEF SyncInv, OwnInv, Active
  <2> QED  BY <2>1, <2>2, <2>3 DEF SyncInv
<1>11. OnceInv'
  BY <1>1, <1>3, <1>4 DEF OnceInv
<1>12. SentInv' /\ (spent.power = 0 => AcceptedDurable)'
  BY <1>4, <1>6 DEF SentInv, AcceptedDurable, Durable, Acked
<1> QED  BY <1>8, <1>9, <1>10, <1>11, <1>12

\* The rename publishes under a name no file has.
LEMMA PushRenameIInv ==
    ASSUME IInv, NEW w \in Writers, PushRename(w) PROVE IInv'
<1> USE DEF IInv, PushRename, state
<1> DEFINE s == push[w].seq
           p == push[w].payload
<1>1. Active(w) /\ push[w].pc = "rename"
  BY DEF At, Active
<1>2. /\ mode = "up" /\ s \in Nat /\ s < next_seq /\ p \in Payloads
      /\ result[p] = "pushing" /\ s \notin DOMAIN pending /\ s \notin DOMAIN otlp
      /\ s \notin unsynced
  BY <1>1, ActiveFacts DEF FileInv, SyncInv
<1>3. /\ IsFiles(otlp', Content) /\ DOMAIN otlp' = DOMAIN otlp \cup {s}
      /\ otlp'[s] = p /\ \A t \in DOMAIN otlp : otlp'[t] = otlp[t]
  <2>1. IsFiles(otlp, Content) /\ p \in Content /\ otlp' = Put(otlp, s, p)
    BY <1>2 DEF TypeOK, Content
  <2>2. s \in Nat /\ s \notin DOMAIN otlp
    BY <1>2
  <2> HIDE DEF s, p
  <2> QED  BY ONLY <2>1, <2>2, PutFiles
<1>4. IsFiles(tmp', Nat)
  BY DropFiles DEF TypeOK
<1>5. /\ push' \in [Writers -> PushRec]
      /\ push'[w].pc = "publish" /\ push'[w].seq = s /\ push'[w].payload = p
      /\ \A v \in Writers : v # w => push'[v] = push[v]
  BY GotoFacts DEF PushPCs
<1>6. p \notin {otlp[t] : t \in DOMAIN otlp}
  BY <1>1, <1>2 DEF OnceInv, OwnInv, Active
<1> HIDE DEF s, p
<1>7. TypeOK'
  BY <1>2, <1>3, <1>4, <1>5 DEF TypeOK, s
<1>8. DownInv' /\ SeqInv'
  BY <1>1, <1>2, <1>3, <1>5 DEF DownInv, SeqInv, Active
<1>9. OwnInv'
  BY <1>1, <1>5 DEF OwnInv, Active, s, p
<1>10. FileInv'
  BY <1>1, <1>2, <1>3, <1>5 DEF FileInv, OwnInv, Active, s, p
<1>11. DrainInv'
  BY <1>2, <1>3 DEF DrainInv
<1>12. SyncInv'
  BY <1>2, <1>3, <1>5 DEF SyncInv
<1>13. OnceInv'
  BY <1>1, <1>3, <1>5, <1>6 DEF OnceInv
<1>14. SentInv' /\ (spent.power = 0 => AcceptedDurable)'
  BY <1>3 DEF SentInv, AcceptedDurable, Durable, Acked
<1> QED  BY <1>7, <1>8, <1>9, <1>10, <1>11, <1>12, <1>13, <1>14

\* The acknowledgement: the file is there.
LEMMA PushPublishIInv ==
    ASSUME IInv, NEW w \in Writers, PushPublish(w) PROVE IInv'
<1> USE DEF IInv, PushPublish, disk
<1> DEFINE s == push[w].seq
           p == push[w].payload
<1>1. Active(w) /\ push[w].pc = "publish"
  BY DEF At, Active
<1>2. /\ mode = "up" /\ s \in Nat /\ s < next_seq /\ p \in Payloads
      /\ Size[p] \in Nat /\ s \in DOMAIN otlp /\ otlp[s] = p
  BY <1>1, ActiveFacts DEF FileInv
<1>3. IsFiles(pending', Nat) /\ DOMAIN pending' = DOMAIN pending \cup {s}
  <2>1. IsFiles(pending, Nat) /\ s \in Nat /\ Size[p] \in Nat /\ pending' = Put(pending, s, Size[p])
    BY <1>2 DEF TypeOK
  <2> HIDE DEF s, p
  <2> QED  BY ONLY <2>1, PutLength
<1>4. /\ push' \in [Writers -> PushRec] /\ push'[w].pc = "idle"
      /\ \A v \in Writers : v # w => push'[v] = push[v]
  BY ReturnFacts
<1>5. /\ result' \in [Payloads -> Results] /\ result'[p] = "ok"
      /\ \A q \in Payloads : q # p => result'[q] = result[q]
  BY <1>2 DEF TypeOK, Results
<1>6. \A v \in Writers : Active(v)' => v # w /\ Active(v) /\ push[v].payload # p /\ push[v].seq # s
  BY <1>1, <1>4 DEF OwnInv, Active
<1> HIDE DEF s, p
<1>7. TypeOK'
  BY <1>3, <1>4, <1>5 DEF TypeOK
<1>8. DownInv' /\ SeqInv'
  BY <1>2, <1>3, <1>4, <1>6 DEF DownInv, SeqInv
<1>9. OwnInv'
  BY <1>3, <1>4, <1>5, <1>6 DEF OwnInv
<1>10. FileInv' /\ SyncInv'
  BY <1>4, <1>6 DEF FileInv, SyncInv, Active
<1>11. DrainInv'
  BY <1>2, <1>3 DEF DrainInv
<1>12. OnceInv'
  BY <1>4, <1>5 DEF OnceInv, SyncInv, p
<1>13. SentInv' /\ (spent.power = 0 => AcceptedDurable)'
  BY <1>2, <1>5 DEF SentInv, AcceptedDurable, Durable, Acked
<1> QED  BY <1>7, <1>8, <1>9, <1>10, <1>11, <1>12, <1>13

\* The rollback: no file was published.
LEMMA PushRollbackIInv ==
    ASSUME IInv, NEW w \in Writers, PushRollback(w) PROVE IInv'
<1> USE DEF IInv, PushRollback, disk
<1> DEFINE p == push[w].payload
<1>1. Active(w) /\ push[w].pc = "rollback"
  BY DEF At, Active
<1>2. mode = "up" /\ p \in Payloads /\ Size[p] \in Nat /\ result[p] = "pushing"
  BY <1>1, ActiveFacts
<1>3. /\ push' \in [Writers -> PushRec] /\ push'[w].pc = "idle"
      /\ \A v \in Writers : v # w => push'[v] = push[v]
  BY ReturnFacts
<1>4. /\ result' \in [Payloads -> Results] /\ result'[p] = "io"
      /\ \A q \in Payloads : q # p => result'[q] = result[q]
  BY <1>2 DEF TypeOK, Results
<1>5. \A v \in Writers : Active(v)' => v # w /\ Active(v) /\ push[v].payload # p
  BY <1>1, <1>3 DEF OwnInv, Active
<1>6. \A t \in DOMAIN otlp : otlp[t] # p
  BY <1>1, <1>2 DEF OnceInv, OwnInv, Active
<1> HIDE DEF p
<1>7. TypeOK'
  BY <1>2, <1>3, <1>4 DEF TypeOK, SatSub, p
<1>8. DownInv' /\ SeqInv' /\ OwnInv'
  BY <1>2, <1>3, <1>4, <1>5 DEF DownInv, SeqInv, OwnInv
<1>9. FileInv' /\ SyncInv' /\ DrainInv'
  BY <1>3, <1>5 DEF FileInv, SyncInv, DrainInv, Active
<1>10. OnceInv'
  BY <1>1, <1>3, <1>4, <1>6 DEF OnceInv, SyncInv
<1>11. SentInv' /\ (spent.power = 0 => AcceptedDurable)'
  BY <1>2, <1>4 DEF SentInv, AcceptedDurable, Durable, Acked
<1> QED  BY <1>7, <1>8, <1>9, <1>10, <1>11

\* A step of the draining task that touches neither files nor State.
LEMMA DrainMoveIInv ==
    ASSUME IInv, mode = "up", UNCHANGED <<mode, disk, state, push, result, preds>>,
           drain' \in DrainRec, DrainInv',
           spent' \in SpentRec, spent'.power = spent.power,
           delivered \subseteq delivered',
           \A p \in delivered' \ delivered : p \in Payloads /\ result[p] \in {"ok", "lost"}
    PROVE  IInv'
<1> USE DEF IInv, disk, state
<1>1. TypeOK' /\ SentInv'
  BY DEF TypeOK, SentInv, Content
<1>2. DownInv' /\ SeqInv' /\ OwnInv' /\ FileInv' /\ SyncInv' /\ OnceInv'
  BY DEF DownInv, SeqInv, OwnInv, FileInv, SyncInv, OnceInv, Active
<1>3. (spent.power = 0 => AcceptedDurable)'
  BY DEF AcceptedDurable, Durable, Acked
<1> QED  BY <1>1, <1>2, <1>3

\* Every such step of drain_once, and the end of the loop.
LEMMA DrainReadIInv ==
    ASSUME IInv,
           \/ DrainPick \/ DrainRead \/ DrainUnreadable
           \/ DrainForwardOk \/ DrainForwardErr \/ DrainStop
    PROVE  IInv'
<1>1. /\ mode = "up" /\ TypeOK /\ DrainInv
      /\ \A s \in DOMAIN otlp : otlp[s] \in Payloads
  BY DEF DrainPick, DrainRead, DrainUnreadable, DrainForwardOk, DrainForwardErr, DrainStop,
         DrainAt, IInv, SyncInv
<1>2. spent \in SpentRec
  BY <1>1 DEF TypeOK
<1> DEFINE Sendable(p) == p \in Payloads /\ result[p] \in {"ok", "lost"}
<1>x. ASSUME drain.pc = "forward" PROVE Sendable(drain.body)
  <2>1. drain.seq \in DOMAIN pending /\ drain.seq \in DOMAIN otlp /\ drain.body = otlp[drain.seq]
    BY <1>1, <1>x DEF DrainInv
  <2>2. ASSUME NEW w \in Writers, push[w].pc = "publish" PROVE push[w].payload # drain.body
    BY <2>1, <2>2 DEF IInv, FileInv, OwnInv, OnceInv, Active
  <2> QED  BY <1>1, <2>1, <2>2 DEF IInv, OnceInv
<1>3. CASE DrainPick
  <2>1. PICK s \in DOMAIN pending :
           drain' = [pc |-> "read", seq |-> s, len |-> pending[s], body |-> NoPayload]
    BY <1>3 DEF DrainPick
  <2>2. drain' \in DrainRec
    BY <1>1, <2>1 DEF TypeOK, IsFiles, DrainRec, DrainPCs
  <2>3. DrainInv'
    BY <1>1, <1>3, <2>1 DEF DrainPick, DrainAt, DrainInv, disk, state
  <2> QED  BY <1>1, <1>2, <1>3, <2>2, <2>3, DrainMoveIInv DEF DrainPick
<1>4. CASE DrainRead
  <2>1. drain' \in DrainRec /\ drain'.pc = "forward" /\ drain'.seq = drain.seq /\ drain'.body = otlp[drain.seq]
    BY <1>1, <1>4 DEF DrainRead, TypeOK, DrainRec, DrainPCs, Content
  <2>2. DrainInv'
    BY <1>1, <1>4, <2>1 DEF DrainRead, DrainAt, DrainInv, disk, state
  <2> QED  BY <1>1, <1>2, <1>4, <2>1, <2>2, DrainMoveIInv DEF DrainRead
<1>5. CASE DrainUnreadable
  <2>1. spent' \in SpentRec /\ spent'.power = spent.power
    BY <1>1, <1>2, <1>5, SpendFacts DEF DrainUnreadable
  <2>2. DrainInv'
    BY <1>1, <1>5, IdleTypes DEF DrainUnreadable, DrainAt, DrainInv, disk, state
  <2> QED  BY <1>1, <1>5, <2>1, <2>2, IdleTypes, DrainMoveIInv DEF DrainUnreadable
<1>6. CASE DrainForwardOk
  <2>1. drain' \in DrainRec /\ drain'.pc = "remove" /\ drain'.seq = drain.seq /\ drain'.body = drain.body
    BY <1>1, <1>6 DEF DrainForwardOk, TypeOK, DrainRec, DrainPCs
  <2>2. Sendable(drain.body)
    BY <1>6, <1>x DEF DrainForwardOk, DrainAt
  <2>3. DrainInv'
    BY <1>1, <1>6, <2>1 DEF DrainForwardOk, DrainAt, DrainInv, disk, state
  <2> QED  BY <1>1, <1>2, <1>6, <2>1, <2>2, <2>3, DrainMoveIInv DEF DrainForwardOk
<1>7. CASE DrainForwardErr
  <2>1. Sendable(drain.body)
    BY <1>7, <1>x DEF DrainForwardErr, DrainAt
  <2>2. DrainInv'
    BY <1>1, <1>7, IdleTypes DEF DrainForwardErr, DrainAt, DrainInv, disk, state
  <2>3. delivered \subseteq delivered' /\ \A p \in delivered' \ delivered : Sendable(p)
    BY <1>7, <2>1 DEF DrainForwardErr
  <2> QED  BY <1>1, <1>2, <1>7, <2>2, <2>3, IdleTypes, DrainMoveIInv DEF DrainForwardErr
<1>8. CASE DrainStop
  <2>1. spent' \in SpentRec /\ spent'.power = spent.power
    BY <1>1, <1>8, SpendFacts DEF DrainStop
  <2>2. drain' \in DrainRec /\ drain'.pc = "stopped"
    BY <1>8 DEF DrainStop, IdleDrain, DrainRec, DrainPCs
  <2>3. DrainInv'
    BY <1>1, <1>8, <2>2 DEF DrainStop, DrainAt, DrainInv, disk, state
  <2> QED  BY <1>1, <1>8, <2>1, <2>2, <2>3, DrainMoveIInv DEF DrainStop
<1> QED  BY <1>3, <1>4, <1>5, <1>6, <1>7, <1>8

\* Only a delivered payload is removed.
LEMMA DrainRemoveIInv ==
    ASSUME IInv, DrainRemove PROVE IInv'
<1> USE DEF IInv, DrainRemove, state
<1> DEFINE s == drain.seq
<1>1. /\ mode = "up" /\ drain.pc = "remove" /\ s \in DOMAIN pending /\ s \in DOMAIN otlp
      /\ otlp[s] \in delivered
  BY DEF DrainAt, DrainInv
<1>2. drain' \in DrainRec /\ drain'.pc = "forget" /\ drain'.seq = s
  BY DEF TypeOK, DrainRec, DrainPCs
<1>3. spent' \in SpentRec /\ spent'.power = spent.power
  BY SpendFacts DEF TypeOK
<1>4. /\ IsFiles(otlp', Content) /\ DOMAIN otlp' \subseteq DOMAIN otlp
      /\ DOMAIN otlp \subseteq DOMAIN otlp' \cup {s}
      /\ \A t \in DOMAIN otlp' : otlp'[t] = otlp[t]
  <2>1. IsFiles(otlp, Content)
    BY DEF TypeOK
  <2>2. CASE UNCHANGED otlp
    BY <2>1, <2>2
  <2>3. CASE otlp' = Drop(otlp, {s})
    <3>1. /\ IsFiles(Drop(otlp, {s}), Content)
          /\ DOMAIN Drop(otlp, {s}) = DOMAIN otlp \ {s}
          /\ \A t \in DOMAIN otlp \ {s} : Drop(otlp, {s})[t] = otlp[t]
      BY ONLY <2>1, DropFiles
    <3> HIDE DEF s
    <3> QED  BY ONLY <2>3, <3>1
  <2> QED  BY <2>2, <2>3
<1>5. renamed' \in SUBSET Nat
  BY DEF TypeOK
<1>6. \A w \in Writers : Active(w) => push[w].seq # s
  BY <1>1 DEF OwnInv
<1> HIDE DEF s
<1>7. TypeOK'
  BY <1>2, <1>3, <1>4, <1>5 DEF TypeOK
<1>8. DownInv' /\ SeqInv' /\ OwnInv'
  BY <1>1, <1>4 DEF DownInv, SeqInv, OwnInv, Active
<1>9. FileInv'
  BY <1>4, <1>6 DEF FileInv, Active
<1>10. DrainInv'
  BY <1>1, <1>2, <1>4 DEF DrainInv
<1>11. SyncInv' /\ OnceInv'
  BY <1>4 DEF SyncInv, OnceInv
<1>12. SentInv' /\ (spent.power = 0 => AcceptedDurable)'
  <2>1. Durable \subseteq Durable' \cup delivered
    BY <1>1, <1>4 DEF Durable
  <2> QED  BY <1>3, <2>1 DEF SentInv, AcceptedDurable, Acked
<1> QED  BY <1>7, <1>8, <1>9, <1>10, <1>11, <1>12

\* The entry of a removed file goes last.
LEMMA DrainForgetIInv ==
    ASSUME IInv, DrainForget PROVE IInv'
<1> USE DEF IInv, DrainForget, disk
<1>1. mode = "up" /\ drain.pc = "forget" /\ drain.seq \in DOMAIN pending
  BY DEF DrainAt, DrainInv
<1>2. IsFiles(pending', Nat) /\ DOMAIN pending' = DOMAIN pending \ {drain.seq}
  <2>1. IsFiles(pending, Nat) /\ pending' = Drop(pending, {drain.seq})
    BY <1>1 DEF TypeOK
  <2> QED  BY ONLY <2>1, DropFiles
<1>3. total_bytes' \in Nat
  BY <1>1 DEF TypeOK, SatSub, DrainRec
<1>4. TypeOK'
  BY <1>2, <1>3, IdleTypes DEF TypeOK
<1>5. DownInv' /\ SeqInv' /\ OwnInv' /\ FileInv'
  BY <1>1, <1>2 DEF DownInv, SeqInv, OwnInv, FileInv, Active
<1>6. DrainInv' /\ SyncInv' /\ OnceInv'
  BY <1>1, <1>2, IdleTypes DEF DrainInv, SyncInv, OnceInv
<1>7. SentInv' /\ (spent.power = 0 => AcceptedDurable)'
  BY DEF SentInv, AcceptedDurable, Durable, Acked
<1> QED  BY <1>4, <1>5, <1>6, <1>7

\* The directory survives the process; a power loss may undo renames, but what
\* is still published is whole.
LEMMA MemoryLostIInv ==
    ASSUME IInv, Exit \/ Crash \/ PowerLoss PROVE IInv'
<1> USE DEF IInv
<1>1. MemoryLost
  BY DEF Exit, Crash, PowerLoss
<1>2. /\ push' \in [Writers -> PushRec] /\ \A w \in Writers : push'[w] = IdlePush
      /\ drain' = IdleDrain /\ push' = [w \in Writers |-> IdlePush]
  BY <1>1, IdleTypes DEF MemoryLost
<1>3. /\ result' \in [Payloads -> Results] /\ Acked' = Acked
      /\ \A p \in Payloads : IF result[p] = "pushing" THEN result'[p] = "lost" ELSE result'[p] = result[p]
  BY <1>1 DEF MemoryLost, TypeOK, Results, Acked
<1>4. /\ IsFiles(otlp', Content) /\ DOMAIN otlp' \subseteq DOMAIN otlp
      /\ \A s \in DOMAIN otlp' : otlp'[s] = otlp[s]
      /\ ~PowerLoss => DOMAIN otlp' = DOMAIN otlp
  <2>1. CASE Exit \/ Crash
    BY <2>1 DEF Exit, Crash, disk, TypeOK
  <2>2. CASE PowerLoss
    <3>1. PICK undone \in SUBSET (renamed \cap DOMAIN otlp), torn \in SUBSET (unsynced \cap DOMAIN otlp) :
             otlp' = [s \in DOMAIN otlp \ undone |-> IF s \in torn THEN Torn ELSE otlp[s]]
      BY <2>2 DEF PowerLoss
    <3>2. torn = {}
      BY DEF SyncInv
    <3>3. IsFiniteSet(DOMAIN otlp \ undone)
      BY FS_Difference DEF TypeOK, IsFiles
    <3> QED  BY <2>2, <3>1, <3>2, <3>3 DEF TypeOK, IsFiles
  <2> QED  BY <2>1, <2>2
<1>5. IsFiles(tmp', Nat) /\ unsynced' \in SUBSET Nat /\ renamed' \in SUBSET Nat /\ unsynced' \subseteq unsynced
  <2>1. CASE Exit \/ Crash
    BY <2>1 DEF Exit, Crash, disk, TypeOK
  <2>2. CASE PowerLoss
    <3>1. PICK undone \in SUBSET (renamed \cap DOMAIN otlp) :
             tmp' = [s \in DOMAIN tmp \cup undone |-> IF s \in undone THEN ByteLen(otlp[s]) ELSE tmp[s]]
      BY <2>2 DEF PowerLoss
    <3>2. IsFiniteSet(undone)
      BY FS_Subset DEF TypeOK, IsFiles
    <3>3. IsFiniteSet(DOMAIN tmp \cup undone)
      BY <3>2, FS_Union DEF TypeOK, IsFiles
    <3>4. \A s \in undone : s \in Nat /\ ByteLen(otlp[s]) \in Nat
      BY SpoolAssumption DEF TypeOK, IsFiles, Content, ByteLen
    <3> QED  BY <2>2, <3>1, <3>3, <3>4 DEF PowerLoss, TypeOK, IsFiles
  <2> QED  BY <2>1, <2>2
<1>6. spent' \in SpentRec /\ (spent'.power = 0 => spent.power = 0 /\ ~PowerLoss)
  <2>1. CASE Exit \/ Crash
    <3>1. ASSUME PowerLoss PROVE spent'.power # 0
      BY <3>1, SpoolAssumption DEF PowerLoss, Spend, TypeOK, SpentRec
    <3> QED  BY <2>1, <3>1, SpendFacts DEF Exit, Crash, TypeOK
  <2>2. CASE PowerLoss
    BY <2>2, SpoolAssumption DEF PowerLoss, Spend, TypeOK, SpentRec
  <2> QED  BY <2>1, <2>2
<1>7. TypeOK'
  BY <1>1, <1>2, <1>3, <1>4, <1>5, <1>6, IdleTypes, EmptyFiles DEF MemoryLost, TypeOK
<1>8. DownInv' /\ SeqInv' /\ OwnInv' /\ FileInv'
  BY <1>1, <1>2, IdleTypes DEF MemoryLost, DownInv, SeqInv, OwnInv, FileInv, Active
<1>9. DrainInv' /\ SyncInv'
  BY <1>1, <1>2, <1>4, <1>5, IdleTypes, EmptyFiles DEF MemoryLost, DrainInv, SyncInv
<1>10. OnceInv'
  <2>1. ASSUME NEW s \in DOMAIN otlp' PROVE result'[otlp'[s]] \in {"ok", "lost"}
    BY <1>3, <1>4 DEF OnceInv, SyncInv, OwnInv, Active
  <2> QED  BY <1>4, <2>1 DEF OnceInv
<1>11. SentInv' /\ (spent.power = 0 => AcceptedDurable)'
  BY <1>1, <1>3, <1>4, <1>6 DEF SentInv, MemoryLost, AcceptedDurable, Durable
<1> QED  BY <1>7, <1>8, <1>9, <1>10, <1>11

\* Every step of the specification keeps IInv.
LEMMA NextIInv == IInv /\ [Next]_vars => IInv'
<1> SUFFICES ASSUME IInv, [Next]_vars PROVE IInv'
  OBVIOUS
<1>1. CASE Open
  BY <1>1, OpenIInv
<1>2. CASE \E w \in Writers, p \in Payloads : PushFull(w, p) \/ PushReserve(w, p)
  BY <1>2, PushFullIInv, PushReserveIInv
<1>3. CASE \E w \in Writers : PushStep(w) \/ PushIoFault(w)
  BY <1>3, PushTmpIInv, PushRenameIInv, PushPublishIInv, PushRollbackIInv DEF PushStep
<1>4. CASE DrainIdle \/ UNCHANGED vars
  <2> USE <1>4 DEF DrainIdle, vars, disk, state
  <2>1. TypeOK' /\ DownInv' /\ SeqInv' /\ OwnInv' /\ FileInv'
    BY DEF IInv, TypeOK, DownInv, SeqInv, OwnInv, FileInv, Active
  <2>2. DrainInv' /\ SyncInv' /\ OnceInv'
    BY DEF IInv, DrainInv, SyncInv, OnceInv
  <2> QED  BY <2>1, <2>2 DEF IInv, SentInv, AcceptedDurable, Durable, Acked
<1>5. CASE (DrainStep /\ ~DrainIdle) \/ DrainStop
  BY <1>5, DrainReadIInv, DrainRemoveIInv, DrainForgetIInv DEF DrainStep
<1>6. CASE Exit \/ Crash \/ PowerLoss
  BY <1>6, MemoryLostIInv
<1> QED  BY <1>1, <1>2, <1>3, <1>4, <1>5, <1>6 DEF Next

\* The inductive invariant holds in every reachable state.
THEOREM SpoolIInv == Spec => []IInv
<1>1. IInv /\ [Next]_vars => IInv'
  BY NextIInv
<1> QED  BY InitIInv, <1>1, PTL DEF Spec

-----------------------------------------------------------------------------
(* What follows from it *)

\* Directory, State and tasks are well typed in every run of any size.
THEOREM TypeCorrect == Spec => []TypeOK
<1>1. IInv => TypeOK
  BY DEF IInv
<1> QED  BY <1>1, SpoolIInv, PTL

\* An Ok from push is never a lie, whatever crashes, fails or is retried, as long
\* as the machine keeps its power (lines 3-7 of spool.rs).
THEOREM AcceptedStaysDurable ==
    ASSUME MaxPowerLosses = 0 PROVE Spec => []AcceptedDurable
<1>1. IInv => AcceptedDurable
  BY DEF IInv, TypeOK, SpentRec
<1> QED  BY <1>1, SpoolIInv, PTL

\* Even across power losses no partly written payload is published or sent
\* (lines 9-11): fsync precedes the rename.
THEOREM NothingTorn == Spec => []PublishedComplete
<1>1. IInv => PublishedComplete
  BY SpoolAssumption DEF IInv, SyncInv, SentInv, PublishedComplete
<1> QED  BY <1>1, SpoolIInv, PTL

\* A sender told to retry holds the only copy: no refused or rolled back payload
\* is ever on disk under a published name, or sent.
THEOREM RefusedNeverHeld == Spec => []RefusedNotHeld
<1>1. IInv => RefusedNotHeld
  <2> SUFFICES ASSUME IInv, NEW p \in Payloads, result[p] \in {"full", "io"}
               PROVE  p \notin Durable \cup delivered
    BY DEF RefusedNotHeld
  <2>1. p \notin delivered
    BY DEF IInv, SentInv
  <2>2. ASSUME NEW w \in Writers, push[w].pc = "publish" PROVE push[w].payload # p
    BY <2>2 DEF IInv, OwnInv, Active
  <2>3. p \notin Durable
    BY <2>2 DEF IInv, OnceInv, Durable
  <2> QED  BY <2>1, <2>3
<1> QED  BY <1>1, SpoolIInv, PTL

\* No published file is ever rewritten: not by two pushes, and not by a push
\* after a restart that resumes the sequence.
THEOREM NeverOverwritten == Spec => NoOverwrite
<1> DEFINE Kept == \A s \in DOMAIN otlp \cap DOMAIN otlp' : otlp'[s] = otlp[s]
<1>1. ASSUME IInv, [Next]_vars PROVE Kept \/ UNCHANGED vars
  <2>1. CASE \E w \in Writers : PushRename(w)
    <3>1. PICK w \in Writers : PushRename(w)
      BY <2>1
    <3>2. push[w].seq \notin DOMAIN otlp
      BY <1>1, <3>1 DEF IInv, FileInv, Active, PushRename, At
    <3> QED  BY <3>1, <3>2 DEF PushRename, Put
  <2>2. CASE DrainRemove
    BY <2>2 DEF DrainRemove, Drop, Restrict
  <2>3. CASE PowerLoss
    BY <1>1, <2>3 DEF PowerLoss, IInv, SyncInv
  <2>4. CASE UNCHANGED otlp
    BY <2>4
  <2> QED
    BY <1>1, <2>1, <2>2, <2>3, <2>4
    DEF Next, Open, PushFull, PushReserve, PushStep, PushCreate, PushWrite, PushSync, PushPublish,
        PushIoFault, PushRollback, DrainStep, DrainPick, DrainIdle, DrainRead, DrainUnreadable,
        DrainForwardOk, DrainForwardErr, DrainForget, DrainStop, Exit, Crash, vars, disk
<1>2. IInv /\ [Next]_vars => [Kept]_vars
  BY <1>1
<1> QED  BY <1>2, SpoolIInv, PTL DEF Spec, NoOverwrite

\* While the machine keeps its power, the spool with its files, sequences and
\* interleaved tasks implements the outbox: each step stores, accepts, delivers
\* or discards one payload, or changes nothing the outbox can see.
THEOREM ImplementsOutbox ==
    ASSUME MaxPowerLosses = 0 PROVE Spec => RefinesOutbox
<1> DEFINE OVars == <<Durable, Acked, delivered>>
<1>1. Init => O!OutboxInit
  BY EmptyFiles DEF Init, O!OutboxInit, Durable, Acked
<1>2. ASSUME IInv, [Next]_vars PROVE O!OutboxNext \/ UNCHANGED OVars
  <2> USE <1>2 DEF IInv
  <2>1. ASSUME NEW w \in Writers, PushRename(w) PROVE O!Store(push[w].payload) /\ push[w].payload \in Payloads
    <3>1. Active(w) /\ push[w].pc = "rename"
      BY <2>1 DEF PushRename, At, Active
    <3>2. /\ push[w].payload \in Payloads /\ push[w].seq \notin DOMAIN otlp
          /\ result[push[w].payload] = "pushing"
      BY <3>1, ActiveFacts DEF FileInv
    <3>3. push[w].payload \notin Durable
      BY <3>1, <3>2 DEF OnceInv, OwnInv, Active, Durable
    <3>4. Durable' = Durable \cup {push[w].payload}
      BY <2>1, <3>2 DEF PushRename, Put, Durable
    <3> QED  BY <2>1, <3>2, <3>3, <3>4 DEF PushRename, O!Store, Acked
  <2>2. ASSUME NEW w \in Writers, PushPublish(w) PROVE O!Accept(push[w].payload) /\ push[w].payload \in Payloads
    <3>1. Active(w) /\ push[w].pc = "publish"
      BY <2>2 DEF PushPublish, At, Active
    <3>2. push[w].payload \in Payloads /\ push[w].payload \in Durable
      BY <3>1, ActiveFacts DEF FileInv, Durable
    <3>3. Acked' = Acked \cup {push[w].payload}
      BY <2>2, <3>2 DEF PushPublish, Acked, TypeOK
    <3> QED  BY <2>2, <3>2, <3>3 DEF PushPublish, O!Accept, Durable, disk
  <2>3. ASSUME DrainForwardOk \/ DrainForwardErr
        PROVE  UNCHANGED OVars \/ (O!Deliver(drain.body) /\ drain.body \in Payloads)
    <3>1. drain.body \in Payloads /\ drain.body \in Durable
      BY <2>3 DEF DrainForwardOk, DrainForwardErr, DrainAt, DrainInv, SyncInv, Durable
    <3>2. UNCHANGED <<Durable, Acked>>
      BY <2>3 DEF DrainForwardOk, DrainForwardErr, Durable, Acked, disk
    <3>3. UNCHANGED delivered \/ delivered' = delivered \cup {drain.body}
      BY <2>3 DEF DrainForwardOk, DrainForwardErr
    <3> QED  BY <3>1, <3>2, <3>3 DEF O!Deliver
  <2>4. ASSUME DrainRemove
        PROVE  UNCHANGED OVars \/ (O!Discard(drain.body) /\ drain.body \in Payloads)
    <3>1. /\ drain.seq \in DOMAIN otlp /\ drain.body = otlp[drain.seq] /\ drain.body \in delivered
          /\ drain.body \in Payloads /\ drain.body \in Durable
      BY <2>4 DEF DrainRemove, DrainAt, DrainInv, SyncInv, Durable
    <3>2. UNCHANGED <<Acked, delivered>>
      BY <2>4 DEF DrainRemove, Acked
    <3>3. CASE UNCHANGED otlp
      BY <3>2, <3>3 DEF Durable
    <3>4. CASE otlp' = Drop(otlp, {drain.seq})
      <4>1. DOMAIN otlp' = DOMAIN otlp \ {drain.seq} /\ \A t \in DOMAIN otlp' : otlp'[t] = otlp[t]
        BY <3>4 DEF Drop, Restrict
      <4>2. \A t \in DOMAIN otlp : t # drain.seq => otlp[t] # drain.body
        BY <3>1 DEF OnceInv
      <4>3. Durable' = Durable \ {drain.body}
        BY <3>1, <4>1, <4>2 DEF Durable
      <4> QED  BY <3>1, <3>2, <4>3 DEF O!Discard
    <3> QED  BY <2>4, <3>3, <3>4 DEF DrainRemove
  <2>5. ASSUME MemoryLost PROVE UNCHANGED <<Acked, delivered>>
    BY <2>5 DEF MemoryLost, Acked, TypeOK
  <2>6. ASSUME Exit \/ Crash PROVE UNCHANGED OVars
    BY <2>5, <2>6 DEF Exit, Crash, Durable, disk
  <2>7. ASSUME NEW w \in Writers, NEW p \in Payloads, PushFull(w, p) \/ PushReserve(w, p)
        PROVE  UNCHANGED OVars
    BY <2>7 DEF PushFull, PushReserve, Durable, Acked, disk, TypeOK
  <2>8. ASSUME NEW w \in Writers, PushRollback(w) PROVE UNCHANGED OVars
    <3>1. Active(w)
      BY <2>8 DEF PushRollback, At, Active
    <3> QED  BY <2>8, <3>1, ActiveFacts DEF PushRollback, Durable, Acked, disk, TypeOK
  <2>9. ~PowerLoss
    BY DEF PowerLoss, TypeOK, SpentRec
  <2>10. CASE UNCHANGED <<otlp, result, delivered>>
    BY <2>10 DEF Durable, Acked
  <2> HIDE DEF IInv
  <2> QED
    BY <2>1, <2>2, <2>3, <2>4, <2>6, <2>7, <2>8, <2>9, <2>10
    DEF Next, Open, PushStep, PushCreate, PushWrite, PushSync, PushIoFault, DrainStep, DrainPick,
        DrainIdle, DrainRead, DrainUnreadable, DrainForget, DrainStop, vars, disk, O!OutboxNext
<1>3. IInv /\ [Next]_vars => [O!OutboxNext]_(O!outboxVars)
  BY <1>2 DEF O!outboxVars
<1> QED  BY <1>1, <1>3, SpoolIInv, PTL DEF Spec, RefinesOutbox, O!OutboxSpec

-----------------------------------------------------------------------------
(* The order of delivery *)

\* A file acknowledged before another push began has the smaller sequence.
OrderInv ==
    /\ \A p \in Payloads : preds[p] \subseteq Acked
    /\ \A s, t \in DOMAIN otlp : otlp[t] \in preds[otlp[s]] => t < s
    /\ \A w \in Writers, t \in DOMAIN otlp :
          Active(w) /\ otlp[t] \in preds[push[w].payload] => t < push[w].seq

\* A published file waits in `pending`, is about to, or was sent.
HeldInv ==
    /\ mode = "up" =>
          \A s \in DOMAIN otlp :
              \/ s \in DOMAIN pending \/ otlp[s] \in delivered
              \/ \E w \in Writers : push[w].pc = "publish" /\ push[w].seq = s
    /\ drain.pc = "forget" /\ drain.seq \in DOMAIN otlp => otlp[drain.seq] \in delivered

\* What the draining task has picked is next in turn.
TurnInv ==
    drain.pc \in {"read", "forward"} /\ drain.seq \in DOMAIN otlp =>
        preds[otlp[drain.seq]] \subseteq delivered

FifoInv == OrderInv /\ HeldInv /\ TurnInv /\ FifoByAcceptance

\* A step that neither reserves nor changes the directory's names.
LEMMA FifoQuiet ==
    ASSUME IInv, FifoInv, IInv', UNCHANGED <<otlp, preds>>, Acked \subseteq Acked',
           \A w \in Writers : Active(w)' =>
               Active(w) /\ push'[w].seq = push[w].seq /\ push'[w].payload = push[w].payload
    PROVE  OrderInv'
<1>1. \A p \in Payloads : preds'[p] \subseteq Acked'
  BY DEF FifoInv, OrderInv
<1>2. \A s, t \in DOMAIN otlp' : otlp'[t] \in preds'[otlp'[s]] => t < s
  BY DEF FifoInv, OrderInv
<1>3. \A w \in Writers, t \in DOMAIN otlp' :
          Active(w)' /\ otlp'[t] \in preds'[push'[w].payload] => t < push'[w].seq
  BY DEF FifoInv, OrderInv
<1> QED  BY <1>1, <1>2, <1>3 DEF OrderInv

\* The reservation takes its turn behind everything acknowledged so far.
LEMMA FifoReserve ==
    ASSUME IInv, FifoInv, IInv', NEW w \in Writers, NEW p \in Payloads, PushReserve(w, p)
    PROVE  FifoInv'
<1>1. /\ mode = "up" /\ UNCHANGED <<mode, otlp, pending, drain, delivered>>
      /\ result[p] = "untried" /\ push[w].pc = "idle"
      /\ preds' = [preds EXCEPT ![p] = Acked]
  BY DEF PushReserve, At, disk
<1>2. /\ push'[w].seq = next_seq /\ push'[w].payload = p /\ push'[w].pc = "create"
      /\ \A v \in Writers : v # w => push'[v] = push[v]
  BY DEF PushReserve, IInv, TypeOK
<1>3. preds'[p] = Acked /\ \A q \in Payloads : q # p => preds'[q] = preds[q]
  BY <1>1 DEF IInv, TypeOK
<1>4. Acked' = Acked
  BY <1>1 DEF PushReserve, Acked, IInv, TypeOK
<1>5. p \notin delivered /\ \A s \in DOMAIN otlp : otlp[s] # p /\ otlp[s] \in Payloads /\ s < next_seq
  BY <1>1 DEF IInv, SentInv, OnceInv, OwnInv, SyncInv, SeqInv, Active
<1>6. \A v \in Writers : Active(v) => push[v].payload # p /\ push[v].payload \in Payloads
  BY <1>1 DEF IInv, OwnInv
<1>7. OrderInv'
  <2>1. \A q \in Payloads : preds'[q] \subseteq Acked'
    BY <1>3, <1>4 DEF FifoInv, OrderInv
  <2>2. \A s, t \in DOMAIN otlp' : otlp'[t] \in preds'[otlp'[s]] => t < s
    BY <1>1, <1>3, <1>5 DEF FifoInv, OrderInv
  <2>3. \A v \in Writers, t \in DOMAIN otlp' :
            Active(v)' /\ otlp'[t] \in preds'[push'[v].payload] => t < push'[v].seq
    BY <1>1, <1>2, <1>3, <1>5, <1>6 DEF FifoInv, OrderInv, Active
  <2> QED  BY <2>1, <2>2, <2>3 DEF OrderInv
<1>8. HeldInv'
  BY <1>1, <1>2 DEF FifoInv, HeldInv
<1>9. TurnInv' /\ FifoByAcceptance'
  BY <1>1, <1>3, <1>5 DEF FifoInv, TurnInv, FifoByAcceptance
<1> QED  BY <1>7, <1>8, <1>9 DEF FifoInv

\* A new file is acknowledged later than any whose turn it could take.
LEMMA FifoRename ==
    ASSUME IInv, FifoInv, IInv', NEW w \in Writers, PushRename(w) PROVE FifoInv'
<1> DEFINE s == push[w].seq
           p == push[w].payload
<1>1. Active(w) /\ push[w].pc = "rename"
  BY DEF PushRename, At, Active
<1>2. mode = "up" /\ s \notin DOMAIN otlp /\ p \in Payloads /\ result[p] = "pushing" /\ s \notin DOMAIN pending
  BY <1>1, ActiveFacts DEF IInv, FileInv
<1>3. /\ DOMAIN otlp' = DOMAIN otlp \cup {s} /\ otlp'[s] = p /\ \A t \in DOMAIN otlp : otlp'[t] = otlp[t]
      /\ UNCHANGED <<mode, preds, pending, drain, delivered, result>> /\ Acked' = Acked
  BY <1>2 DEF PushRename, Put, state, Acked
<1>4. /\ push'[w].pc = "publish" /\ push'[w].seq = s /\ push'[w].payload = p
      /\ \A v \in Writers : v # w => push'[v] = push[v]
  BY GotoFacts DEF PushRename, IInv, PushPCs
<1>5. p \notin Acked /\ \A q \in Payloads : p \notin preds[q]
  BY <1>2 DEF FifoInv, OrderInv, Acked
<1>6. /\ \A t \in DOMAIN otlp : otlp[t] \in Payloads
      /\ \A v \in Writers : Active(v) => push[v].payload \in Payloads
  BY DEF IInv, SyncInv, OwnInv
<1>7. \A t \in DOMAIN otlp : otlp[t] \in preds[p] => t < s
  BY <1>1 DEF FifoInv, OrderInv
<1> HIDE DEF s, p
<1>8. OrderInv'
  <2>1. \A q \in Payloads : preds'[q] \subseteq Acked'
    BY <1>3 DEF FifoInv, OrderInv
  <2>2. \A x, t \in DOMAIN otlp' : otlp'[t] \in preds'[otlp'[x]] => t < x
    BY <1>2, <1>3, <1>5, <1>6, <1>7 DEF FifoInv, OrderInv
  <2>3. \A v \in Writers, t \in DOMAIN otlp' :
            Active(v)' /\ otlp'[t] \in preds'[push'[v].payload] => t < push'[v].seq
    BY <1>1, <1>2, <1>3, <1>4, <1>5, <1>6, <1>7 DEF FifoInv, OrderInv, Active
  <2> QED  BY <2>1, <2>2, <2>3 DEF OrderInv
<1>9. HeldInv'
  <2>1. drain.pc = "forget" => drain.seq # s
    BY <1>2 DEF IInv, DrainInv
  <2> QED  BY <1>1, <1>2, <1>3, <1>4, <2>1 DEF FifoInv, HeldInv
<1>10. TurnInv'
  <2>1. drain.pc \in {"read", "forward"} => drain.seq # s
    BY <1>2 DEF IInv, DrainInv
  <2> QED  BY <1>3, <2>1 DEF FifoInv, TurnInv
<1> QED  BY <1>3, <1>8, <1>9, <1>10 DEF FifoInv, FifoByAcceptance

\* The oldest entry has no undelivered payload before it.
LEMMA FifoPick ==
    ASSUME IInv, FifoInv, IInv', AcceptedDurable, DrainPick PROVE TurnInv'
<1>1. PICK s \in DOMAIN pending :
         /\ \A t \in DOMAIN pending : s <= t
         /\ drain' = [pc |-> "read", seq |-> s, len |-> pending[s], body |-> NoPayload]
  BY DEF DrainPick
<1>2. mode = "up" /\ UNCHANGED <<otlp, preds, delivered>>
  BY DEF DrainPick, DrainAt, disk
<1>3. ASSUME s \in DOMAIN otlp, NEW q \in preds[otlp[s]], q \notin delivered PROVE FALSE
  <2>1. otlp[s] \in Payloads /\ q \in Acked
    BY <1>3 DEF IInv, SyncInv, FifoInv, OrderInv
  <2>2. PICK t \in DOMAIN otlp : otlp[t] = q
    BY <1>3, <2>1 DEF AcceptedDurable, Durable
  <2>3. t < s /\ s \in Nat /\ t \in Nat
    BY <1>3, <2>2 DEF FifoInv, OrderInv, IInv, TypeOK, IsFiles
  <2>4. t \notin DOMAIN pending
    BY <1>1, <2>3
  <2>5. PICK w \in Writers : push[w].pc = "publish" /\ push[w].seq = t
    BY <1>2, <1>3, <2>2, <2>4 DEF FifoInv, HeldInv
  <2>6. Active(w) /\ push[w].payload = q /\ result[q] = "pushing"
    BY <2>2, <2>5 DEF Active, IInv, FileInv, OwnInv
  <2> QED  BY <2>1, <2>6 DEF Acked
<1> QED  BY <1>1, <1>2, <1>3 DEF TurnInv

\* Every step keeps the order, as long as no accepted payload is taken back.
LEMMA FifoStep ==
    ASSUME IInv, FifoInv, AcceptedDurable, IInv', [Next]_vars, ~PowerLoss PROVE FifoInv'
<1>1. CASE \E w \in Writers, p \in Payloads : PushReserve(w, p)
  BY <1>1, FifoReserve
<1>2. CASE \E w \in Writers : PushRename(w)
  BY <1>2, FifoRename
<1>3. CASE \E w \in Writers : PushCreate(w) \/ PushWrite(w) \/ PushSync(w) \/ PushIoFault(w)
  <2>1. PICK w \in Writers : PushCreate(w) \/ PushWrite(w) \/ PushSync(w) \/ PushIoFault(w)
    BY <1>3
  <2>2. /\ UNCHANGED <<mode, otlp, preds, pending, drain, delivered, result>> /\ Active(w) /\ push[w].pc # "publish"
        /\ \E pc \in PushPCs \ {"idle", "publish"} : Goto(w, pc)
    BY <2>1 DEF PushCreate, PushWrite, PushSync, PushIoFault, state, PushPCs, At, Active
  <2>3. /\ push'[w].pc \notin {"idle", "publish"} /\ push'[w].seq = push[w].seq /\ push'[w].payload = push[w].payload
        /\ \A v \in Writers : v # w => push'[v] = push[v]
    BY <2>2, GotoFacts DEF IInv
  <2>4. OrderInv'
    BY <2>2, <2>3, FifoQuiet DEF Acked, Active
  <2>5. HeldInv'
    BY <2>2, <2>3 DEF FifoInv, HeldInv
  <2> QED  BY <2>2, <2>4, <2>5 DEF FifoInv, TurnInv, FifoByAcceptance
<1>4. CASE \E w \in Writers : PushPublish(w) \/ PushRollback(w)
  <2>1. PICK w \in Writers : PushPublish(w) \/ PushRollback(w)
    BY <1>4
  <2>2. /\ UNCHANGED <<mode, otlp, preds, drain, delivered>> /\ Active(w)
        /\ push[w].pc \in {"publish", "rollback"}
        /\ push[w].pc = "publish" => DOMAIN pending' = DOMAIN pending \cup {push[w].seq}
        /\ push[w].pc = "rollback" => UNCHANGED pending
    BY <2>1 DEF PushPublish, PushRollback, disk, At, Active, Put
  <2>3. push'[w].pc = "idle" /\ \A v \in Writers : v # w => push'[v] = push[v]
    BY <2>1, ReturnFacts DEF PushPublish, PushRollback, IInv
  <2>4. Acked \subseteq Acked'
    <3>1. push[w].payload \in Payloads /\ result[push[w].payload] = "pushing"
      BY <2>2, ActiveFacts
    <3> QED  BY <2>1, <3>1 DEF PushPublish, PushRollback, Acked, IInv, TypeOK
  <2>5. OrderInv'
    BY <2>2, <2>3, <2>4, FifoQuiet DEF Active
  <2>6. HeldInv'
    BY <2>2, <2>3 DEF FifoInv, HeldInv
  <2> QED  BY <2>2, <2>5, <2>6 DEF FifoInv, TurnInv, FifoByAcceptance
<1>5. CASE DrainPick
  <2>1. /\ UNCHANGED <<mode, otlp, preds, pending, push, delivered, result>>
        /\ drain'.pc = "read"
    BY <1>5 DEF DrainPick, disk, state
  <2>2. OrderInv'
    BY <2>1, FifoQuiet DEF Acked, Active
  <2> QED  BY <1>5, <2>1, <2>2, FifoPick DEF FifoInv, HeldInv, FifoByAcceptance
<1>6. CASE DrainForwardOk \/ DrainForwardErr
  <2>1. /\ UNCHANGED <<mode, otlp, preds, pending, push, result>>
        /\ drain.pc = "forward" /\ drain'.pc \in {"idle", "remove"}
        /\ delivered' \in {delivered, delivered \cup {drain.body}}
    BY <1>6, IdleTypes DEF DrainForwardOk, DrainForwardErr, DrainAt, disk, state, IInv, TypeOK, DrainRec
  <2>2. /\ drain.seq \in DOMAIN otlp /\ drain.body = otlp[drain.seq]
        /\ preds[drain.body] \subseteq delivered
    BY <2>1 DEF IInv, DrainInv, FifoInv, TurnInv
  <2>3. OrderInv'
    BY <2>1, FifoQuiet DEF Acked, Active
  <2>4. HeldInv' /\ TurnInv'
    BY <2>1 DEF FifoInv, HeldInv, TurnInv
  <2>5. FifoByAcceptance'
    BY <2>1, <2>2 DEF FifoInv, FifoByAcceptance
  <2> QED  BY <2>3, <2>4, <2>5 DEF FifoInv
<1>7. CASE DrainRemove
  <2>1. /\ UNCHANGED <<mode, preds, pending, push, result, delivered>>
        /\ drain.pc = "remove" /\ drain'.pc = "forget" /\ drain'.seq = drain.seq
        /\ \A t \in DOMAIN otlp' : t \in DOMAIN otlp /\ otlp'[t] = otlp[t]
    BY <1>7 DEF DrainRemove, DrainAt, state, IInv, TypeOK, DrainRec, Drop, Restrict
  <2>2. otlp[drain.seq] \in delivered
    BY <2>1 DEF IInv, DrainInv
  <2>3. OrderInv'
    <3>1. \A p \in Payloads : preds'[p] \subseteq Acked'
      BY <2>1 DEF FifoInv, OrderInv, Acked
    <3>2. \A s, t \in DOMAIN otlp' : otlp'[t] \in preds'[otlp'[s]] => t < s
      BY <2>1 DEF FifoInv, OrderInv
    <3>3. \A w \in Writers, t \in DOMAIN otlp' :
              Active(w)' /\ otlp'[t] \in preds'[push'[w].payload] => t < push'[w].seq
      BY <2>1 DEF FifoInv, OrderInv, Active
    <3> QED  BY <3>1, <3>2, <3>3 DEF OrderInv
  <2>4. HeldInv' /\ TurnInv'
    BY <2>1, <2>2 DEF FifoInv, HeldInv, TurnInv
  <2> QED  BY <2>1, <2>3, <2>4 DEF FifoInv, FifoByAcceptance
<1>8. CASE DrainForget
  <2>1. /\ UNCHANGED <<mode, otlp, preds, push, result, delivered>>
        /\ drain.pc = "forget" /\ drain'.pc = "idle"
        /\ DOMAIN pending \ {drain.seq} \subseteq DOMAIN pending'
    BY <1>8, IdleTypes DEF DrainForget, DrainAt, disk, Drop, Restrict
  <2>2. OrderInv'
    BY <2>1, FifoQuiet DEF Acked, Active
  <2>3. HeldInv' /\ TurnInv'
    BY <2>1 DEF FifoInv, HeldInv, TurnInv
  <2> QED  BY <2>1, <2>2, <2>3 DEF FifoInv, FifoByAcceptance
<1>9. CASE Open
  <2>1. /\ UNCHANGED <<otlp, preds, push, drain, result, delivered>> /\ DOMAIN pending' = DOMAIN otlp
        /\ mode = "down"
    BY <1>9, LengthsFiles DEF Open, Recount, IInv, TypeOK
  <2>2. OrderInv'
    BY <2>1, FifoQuiet DEF Acked, Active
  <2>3. HeldInv' /\ TurnInv'
    BY <2>1 DEF FifoInv, HeldInv, TurnInv
  <2> QED  BY <2>1, <2>2, <2>3 DEF FifoInv, FifoByAcceptance
<1>10. CASE Exit \/ Crash
  <2>1. /\ UNCHANGED <<otlp, preds, delivered>> /\ mode' = "down" /\ drain'.pc = "idle"
        /\ \A w \in Writers : push'[w].pc = "idle"
    BY <1>10, IdleTypes DEF Exit, Crash, MemoryLost, disk
  <2>2. Acked' = Acked
    BY <1>10 DEF Exit, Crash, MemoryLost, Acked, IInv, TypeOK
  <2>3. OrderInv'
    BY <2>1, <2>2, FifoQuiet DEF Active
  <2>4. HeldInv' /\ TurnInv'
    BY <2>1 DEF HeldInv, TurnInv
  <2> QED  BY <2>1, <2>3, <2>4 DEF FifoInv, FifoByAcceptance
<1>11. CASE \E w \in Writers, p \in Payloads : PushFull(w, p)
  <2>1. UNCHANGED <<mode, otlp, preds, pending, push, drain, delivered>>
    BY <1>11 DEF PushFull, disk, state
  <2>2. Acked' = Acked
    BY <1>11 DEF PushFull, Acked, IInv, TypeOK
  <2>3. OrderInv'
    BY <2>1, <2>2, FifoQuiet DEF Active
  <2> QED  BY <2>1, <2>3 DEF FifoInv, HeldInv, TurnInv, FifoByAcceptance
<1>12. CASE DrainRead \/ DrainUnreadable \/ DrainIdle \/ DrainStop \/ UNCHANGED vars
  <2>1. /\ UNCHANGED <<mode, otlp, preds, pending, push, result, delivered>>
        /\ \/ UNCHANGED drain
           \/ drain'.pc \in {"idle", "stopped"}
           \/ drain.pc = "read" /\ drain'.pc = "forward" /\ drain'.seq = drain.seq
    <3>1. CASE DrainRead
      BY <3>1 DEF DrainRead, DrainAt, disk, state, IInv, TypeOK, DrainRec
    <3>2. CASE DrainUnreadable \/ DrainStop
      BY <3>2, IdleTypes DEF DrainUnreadable, DrainStop, IdleDrain, disk, state
    <3>3. CASE DrainIdle \/ UNCHANGED vars
      BY <3>3 DEF DrainIdle, vars, disk, state
    <3> QED  BY <1>12, <3>1, <3>2, <3>3
  <2>2. OrderInv'
    BY <2>1, FifoQuiet DEF Acked, Active
  <2> QED  BY <2>1, <2>2 DEF FifoInv, HeldInv, TurnInv, FifoByAcceptance
<1> QED
  BY <1>1, <1>2, <1>3, <1>4, <1>5, <1>6, <1>7, <1>8, <1>9, <1>10, <1>11, <1>12
  DEF Next, PushStep, DrainStep

\* Payloads leave in the order of their acceptance (line 59): none is sent before
\* one that had been acknowledged when its own push began, whatever pushes
\* overlap, fail or are cut off, and whatever is retried after a crash.
THEOREM DeliveredInOrder ==
    ASSUME MaxPowerLosses = 0 PROVE Spec => []FifoByAcceptance
<1>1. Init => FifoInv
  <2> SUFFICES ASSUME Init PROVE FifoInv
    OBVIOUS
  <2>1. DOMAIN otlp = {} /\ drain.pc = "idle" /\ mode = "down" /\ delivered = {}
    BY EmptyFiles, IdleTypes DEF Init
  <2>2. OrderInv
    BY <2>1 DEF Init, OrderInv
  <2> QED  BY <2>1, <2>2 DEF FifoInv, HeldInv, TurnInv, FifoByAcceptance
<1>2. IInv /\ FifoInv /\ IInv' /\ [Next]_vars => FifoInv'
  <2> SUFFICES ASSUME IInv, FifoInv, IInv', [Next]_vars PROVE FifoInv'
    OBVIOUS
  <2>1. ~PowerLoss /\ AcceptedDurable
    BY DEF PowerLoss, IInv, TypeOK, SpentRec
  <2> QED  BY <2>1, FifoStep
<1>3. FifoInv => FifoByAcceptance
  BY DEF FifoInv
<1> QED  BY <1>1, <1>2, <1>3, SpoolIInv, PTL DEF Spec

-----------------------------------------------------------------------------
(* The number of bytes behind a map from sequences to lengths *)

\* Two maps with nothing in common: the bytes add up.
LEMMA NBytesDisjoint ==
    ASSUME NEW f, IsFiles(f, Nat), NEW g, IsFiles(g, Nat), NEW h, IsFiles(h, Nat),
           DOMAIN f \cap DOMAIN g = {}, DOMAIN h = DOMAIN f \cup DOMAIN g,
           \A s \in DOMAIN f : h[s] = f[s], \A s \in DOMAIN g : h[s] = g[s]
    PROVE  NBytes(h) = NBytes(f) + NBytes(g)
<1>1. Bytes(h) = Bytes(f) \cup Bytes(g) /\ Bytes(f) \cap Bytes(g) = {}
  BY DEF Bytes
<1>2. IsFiniteSet(Bytes(f)) /\ IsFiniteSet(Bytes(g)) /\ NBytes(f) \in Nat /\ NBytes(g) \in Nat
  BY NBytesType
<1>3. Cardinality(Bytes(h)) = Cardinality(Bytes(f)) + Cardinality(Bytes(g)) - Cardinality({})
  BY <1>1, <1>2, FS_Union
<1> QED  BY <1>2, <1>3, FS_EmptySet DEF NBytes

\* A map that is nowhere longer has no more bytes.
LEMMA NBytesMono ==
    ASSUME NEW f, IsFiles(f, Nat), NEW g, IsFiles(g, Nat), DOMAIN f \subseteq DOMAIN g,
           \A s \in DOMAIN f : f[s] <= g[s]
    PROVE  NBytes(f) <= NBytes(g)
<1>1. Bytes(f) \subseteq Bytes(g)
  BY DEF Bytes, IsFiles
<1>2. IsFiniteSet(Bytes(g))
  BY NBytesType
<1> QED  BY <1>1, <1>2, FS_Subset DEF NBytes

\* One sequence alone.
LEMMA NBytesSingle ==
    ASSUME NEW k \in Nat, NEW n \in Nat
    PROVE  LET one == [x \in {k} |-> n] IN IsFiles(one, Nat) /\ NBytes(one) = n
<1> DEFINE one == [x \in {k} |-> n]
<1>1. IsFiles(one, Nat)
  BY FS_Singleton DEF IsFiles
<1>2. Bytes(one) = {k} \X (1 .. n)
  BY DEF Bytes
<1>3. IsFiniteSet({k}) /\ Cardinality({k}) = 1
  BY FS_Singleton
<1>4. IsFiniteSet(1 .. n) /\ Cardinality(1 .. n) = n
  <2>1. 1 \in Int /\ n \in Int
    OBVIOUS
  <2>2. IsFiniteSet(1 .. n) /\ Cardinality(1 .. n) = IF 1 > n THEN 0 ELSE n - 1 + 1
    BY ONLY <2>1, FS_Interval
  <2> QED  BY <2>2
<1>5. Cardinality({k} \X (1 .. n)) = Cardinality({k}) * Cardinality(1 .. n)
  BY <1>3, <1>4, FS_Product
<1>6. Cardinality({k} \X (1 .. n)) = n
  BY <1>3, <1>4, <1>5
<1> QED  BY <1>1, <1>2, <1>6 DEF NBytes

\* A sequence is added.
LEMMA NBytesAdd ==
    ASSUME NEW f, IsFiles(f, Nat), NEW k \in Nat, k \notin DOMAIN f, NEW n \in Nat,
           NEW h, IsFiles(h, Nat), DOMAIN h = DOMAIN f \cup {k}, h[k] = n,
           \A s \in DOMAIN f : h[s] = f[s]
    PROVE  NBytes(h) = NBytes(f) + n
<1> DEFINE one == [x \in {k} |-> n]
<1>1. IsFiles(one, Nat) /\ NBytes(one) = n
  BY NBytesSingle
<1>2. DOMAIN one = {k} /\ one[k] = n
  OBVIOUS
<1> HIDE DEF one
<1> QED  BY <1>1, <1>2, NBytesDisjoint

\* No sequence, no bytes.
LEMMA NBytesEmpty ==
    ASSUME NEW f, DOMAIN f = {} PROVE NBytes(f) = 0
<1>1. Bytes(f) = {}
  BY DEF Bytes
<1> QED  BY <1>1, FS_EmptySet DEF NBytes

\* Some of the sequences, and the others.
LEMMA NBytesSplit ==
    ASSUME NEW f, IsFiles(f, Nat), NEW K
    PROVE  LET in == Restrict(f, DOMAIN f \cap K)
               out == Restrict(f, DOMAIN f \ K)
           IN  /\ IsFiles(in, Nat) /\ IsFiles(out, Nat)
               /\ NBytes(in) \in Nat /\ NBytes(out) \in Nat /\ NBytes(f) = NBytes(in) + NBytes(out)
<1> DEFINE in == Restrict(f, DOMAIN f \cap K)
           out == Restrict(f, DOMAIN f \ K)
<1>1. /\ IsFiles(in, Nat) /\ DOMAIN in = DOMAIN f \cap K /\ \A x \in DOMAIN in : in[x] = f[x]
      /\ IsFiles(out, Nat) /\ DOMAIN out = DOMAIN f \ K /\ \A x \in DOMAIN out : out[x] = f[x]
  BY RestrictFiles
<1> HIDE DEF in, out
<1>2. NBytes(f) = NBytes(in) + NBytes(out)
  BY <1>1, NBytesDisjoint
<1> QED  BY <1>1, <1>2, NBytesType DEF in, out

-----------------------------------------------------------------------------
(* total_bytes *)

\* Charged lists every published length and every open reservation once.
ChargedExact ==
    /\ Charged \in [DOMAIN Charged -> Nat] /\ DOMAIN Charged \subseteq Nat
    /\ DOMAIN Charged = DOMAIN pending \cup {push[w].seq : w \in Reserving}
    /\ \A s \in DOMAIN pending : Charged[s] = pending[s]
    /\ \A w \in Writers : Active(w) =>
          push[w].seq \notin DOMAIN pending /\ Charged[push[w].seq] = Size[push[w].payload]

\* It does, because two reservations never share a sequence.
LEMMA ChargedIs == IInv => ChargedExact
<1> SUFFICES ASSUME IInv PROVE ChargedExact
  OBVIOUS
<1> DEFINE Owner(s) == CHOOSE w \in Reserving : push[w].seq = s
<1>1. DOMAIN Charged = DOMAIN pending \cup {push[w].seq : w \in Reserving}
  BY DEF Charged
<1>2. \A s \in DOMAIN pending : Charged[s] = pending[s] /\ s \in Nat /\ pending[s] \in Nat
  BY DEF Charged, IInv, TypeOK, IsFiles
<1>3. ASSUME NEW w \in Reserving
      PROVE  /\ push[w].seq \in Nat /\ push[w].seq \notin DOMAIN pending
             /\ Charged[push[w].seq] = Size[push[w].payload] /\ Size[push[w].payload] \in Nat
  <2>1. /\ w \in Writers /\ Active(w)
        /\ \A v \in Reserving : v \in Writers /\ Active(v)
    BY DEF Reserving, Active
  <2>2. push[w].seq \in Nat /\ push[w].seq \notin DOMAIN pending /\ Size[push[w].payload] \in Nat
    BY <2>1, ActiveFacts
  <2>3. Owner(push[w].seq) \in Reserving /\ push[Owner(push[w].seq)].seq = push[w].seq
    OBVIOUS
  <2>4. Owner(push[w].seq) = w
    BY <2>1, <2>3 DEF IInv, OwnInv
  <2>5. Charged[push[w].seq] = Size[push[Owner(push[w].seq)].payload]
    BY <2>2 DEF Charged
  <2> QED  BY <2>2, <2>4, <2>5
<1>4. \A s \in DOMAIN Charged : s \in Nat /\ Charged[s] \in Nat
  BY <1>1, <1>2, <1>3
<1>5. Charged = [s \in DOMAIN Charged |-> Charged[s]]
  BY DEF Charged
<1>6. Charged \in [DOMAIN Charged -> Nat] /\ DOMAIN Charged \subseteq Nat
  <2> HIDE DEF Charged
  <2> QED  BY <1>4, <1>5
<1>7. \A w \in Writers : Active(w) => w \in Reserving
  BY DEF Active, Reserving
<1> QED  BY <1>1, <1>2, <1>3, <1>6, <1>7 DEF ChargedExact

\* total_bytes counts exactly what is charged, and the drain releases what it
\* picked.
AccountInv ==
    /\ mode = "up" => IsFiniteSet(DOMAIN Charged) /\ total_bytes = NBytes(Charged)
    /\ drain.pc \in {"read", "forward", "remove", "forget"} => drain.len = pending[drain.seq]

\* What is charged, as a map.
LEMMA ChargedFiles ==
    ASSUME ChargedExact, IsFiniteSet(DOMAIN Charged) PROVE IsFiles(Charged, Nat)
BY DEF ChargedExact, IsFiles

\* Two maps with the same entries.
LEMMA NBytesSame ==
    ASSUME NEW f, IsFiles(f, Nat), NEW g, g \in [DOMAIN g -> Nat], DOMAIN f = DOMAIN g,
           \A s \in DOMAIN f : g[s] = f[s]
    PROVE  NBytes(g) = NBytes(f)
<1>1. g = f
  BY DEF IsFiles
<1> QED  BY <1>1

\* The step of a writer, of the drain or of nobody: every byte that is charged
\* or released is one that is counted or no longer counted.
LEMMA AccountStep ==
    ASSUME IInv, AccountInv, IInv', [Next]_vars PROVE AccountInv'
<1>1. ChargedExact /\ ChargedExact'
  <2>1. (IInv => ChargedExact)'
    BY ChargedIs, PTL
  <2> QED  BY <2>1, ChargedIs
<1>2. CASE MemoryLost
  BY <1>2, IdleTypes DEF MemoryLost, AccountInv
<1>3. CASE Open
  <2>1. mode = "down" /\ \A w \in Writers : push'[w].pc = "idle"
    BY <1>3, IdleTypes DEF Open, IInv, DownInv
  <2>2. drain'.pc = "idle"
    BY <1>3, IdleTypes DEF Open, IInv, DownInv
  <2>3. IsFiles(pending', Nat) /\ total_bytes' = NBytes(pending')
    BY <1>3, LengthsFiles DEF Open, Recount, IInv, TypeOK
  <2>4. DOMAIN Charged' = DOMAIN pending' /\ \A s \in DOMAIN pending' : Charged'[s] = pending'[s]
    <3>1. Reserving' = {}
      BY <2>1 DEF Reserving
    <3>2. {push'[w].seq : w \in Reserving'} = {}
      BY <3>1
    <3> QED  BY ONLY <1>1, <3>2 DEF ChargedExact
  <2>5. NBytes(Charged') = NBytes(pending')
    BY <1>1, <2>3, <2>4, NBytesSame DEF ChargedExact
  <2>6. IsFiniteSet(DOMAIN Charged')
    BY <2>3, <2>4 DEF IsFiles
  <2> QED  BY <2>2, <2>3, <2>5, <2>6 DEF AccountInv, NBytes
<1> DEFINE Same ==
       /\ DOMAIN pending' \cup {push'[w].seq : w \in Reserving'}
            = DOMAIN pending \cup {push[w].seq : w \in Reserving}
       /\ \A s \in DOMAIN Charged : Charged'[s] = Charged[s]
<1>4. ASSUME mode = "up", Same, UNCHANGED total_bytes
      PROVE  mode' = "up" => IsFiniteSet(DOMAIN Charged') /\ total_bytes' = NBytes(Charged')
  <2>1. IsFiles(Charged, Nat) /\ DOMAIN Charged' = DOMAIN Charged
    BY <1>1, <1>4, ChargedFiles DEF AccountInv, ChargedExact
  <2>2. NBytes(Charged') = NBytes(Charged)
    BY <1>1, <1>4, <2>1, NBytesSame DEF ChargedExact
  <2> QED  BY <1>4, <2>1, <2>2 DEF AccountInv, IsFiles
<1>5. CASE \E w \in Writers, p \in Payloads : PushReserve(w, p)
  <2>1. PICK w \in Writers, p \in Payloads : PushReserve(w, p)
    BY <1>5
  <2>2. /\ mode = "up" /\ next_seq \in Nat /\ Size[p] \in Nat /\ push[w].pc = "idle"
        /\ push'[w].pc # "idle" /\ push'[w].seq = next_seq /\ push'[w].payload = p
        /\ \A v \in Writers : v # w => push'[v] = push[v]
    <3>1. next_seq \in Nat /\ Size[p] \in Nat /\ DOMAIN push = Writers
      BY SpoolAssumption DEF IInv, TypeOK
    <3> QED  BY <2>1, <3>1 DEF PushReserve, At
  <2>3. /\ Reserving' = Reserving \cup {w} /\ w \notin Reserving
        /\ \A v \in Reserving : v \in Writers /\ Active(v) /\ Active(v)' /\ push'[v] = push[v]
    BY <2>2 DEF Reserving, Active
  <2>4. next_seq \notin DOMAIN Charged /\ DOMAIN Charged' = DOMAIN Charged \cup {next_seq}
    <3>1. next_seq \notin DOMAIN pending /\ \A v \in Reserving : push[v].seq # next_seq
      BY <2>2, <2>3, ActiveFacts DEF IInv, SeqInv, TypeOK, IsFiles
    <3> QED  BY <1>1, <2>1, <2>2, <2>3, <3>1 DEF ChargedExact, PushReserve
  <2>5. Charged'[next_seq] = Size[p] /\ \A s \in DOMAIN Charged : Charged'[s] = Charged[s]
    <3>1. Active(w)'
      BY <2>2 DEF Active
    <3> QED  BY <1>1, <2>1, <2>2, <2>3, <3>1 DEF ChargedExact, PushReserve
  <2>6. IsFiles(Charged, Nat) /\ IsFiles(Charged', Nat) /\ total_bytes = NBytes(Charged)
    <3>1. IsFiles(Charged, Nat) /\ total_bytes = NBytes(Charged)
      BY <1>1, <2>2, ChargedFiles DEF AccountInv
    <3>2. IsFiniteSet(DOMAIN Charged \cup {next_seq})
      BY <3>1, FS_AddElement DEF IsFiles
    <3> QED  BY <1>1, <2>4, <3>1, <3>2 DEF IsFiles, ChargedExact
  <2>7. NBytes(Charged') = NBytes(Charged) + Size[p]
    BY ONLY <2>2, <2>4, <2>5, <2>6, NBytesAdd
  <2>8. total_bytes' = total_bytes + Size[p] /\ UNCHANGED <<drain, pending>>
    BY <2>1 DEF PushReserve
  <2> QED  BY <2>6, <2>7, <2>8 DEF AccountInv, IsFiles
<1>6. CASE \E w \in Writers : PushPublish(w)
  <2>1. PICK w \in Writers : PushPublish(w)
    BY <1>6
  <2>2. mode = "up" /\ Active(w) /\ push[w].seq \in Nat /\ Size[push[w].payload] \in Nat
    BY <2>1, ActiveFacts DEF PushPublish, At, Active
  <2>3. push'[w].pc = "idle" /\ \A v \in Writers : v # w => push'[v] = push[v]
    BY <2>1, ReturnFacts DEF PushPublish, IInv
  <2>4. /\ Reserving = Reserving' \cup {w}
        /\ \A v \in Reserving' : v \in Writers /\ Active(v) /\ Active(v)' /\ push'[v] = push[v]
    BY <2>2, <2>3 DEF Reserving, Active
  <2>5. /\ DOMAIN pending' = DOMAIN pending \cup {push[w].seq}
        /\ pending'[push[w].seq] = Size[push[w].payload]
        /\ \A s \in DOMAIN pending : pending'[s] = pending[s]
    BY <1>1, <2>1, <2>2 DEF PushPublish, Put, ChargedExact
  <2>6. Same
    BY <1>1, <2>2, <2>4, <2>5 DEF ChargedExact
  <2>7. UNCHANGED <<drain, total_bytes>>
    BY <2>1 DEF PushPublish
  <2>8. drain.pc \in {"read", "forward", "remove", "forget"} => drain.seq \in DOMAIN pending
    BY DEF IInv, DrainInv
  <2> QED  BY <1>4, <2>2, <2>5, <2>6, <2>7, <2>8 DEF AccountInv
<1>7. CASE \E w \in Writers : PushRollback(w)
  <2>1. PICK w \in Writers : PushRollback(w)
    BY <1>7
  <2>2. mode = "up" /\ Active(w) /\ push[w].seq \in Nat /\ Size[push[w].payload] \in Nat
    BY <2>1, ActiveFacts DEF PushRollback, At, Active
  <2>3. push'[w].pc = "idle" /\ \A v \in Writers : v # w => push'[v] = push[v]
    BY <2>1, ReturnFacts DEF PushRollback, IInv
  <2>4. /\ Reserving = Reserving' \cup {w} /\ w \notin Reserving'
        /\ \A v \in Reserving' : v \in Writers /\ v # w /\ Active(v) /\ Active(v)' /\ push'[v] = push[v]
    BY <2>2, <2>3 DEF Reserving, Active
  <2>5. \A v \in Reserving' : push[v].seq # push[w].seq
    BY <2>2, <2>4 DEF IInv, OwnInv
  <2>6. UNCHANGED <<drain, pending>> /\ total_bytes' = SatSub(total_bytes, Size[push[w].payload])
    BY <2>1 DEF PushRollback
  <2>7. /\ push[w].seq \notin DOMAIN Charged' /\ DOMAIN Charged = DOMAIN Charged' \cup {push[w].seq}
        /\ Charged[push[w].seq] = Size[push[w].payload]
        /\ \A s \in DOMAIN Charged' : Charged[s] = Charged'[s]
    BY <1>1, <2>2, <2>4, <2>5, <2>6 DEF ChargedExact
  <2>8. IsFiles(Charged, Nat) /\ IsFiles(Charged', Nat) /\ total_bytes = NBytes(Charged)
    <3>1. IsFiles(Charged, Nat) /\ total_bytes = NBytes(Charged)
      BY <1>1, <2>2, ChargedFiles DEF AccountInv
    <3>2. IsFiniteSet(DOMAIN Charged')
      BY <2>7, <3>1, FS_Subset DEF IsFiles
    <3> QED  BY <1>1, <3>1, <3>2 DEF IsFiles, ChargedExact
  <2>9. NBytes(Charged) = NBytes(Charged') + Size[push[w].payload]
    BY ONLY <2>2, <2>7, <2>8, NBytesAdd
  <2>10. NBytes(Charged') \in Nat
    BY <2>8, NBytesType
  <2> QED  BY <2>2, <2>6, <2>8, <2>9, <2>10 DEF AccountInv, IsFiles, SatSub
<1>8. CASE DrainForget
  <2>1. /\ mode = "up" /\ drain.seq \in DOMAIN pending /\ drain.len = pending[drain.seq]
        /\ drain.seq \in Nat /\ pending[drain.seq] \in Nat
    BY <1>8 DEF DrainForget, DrainAt, IInv, DrainInv, AccountInv, TypeOK, IsFiles
  <2>2. /\ DOMAIN pending' = DOMAIN pending \ {drain.seq}
        /\ \A s \in DOMAIN pending' : pending'[s] = pending[s]
        /\ total_bytes' = SatSub(total_bytes, pending[drain.seq])
        /\ push' = push /\ drain'.pc = "idle"
    BY <1>8, <2>1, IdleTypes DEF DrainForget, Drop, Restrict
  <2>3. /\ Reserving' = Reserving
        /\ \A v \in Reserving : v \in Writers /\ Active(v) /\ Active(v)'
    BY <2>2 DEF Reserving, Active
  <2>4. /\ drain.seq \notin DOMAIN Charged' /\ DOMAIN Charged = DOMAIN Charged' \cup {drain.seq}
        /\ Charged[drain.seq] = pending[drain.seq]
        /\ \A s \in DOMAIN Charged' : Charged[s] = Charged'[s]
    BY <1>1, <2>1, <2>2, <2>3 DEF ChargedExact
  <2>5. IsFiles(Charged, Nat) /\ IsFiles(Charged', Nat) /\ total_bytes = NBytes(Charged)
    <3>1. IsFiles(Charged, Nat) /\ total_bytes = NBytes(Charged)
      BY <1>1, <2>1, ChargedFiles DEF AccountInv
    <3>2. IsFiniteSet(DOMAIN Charged')
      BY <2>4, <3>1, FS_Subset DEF IsFiles
    <3> QED  BY <1>1, <3>1, <3>2 DEF IsFiles, ChargedExact
  <2>6. NBytes(Charged) = NBytes(Charged') + pending[drain.seq]
    BY ONLY <2>1, <2>4, <2>5, NBytesAdd
  <2>7. NBytes(Charged') \in Nat
    BY <2>5, NBytesType
  <2> QED  BY <2>1, <2>2, <2>5, <2>6, <2>7 DEF AccountInv, IsFiles, SatSub
<1>9. CASE \E w \in Writers : PushCreate(w) \/ PushWrite(w) \/ PushSync(w) \/ PushRename(w) \/ PushIoFault(w)
  <2>1. PICK w \in Writers : PushCreate(w) \/ PushWrite(w) \/ PushSync(w) \/ PushRename(w) \/ PushIoFault(w)
    BY <1>9
  <2>2. mode = "up" /\ Active(w) /\ UNCHANGED <<drain, pending, total_bytes>>
    BY <2>1 DEF PushCreate, PushWrite, PushSync, PushRename, PushIoFault, At, Active, state
  <2>3. PICK pc \in PushPCs \ {"idle"} : Goto(w, pc)
    BY <2>1 DEF PushCreate, PushWrite, PushSync, PushRename, PushIoFault, PushPCs
  <2>4. /\ push'[w].pc = pc /\ push'[w].seq = push[w].seq /\ push'[w].payload = push[w].payload
        /\ \A v \in Writers : v # w => push'[v] = push[v]
    BY <2>3, GotoFacts DEF IInv
  <2>5. /\ Reserving' = Reserving
        /\ \A v \in Reserving : /\ v \in Writers /\ Active(v) /\ Active(v)'
                                /\ push'[v].seq = push[v].seq /\ push'[v].payload = push[v].payload
    BY <2>2, <2>4 DEF Reserving, Active
  <2>6. Same
    BY <1>1, <2>2, <2>5 DEF ChargedExact
  <2> QED  BY <1>4, <2>2, <2>6 DEF AccountInv
<1>10. CASE UNCHANGED <<mode, push, pending, total_bytes>> /\ ~DrainForget
  <2>1. mode = "up" => Same
    BY <1>10 DEF Reserving, Charged
  <2>2. \/ UNCHANGED <<drain.seq, drain.len>> /\ drain.pc \in {"read", "forward", "remove"}
        \/ UNCHANGED drain
        \/ drain'.pc \in {"idle", "stopped"}
        \/ drain'.len = pending[drain'.seq]
    <3>1. CASE DrainRead \/ DrainForwardOk \/ DrainRemove
      BY <3>1 DEF DrainRead, DrainForwardOk, DrainRemove, DrainAt, IInv, TypeOK, DrainRec
    <3>2. CASE DrainPick
      BY <3>2 DEF DrainPick
    <3>3. CASE DrainUnreadable \/ DrainForwardErr \/ DrainStop \/ MemoryLost
      BY <3>3, IdleTypes DEF DrainUnreadable, DrainForwardErr, DrainStop, MemoryLost, IdleDrain
    <3>4. CASE UNCHANGED drain
      BY <3>4
    <3> QED
      BY <1>10, <3>1, <3>2, <3>3, <3>4
      DEF Next, PushFull, PushReserve, PushStep, PushCreate, PushWrite, PushSync, PushRename, PushPublish,
          PushRollback, PushIoFault, DrainStep, DrainIdle, Exit, Crash, PowerLoss, Open, vars
  <2>3. drain'.pc \in {"read", "forward", "remove", "forget"} => drain'.len = pending'[drain'.seq]
    BY <1>10, <2>2 DEF AccountInv
  <2>4. CASE mode = "up"
    BY <1>4, <1>10, <2>1, <2>3, <2>4 DEF AccountInv
  <2>5. CASE mode # "up"
    BY <1>10, <2>3, <2>5 DEF AccountInv
  <2> QED  BY <2>4, <2>5
<1> QED
  BY <1>2, <1>3, <1>5, <1>6, <1>7, <1>8, <1>9, <1>10
  DEF Next, PushFull, PushStep, DrainStep, DrainPick, DrainIdle, DrainRead, DrainUnreadable,
      DrainForwardOk, DrainForwardErr, DrainRemove, DrainForget, DrainStop, Exit, Crash, PowerLoss,
      vars, state

\* Nothing is charged before the first start.
LEMMA InitAccount == Init => AccountInv
BY IdleTypes DEF Init, AccountInv

\* IInv and AccountInv together are inductive.
LEMMA AlwaysAccount == Spec => [](IInv /\ AccountInv)
<1>1. Init => IInv /\ AccountInv
  BY InitIInv, InitAccount
<1>2. IInv /\ AccountInv /\ [Next]_vars => (IInv /\ AccountInv)'
  BY NextIInv, AccountStep
<1> QED  BY <1>1, <1>2, PTL DEF Spec

\* total_bytes is the sum of the published lengths and the open reservations in
\* every state of every run: no path through push, drain_once or open leaks a
\* byte of the cap or gives one back twice.
THEOREM BytesExactlyAccounted == Spec => []Accounting
<1>1. AccountInv => Accounting
  BY DEF AccountInv, Accounting
<1> QED  BY <1>1, AlwaysAccount, PTL

-----------------------------------------------------------------------------
(* The directory *)

Writing(w) == push[w].pc \in {"write", "sync", "rename"}

\* The tmp files of the pushes under way.
InHand == {push[w].seq : w \in {v \in Writers : Writing(v)}}

\* The published files that are charged for.
Kept ==
    (DOMAIN pending \ (IF drain.pc = "forget" THEN {drain.seq} ELSE {}))
        \cup {push[w].seq : w \in {v \in Writers : push[v].pc = "publish"}}

\* What a failing file operation has left behind, published or not.
Stray    == Restrict(Lengths(otlp), DOMAIN otlp \ Kept)
StrayTmp == Restrict(tmp, DOMAIN tmp \ InHand)

\* No file is longer than what was reserved for it.
SizeInv ==
    /\ \A s \in DOMAIN otlp : ByteLen(otlp[s]) <= MaxBytes
    /\ \A s \in DOMAIN pending \cap DOMAIN otlp : pending[s] = ByteLen(otlp[s])
    /\ \A w \in Writers : Active(w) => Size[push[w].payload] <= MaxBytes
    /\ \A w \in Writers : Writing(w) =>
          push[w].seq \in DOMAIN tmp /\ tmp[push[w].seq] <= Size[push[w].payload]

\* A fault leaves at most one cap's worth behind, and what is left behind leaves
\* room for one cap's worth that is charged.
RoomInv ==
    /\ mode = "up" =>
          LET stray == NBytes(Stray) + NBytes(StrayTmp)
          IN  /\ stray <= spent.faults * MaxBytes
              /\ total_bytes + stray <= spent.faults * MaxBytes + MaxBytes
    /\ mode = "down" =>
          NBytes(Lengths(otlp)) + NBytes(tmp) <= spent.faults * MaxBytes + MaxBytes

\* Only the rename publishes, only the writer of a tmp file writes it, and both
\* hold what was reserved.
LEMMA SizeStep ==
    ASSUME IInv, SizeInv, IInv', [Next]_vars PROVE SizeInv'
<1> DEFINE Lens(w) == Active(w) => Size[push[w].payload] <= MaxBytes
           Mine(w) == Writing(w) => push[w].seq \in DOMAIN tmp /\ tmp[push[w].seq] <= Size[push[w].payload]
           Pub     == /\ \A s \in DOMAIN otlp : ByteLen(otlp[s]) <= MaxBytes
                      /\ \A s \in DOMAIN pending \cap DOMAIN otlp : pending[s] = ByteLen(otlp[s])
<1>1. Pub /\ \A w \in Writers : Lens(w) /\ Mine(w)
  BY DEF SizeInv
<1>2. SUFFICES Pub' /\ \A w \in Writers : Lens(w)' /\ Mine(w)'
  BY DEF SizeInv
<1>3. CASE MemoryLost /\ (Exit \/ Crash \/ PowerLoss)
  <2>1. pending' = Empty /\ \A w \in Writers : push'[w] = IdlePush
    BY <1>3 DEF MemoryLost
  <2>2. \A s \in DOMAIN otlp' : s \in DOMAIN otlp /\ otlp'[s] = otlp[s]
    BY <1>3 DEF Exit, Crash, PowerLoss, disk, IInv, SyncInv
  <2> QED  BY <1>1, <2>1, <2>2, IdleTypes, EmptyFiles DEF Active, Writing, ByteLen
<1>4. CASE Open
  <2>1. otlp' = otlp /\ pending' = Lengths(otlp) /\ \A w \in Writers : push'[w].pc = "idle"
    BY <1>4, IdleTypes DEF Open, Recount, IInv, DownInv
  <2> QED  BY <1>1, <2>1 DEF Active, Writing, Lengths, ByteLen
<1>5. CASE \E w \in Writers, p \in Payloads : PushReserve(w, p)
  <2>1. PICK w \in Writers, p \in Payloads : PushReserve(w, p)
    BY <1>5
  <2>2. /\ Size[p] <= MaxBytes
        /\ push'[w].pc = "create" /\ push'[w].payload = p
        /\ \A v \in Writers : v # w => push'[v] = push[v]
        /\ UNCHANGED <<otlp, tmp, pending>>
    <3>1. total_bytes \in Nat /\ Size[p] \in Nat /\ MaxBytes \in Nat /\ total_bytes + Size[p] <= MaxBytes
      BY <2>1, SpoolAssumption DEF PushReserve, Fits, IInv, TypeOK
    <3>2. Size[p] <= MaxBytes
      BY ONLY <3>1
    <3> QED  BY <2>1, <3>2 DEF PushReserve, IInv, TypeOK, disk
  <2> QED  BY <1>1, <2>2 DEF Active, Writing, ByteLen
<1>6. CASE \E w \in Writers : PushPublish(w)
  <2>1. PICK w \in Writers : PushPublish(w)
    BY <1>6
  <2>2. /\ Active(w) /\ otlp[push[w].seq] = push[w].payload /\ push[w].payload \in Payloads
    BY <2>1 DEF PushPublish, At, Active, IInv, FileInv, OwnInv
  <2>3. /\ push'[w].pc = "idle" /\ \A v \in Writers : v # w => push'[v] = push[v]
        /\ UNCHANGED <<otlp, tmp>> /\ pending' = Put(pending, push[w].seq, Size[push[w].payload])
    BY <2>1, ReturnFacts DEF PushPublish, IInv, disk
  <2>4. ByteLen(push[w].payload) = Size[push[w].payload]
    BY <2>2, SpoolAssumption DEF ByteLen
  <2>5. Pub'
    BY <1>1, <2>2, <2>3, <2>4 DEF Put, ByteLen
  <2> QED  BY <1>1, <2>3, <2>5 DEF Active, Writing
<1>7. CASE \E w \in Writers : PushRollback(w)
  <2>1. PICK w \in Writers : PushRollback(w)
    BY <1>7
  <2>2. /\ push'[w].pc = "idle" /\ \A v \in Writers : v # w => push'[v] = push[v]
        /\ UNCHANGED <<otlp, tmp, pending>>
    BY <2>1, ReturnFacts DEF PushRollback, IInv, disk
  <2> QED  BY <1>1, <2>2 DEF Active, Writing, ByteLen
<1>8. CASE \E w \in Writers : PushCreate(w) \/ PushWrite(w) \/ PushSync(w) \/ PushRename(w) \/ PushIoFault(w)
  <2>1. PICK w \in Writers : PushCreate(w) \/ PushWrite(w) \/ PushSync(w) \/ PushRename(w) \/ PushIoFault(w)
    BY <1>8
  <2>2. /\ Active(w) /\ UNCHANGED pending /\ push[w].payload \in Payloads
        /\ push[w].seq \in Nat /\ Size[push[w].payload] \in Nat /\ push[w].seq \notin DOMAIN pending
    BY <2>1, ActiveFacts DEF PushCreate, PushWrite, PushSync, PushRename, PushIoFault, At, Active, state
  <2>3. PICK pc \in PushPCs \ {"idle"} :
           /\ Goto(w, pc)
           /\ pc = "write" => PushCreate(w)
           /\ pc = "sync" => PushWrite(w)
           /\ pc = "rename" => PushSync(w)
    BY <2>1 DEF PushCreate, PushWrite, PushSync, PushRename, PushIoFault, PushPCs
  <2>4. /\ push'[w].pc = pc /\ push'[w].seq = push[w].seq /\ push'[w].payload = push[w].payload
        /\ \A v \in Writers : v # w => push'[v] = push[v]
    BY <2>3, GotoFacts DEF IInv
  <2>5. \A v \in Writers : Lens(v)'
    BY <1>1, <2>2, <2>4 DEF Active
  <2>6. Pub'
    <3>1. CASE PushRename(w)
      <4>1. otlp' = Put(otlp, push[w].seq, push[w].payload)
        BY <3>1 DEF PushRename
      <4>2. ByteLen(push[w].payload) = Size[push[w].payload]
        BY <2>2, SpoolAssumption DEF ByteLen
      <4> QED  BY <1>1, <2>2, <4>1, <4>2 DEF Put, ByteLen
    <3>2. CASE UNCHANGED otlp
      BY <1>1, <2>2, <3>2 DEF ByteLen
    <3> QED  BY <2>1, <3>1, <3>2 DEF PushCreate, PushWrite, PushSync, PushIoFault
  <2>7. \A x \in DOMAIN tmp : x # push[w].seq => x \in DOMAIN tmp' /\ tmp'[x] = tmp[x]
    BY <2>1 DEF PushCreate, PushWrite, PushSync, PushRename, PushIoFault, Put, Drop, Restrict
  <2>8. Mine(w)'
    <3>1. CASE pc = "write"
      BY <2>2, <2>3, <2>4, <3>1 DEF PushCreate, Put
    <3>2. CASE pc = "sync"
      BY <2>2, <2>3, <2>4, <3>2 DEF PushWrite, Put
    <3>3. CASE pc = "rename"
      BY <1>1, <2>3, <2>4, <3>3 DEF PushSync, At, Writing
    <3> QED  BY <2>4, <3>1, <3>2, <3>3 DEF Writing
  <2>9. ASSUME NEW v \in Writers, v # w, Writing(v)' PROVE Mine(v)'
    <3>1. Writing(v) /\ Active(v) /\ push'[v] = push[v]
      BY <2>4, <2>9 DEF Writing, Active
    <3>2. push[v].seq # push[w].seq
      BY <2>2, <2>9, <3>1 DEF IInv, OwnInv
    <3> QED  BY <1>1, <2>7, <3>1, <3>2
  <2> QED  BY <2>5, <2>6, <2>8, <2>9
<1>9. CASE DrainRemove \/ DrainForget
  <2>1. /\ UNCHANGED <<push, tmp>>
        /\ \A s \in DOMAIN otlp' : s \in DOMAIN otlp /\ otlp'[s] = otlp[s]
        /\ \A s \in DOMAIN pending' : s \in DOMAIN pending /\ pending'[s] = pending[s]
    BY <1>9 DEF DrainRemove, DrainForget, Drop, Restrict, disk, state
  <2> QED  BY <1>1, <2>1 DEF Active, Writing, ByteLen
<1>10. CASE UNCHANGED <<push, tmp, otlp, pending>>
  BY <1>1, <1>10 DEF Active, Writing, ByteLen
<1> QED
  BY <1>3, <1>4, <1>5, <1>6, <1>7, <1>8, <1>9, <1>10
  DEF Next, PushFull, PushStep, DrainStep, DrainPick, DrainIdle, DrainRead, DrainUnreadable,
      DrainForwardOk, DrainForwardErr, DrainStop, Exit, Crash, PowerLoss, vars, state, disk

\* What the stray maps hold.
StrayExact ==
    /\ IsFiles(Stray, Nat) /\ IsFiles(StrayTmp, Nat) /\ IsFiles(Lengths(otlp), Nat)
    /\ DOMAIN Stray = DOMAIN otlp \ Kept
    /\ \A s \in DOMAIN Stray : Stray[s] = ByteLen(otlp[s])
    /\ DOMAIN StrayTmp = DOMAIN tmp \ InHand
    /\ \A s \in DOMAIN StrayTmp : StrayTmp[s] = tmp[s]
    /\ NBytes(Stray) \in Nat /\ NBytes(StrayTmp) \in Nat
    /\ NBytes(Lengths(otlp)) \in Nat /\ NBytes(tmp) \in Nat

\* They are parts of the directory.
LEMMA StrayIs == IInv => StrayExact
<1> SUFFICES ASSUME IInv PROVE StrayExact
  OBVIOUS
<1>1. IsFiles(tmp, Nat) /\ IsFiles(otlp, Content)
  BY DEF IInv, TypeOK
<1>2. IsFiles(Lengths(otlp), Nat) /\ DOMAIN Lengths(otlp) = DOMAIN otlp
  BY <1>1, LengthsFiles
<1>3. \A s \in DOMAIN otlp : Lengths(otlp)[s] = ByteLen(otlp[s])
  BY DEF Lengths
<1>4. /\ IsFiles(Stray, Nat) /\ DOMAIN Stray = DOMAIN otlp \ Kept
      /\ \A s \in DOMAIN Stray : Stray[s] = Lengths(otlp)[s]
  BY <1>2, RestrictFiles DEF Stray
<1>5. /\ IsFiles(StrayTmp, Nat) /\ DOMAIN StrayTmp = DOMAIN tmp \ InHand
      /\ \A s \in DOMAIN StrayTmp : StrayTmp[s] = tmp[s]
  BY <1>1, RestrictFiles DEF StrayTmp
<1> QED  BY <1>1, <1>2, <1>3, <1>4, <1>5, NBytesType DEF StrayExact

\* One more fault pays for one more cap's worth.
LEMMA OneMoreFault ==
    ASSUME NEW f \in Nat
    PROVE  /\ f * MaxBytes \in Nat
           /\ (f + 1) * MaxBytes = f * MaxBytes + MaxBytes
           /\ (1 + f) * MaxBytes = f * MaxBytes + MaxBytes
BY SpoolAssumption

\* The bytes of the directory are those charged and those left behind.
LEMMA RoomBounds ==
    ASSUME IInv, AccountInv, SizeInv, RoomInv
    PROVE  NBytes(Lengths(otlp)) + NBytes(tmp) <= spent.faults * MaxBytes + MaxBytes
<1>1. StrayExact /\ ChargedExact
  BY StrayIs, ChargedIs
<1>2. CASE mode = "down"
  BY <1>2 DEF RoomInv
<1>3. CASE mode = "up"
  <2> DEFINE kept == Restrict(Lengths(otlp), DOMAIN otlp \cap Kept)
             hand == Restrict(tmp, DOMAIN tmp \cap InHand)
             both == [s \in (DOMAIN otlp \cap Kept) \cup (DOMAIN tmp \cap InHand) |->
                         IF s \in DOMAIN otlp \cap Kept THEN ByteLen(otlp[s]) ELSE tmp[s]]
  <2>1. DOMAIN Lengths(otlp) = DOMAIN otlp /\ \A s \in DOMAIN otlp : Lengths(otlp)[s] = ByteLen(otlp[s])
    BY DEF Lengths
  <2>2. /\ IsFiles(kept, Nat) /\ NBytes(kept) \in Nat
        /\ NBytes(Lengths(otlp)) = NBytes(kept) + NBytes(Stray)
        /\ DOMAIN kept = DOMAIN otlp \cap Kept /\ \A s \in DOMAIN kept : kept[s] = ByteLen(otlp[s])
    <3>1. IsFiles(Lengths(otlp), Nat)
      BY <1>1 DEF StrayExact
    <3>2. /\ Stray = Restrict(Lengths(otlp), DOMAIN Lengths(otlp) \ Kept)
          /\ kept = Restrict(Lengths(otlp), DOMAIN Lengths(otlp) \cap Kept)
      BY <2>1 DEF Stray
    <3> HIDE DEF kept
    <3>3. NBytes(kept) \in Nat /\ NBytes(Lengths(otlp)) = NBytes(kept) + NBytes(Stray)
      BY ONLY <3>1, <3>2, NBytesSplit
    <3>4. DOMAIN Lengths(otlp) \cap Kept \subseteq DOMAIN Lengths(otlp)
      OBVIOUS
    <3>5. /\ IsFiles(kept, Nat) /\ DOMAIN kept = DOMAIN Lengths(otlp) \cap Kept
          /\ \A s \in DOMAIN kept : kept[s] = Lengths(otlp)[s]
      BY ONLY <3>1, <3>2, <3>4, RestrictFiles
    <3> QED  BY <2>1, <3>3, <3>5
  <2>3. /\ IsFiles(hand, Nat) /\ NBytes(hand) \in Nat
        /\ NBytes(tmp) = NBytes(hand) + NBytes(StrayTmp)
        /\ DOMAIN hand = DOMAIN tmp \cap InHand /\ \A s \in DOMAIN hand : hand[s] = tmp[s]
    <3>1. IsFiles(tmp, Nat)
      BY DEF IInv, TypeOK
    <3>2. NBytes(hand) \in Nat /\ NBytes(tmp) = NBytes(hand) + NBytes(StrayTmp)
      BY <3>1, NBytesSplit DEF StrayTmp
    <3>3. DOMAIN tmp \cap InHand \subseteq DOMAIN tmp
      OBVIOUS
    <3>4. /\ IsFiles(hand, Nat) /\ DOMAIN hand = DOMAIN tmp \cap InHand
          /\ \A s \in DOMAIN hand : hand[s] = tmp[s]
      BY ONLY <3>1, <3>3, RestrictFiles
    <3> QED  BY <3>2, <3>4
  <2>4. ASSUME NEW s \in DOMAIN otlp \cap Kept
        PROVE  s \in DOMAIN Charged /\ ByteLen(otlp[s]) <= Charged[s] /\ s \notin InHand
    <3>1. CASE s \in DOMAIN pending
      <4>1. s \notin InHand
        BY <3>1 DEF InHand, Writing, IInv, OwnInv, Active
      <4>2. Charged[s] = pending[s] /\ s \in DOMAIN Charged
        BY <1>1, <3>1 DEF ChargedExact
      <4>3. pending[s] = ByteLen(otlp[s]) /\ pending[s] \in Nat
        BY <3>1 DEF SizeInv, IInv, TypeOK, IsFiles
      <4> QED  BY <4>1, <4>2, <4>3
    <3>2. CASE s \notin DOMAIN pending
      <4>1. PICK w \in Writers : push[w].pc = "publish" /\ push[w].seq = s
        BY <3>2 DEF Kept
      <4>2. Active(w) /\ otlp[s] = push[w].payload /\ push[w].payload \in Payloads
        BY <4>1 DEF Active, IInv, FileInv, OwnInv
      <4>3. Size[push[w].payload] \in Nat /\ ByteLen(otlp[s]) = Size[push[w].payload]
        BY <4>2, SpoolAssumption DEF ByteLen
      <4>4. s \in DOMAIN Charged /\ Charged[s] = Size[push[w].payload]
        BY <1>1, <4>1, <4>2 DEF ChargedExact, Reserving, Active
      <4>5. s \notin InHand
        BY <4>1, <4>2 DEF InHand, Writing, IInv, OwnInv, Active
      <4> QED  BY <4>3, <4>4, <4>5
    <3> QED  BY <3>1, <3>2
  <2>5. ASSUME NEW s \in DOMAIN tmp \cap InHand
        PROVE  s \in DOMAIN Charged /\ tmp[s] <= Charged[s]
    <3>1. PICK w \in Writers : Writing(w) /\ push[w].seq = s
      BY DEF InHand
    <3>2. Active(w)
      BY <3>1 DEF Writing, Active
    <3>3. s \in DOMAIN Charged /\ Charged[s] = Size[push[w].payload]
      BY <1>1, <3>1, <3>2 DEF ChargedExact, Reserving, Active
    <3> QED  BY <3>1, <3>3 DEF SizeInv
  <2>6. /\ IsFiles(both, Nat) /\ DOMAIN both = DOMAIN kept \cup DOMAIN hand
        /\ DOMAIN kept \cap DOMAIN hand = {}
        /\ \A s \in DOMAIN kept : both[s] = kept[s]
        /\ \A s \in DOMAIN hand : both[s] = hand[s]
    <3>1. DOMAIN both = DOMAIN kept \cup DOMAIN hand
      BY <2>2, <2>3
    <3>2. DOMAIN kept \cap DOMAIN hand = {}
      BY <2>2, <2>3, <2>4
    <3>3. \A s \in DOMAIN kept : both[s] = kept[s] /\ both[s] \in Nat
      BY <2>2 DEF IsFiles
    <3>4. \A s \in DOMAIN hand : both[s] = hand[s] /\ both[s] \in Nat
      BY <2>2, <2>3, <3>2 DEF IsFiles
    <3>5. IsFiniteSet(DOMAIN kept \cup DOMAIN hand) /\ DOMAIN kept \cup DOMAIN hand \subseteq Nat
      BY <2>2, <2>3, FS_Union DEF IsFiles
    <3>6. both = [s \in DOMAIN both |-> both[s]]
      OBVIOUS
    <3> HIDE DEF both, kept, hand
    <3> QED  BY <3>1, <3>2, <3>3, <3>4, <3>5, <3>6 DEF IsFiles
  <2>7. \A s \in DOMAIN both : s \in DOMAIN Charged /\ both[s] <= Charged[s]
    BY <2>2, <2>3, <2>4, <2>5, <2>6
  <2> HIDE DEF both, kept, hand
  <2>8. NBytes(both) = NBytes(kept) + NBytes(hand)
    BY <2>2, <2>3, <2>6, NBytesDisjoint
  <2>9. IsFiles(Charged, Nat) /\ total_bytes = NBytes(Charged) /\ total_bytes \in Nat
    BY <1>1, <1>3, ChargedFiles, NBytesType DEF AccountInv
  <2>10. NBytes(both) <= NBytes(Charged)
    BY <2>6, <2>7, <2>9, NBytesMono
  <2>11. spent.faults * MaxBytes \in Nat /\ MaxBytes \in Nat
    BY OneMoreFault, SpoolAssumption DEF IInv, TypeOK, SpentRec
  <2>12. total_bytes + (NBytes(Stray) + NBytes(StrayTmp)) <= spent.faults * MaxBytes + MaxBytes
    BY <1>3 DEF RoomInv
  <2>13. NBytes(Stray) \in Nat /\ NBytes(StrayTmp) \in Nat
    BY <1>1 DEF StrayExact
  <2> QED  BY ONLY <2>2, <2>3, <2>8, <2>9, <2>10, <2>11, <2>12, <2>13
<1> QED  BY <1>2, <1>3 DEF IInv, TypeOK

\* At most one sequence more.
LEMMA NBytesOneMore ==
    ASSUME NEW f, IsFiles(f, Nat), NEW g, IsFiles(g, Nat), NEW k \in Nat, NEW n \in Nat,
           DOMAIN g \subseteq DOMAIN f \cup {k},
           \A s \in DOMAIN g : s # k => g[s] = f[s],
           k \in DOMAIN g => g[k] <= n
    PROVE  NBytes(g) <= NBytes(f) + n
<1> DEFINE h == Restrict(g, DOMAIN g \ {k})
<1>1. IsFiles(h, Nat) /\ DOMAIN h = DOMAIN g \ {k} /\ \A s \in DOMAIN h : h[s] = g[s]
  <2>1. DOMAIN g \ {k} \subseteq DOMAIN g
    OBVIOUS
  <2> QED  BY <2>1, RestrictFiles
<1> HIDE DEF h
<1>2. NBytes(h) <= NBytes(f)
  <2>1. DOMAIN h \subseteq DOMAIN f /\ \A s \in DOMAIN h : h[s] <= f[s]
    BY <1>1 DEF IsFiles
  <2> QED  BY ONLY <1>1, <2>1, IsFiles(f, Nat), NBytesMono
<1>3. NBytes(h) \in Nat /\ NBytes(f) \in Nat /\ NBytes(g) \in Nat
  BY <1>1, NBytesType
<1>4. CASE k \in DOMAIN g
  <2>1. g[k] \in Nat /\ g[k] <= n
    BY <1>4 DEF IsFiles
  <2>2. NBytes(g) = NBytes(h) + g[k]
    BY <1>1, <1>4, <2>1, NBytesAdd
  <2> QED  BY <1>2, <1>3, <2>1, <2>2
<1>5. CASE k \notin DOMAIN g
  <2>1. h = g
    BY <1>1, <1>5 DEF IsFiles
  <2> QED  BY <1>2, <1>3, <2>1
<1> QED  BY <1>4, <1>5

\* No new stray file.
StrayLess ==
    /\ DOMAIN otlp' \ Kept' \subseteq DOMAIN otlp \ Kept
    /\ \A s \in DOMAIN otlp' \ Kept' : otlp'[s] = otlp[s]

StrayTmpLess ==
    /\ DOMAIN tmp' \ InHand' \subseteq DOMAIN tmp \ InHand
    /\ \A s \in DOMAIN tmp' \ InHand' : tmp'[s] = tmp[s]

\* Then no new stray bytes.
LEMMA StrayMono ==
    ASSUME IInv, IInv'
    PROVE  /\ StrayExact /\ StrayExact'
           /\ StrayLess => NBytes(Stray') <= NBytes(Stray)
           /\ StrayTmpLess => NBytes(StrayTmp') <= NBytes(StrayTmp)
<1>1. StrayExact /\ StrayExact'
  <2>1. (IInv => StrayExact)'
    BY StrayIs, PTL
  <2> QED  BY <2>1, StrayIs
<1>2. IsFiles(Stray, Nat) /\ IsFiles(Stray', Nat) /\ IsFiles(StrayTmp, Nat) /\ IsFiles(StrayTmp', Nat)
  BY <1>1 DEF StrayExact
<1>3. ASSUME StrayLess PROVE NBytes(Stray') <= NBytes(Stray)
  <2>1. DOMAIN Stray' \subseteq DOMAIN Stray /\ \A s \in DOMAIN Stray' : Stray'[s] = Stray[s]
    BY <1>1, <1>3 DEF StrayExact, StrayLess, ByteLen
  <2>2. \A s \in DOMAIN Stray' : Stray'[s] <= Stray[s]
    BY <1>2, <2>1 DEF IsFiles
  <2> QED  BY <1>2, <2>1, <2>2, NBytesMono
<1>4. ASSUME StrayTmpLess PROVE NBytes(StrayTmp') <= NBytes(StrayTmp)
  <2>1. DOMAIN StrayTmp' \subseteq DOMAIN StrayTmp /\ \A s \in DOMAIN StrayTmp' : StrayTmp'[s] = StrayTmp[s]
    BY <1>1, <1>4 DEF StrayExact, StrayTmpLess
  <2>2. \A s \in DOMAIN StrayTmp' : StrayTmp'[s] <= StrayTmp[s]
    BY <1>2, <2>1 DEF IsFiles
  <2> QED  BY <1>2, <2>1, <2>2, NBytesMono
<1> QED  BY <1>1, <1>3, <1>4

\* A step that leaves nothing behind and charges nothing.
LEMMA RoomLess ==
    ASSUME IInv, IInv', RoomInv, mode = "up", mode' = "up", StrayLess, StrayTmpLess,
           total_bytes' <= total_bytes,
           spent'.faults = spent.faults \/ spent'.faults = spent.faults + 1
    PROVE  RoomInv'
<1>1. /\ NBytes(Stray') <= NBytes(Stray) /\ NBytes(StrayTmp') <= NBytes(StrayTmp)
      /\ NBytes(Stray) \in Nat /\ NBytes(StrayTmp) \in Nat
      /\ NBytes(Stray') \in Nat /\ NBytes(StrayTmp') \in Nat
  BY StrayMono DEF StrayExact
<1>2. total_bytes \in Nat /\ total_bytes' \in Nat /\ MaxBytes \in Nat
  BY SpoolAssumption DEF IInv, TypeOK
<1>3. /\ spent.faults * MaxBytes \in Nat
      /\ spent'.faults * MaxBytes = spent.faults * MaxBytes
         \/ spent'.faults * MaxBytes = spent.faults * MaxBytes + MaxBytes
  BY OneMoreFault DEF IInv, TypeOK, SpentRec
<1>4. /\ NBytes(Stray) + NBytes(StrayTmp) <= spent.faults * MaxBytes
      /\ total_bytes + (NBytes(Stray) + NBytes(StrayTmp)) <= spent.faults * MaxBytes + MaxBytes
  BY DEF RoomInv
<1>5. /\ NBytes(Stray') + NBytes(StrayTmp') <= spent'.faults * MaxBytes
      /\ total_bytes' + (NBytes(Stray') + NBytes(StrayTmp')) <= spent'.faults * MaxBytes + MaxBytes
  BY ONLY <1>1, <1>2, <1>3, <1>4, total_bytes' <= total_bytes
<1>6. NBytes(Stray)' = NBytes(Stray') /\ NBytes(StrayTmp)' = NBytes(StrayTmp')
  BY DEF NBytes, Bytes
<1> QED  BY <1>5, <1>6 DEF RoomInv

\* At most one more stray file, of at most one cap's worth.
StrayMore(k) ==
    /\ DOMAIN otlp' \ Kept' \subseteq (DOMAIN otlp \ Kept) \cup {k}
    /\ \A s \in DOMAIN otlp' \ Kept' : otlp'[s] = otlp[s]
    /\ k \in DOMAIN otlp' => ByteLen(otlp'[k]) <= MaxBytes

StrayTmpMore(k) ==
    /\ DOMAIN tmp' \ InHand' \subseteq (DOMAIN tmp \ InHand) \cup {k}
    /\ \A s \in DOMAIN tmp' \ InHand' : s # k => tmp'[s] = tmp[s]
    /\ k \in DOMAIN tmp' => tmp'[k] <= MaxBytes

\* A fault that leaves one file behind, under sequence k.
LEMMA RoomFault ==
    ASSUME IInv, IInv', RoomInv, mode = "up", mode' = "up", UNCHANGED total_bytes,
           spent'.faults = spent.faults + 1, NEW k \in Nat,
           (StrayMore(k) /\ StrayTmpLess) \/ (StrayLess /\ StrayTmpMore(k))
    PROVE  RoomInv'
<1>1. /\ NBytes(Stray) \in Nat /\ NBytes(StrayTmp) \in Nat
      /\ NBytes(Stray') \in Nat /\ NBytes(StrayTmp') \in Nat
      /\ IsFiles(Stray, Nat) /\ IsFiles(Stray', Nat) /\ IsFiles(StrayTmp, Nat) /\ IsFiles(StrayTmp', Nat)
      /\ StrayExact /\ StrayExact'
  BY StrayMono DEF StrayExact
<1>2. MaxBytes \in Nat /\ total_bytes \in Nat
  BY SpoolAssumption DEF IInv, TypeOK
<1>3. NBytes(Stray') + NBytes(StrayTmp') <= NBytes(Stray) + NBytes(StrayTmp) + MaxBytes
  <2>1. CASE StrayMore(k) /\ StrayTmpLess
    <3>1. NBytes(StrayTmp') <= NBytes(StrayTmp)
      BY <2>1, StrayMono
    <3>2. /\ DOMAIN Stray' \subseteq DOMAIN Stray \cup {k}
          /\ \A s \in DOMAIN Stray' : s # k => Stray'[s] = Stray[s]
          /\ k \in DOMAIN Stray' => Stray'[k] <= MaxBytes
      BY <1>1, <2>1 DEF StrayExact, StrayMore, ByteLen
    <3>3. NBytes(Stray') <= NBytes(Stray) + MaxBytes
      BY ONLY <1>1, <1>2, <3>2, k \in Nat, NBytesOneMore
    <3> QED  BY ONLY <1>1, <1>2, <3>1, <3>3
  <2>2. CASE StrayLess /\ StrayTmpMore(k)
    <3>1. NBytes(Stray') <= NBytes(Stray)
      BY <2>2, StrayMono
    <3>2. /\ DOMAIN StrayTmp' \subseteq DOMAIN StrayTmp \cup {k}
          /\ \A s \in DOMAIN StrayTmp' : s # k => StrayTmp'[s] = StrayTmp[s]
          /\ k \in DOMAIN StrayTmp' => StrayTmp'[k] <= MaxBytes
      BY <1>1, <2>2 DEF StrayExact, StrayTmpMore
    <3>3. NBytes(StrayTmp') <= NBytes(StrayTmp) + MaxBytes
      BY ONLY <1>1, <1>2, <3>2, k \in Nat, NBytesOneMore
    <3> QED  BY ONLY <1>1, <1>2, <3>1, <3>3
  <2> QED  BY <2>1, <2>2
<1>4. /\ spent.faults * MaxBytes \in Nat
      /\ spent'.faults * MaxBytes = spent.faults * MaxBytes + MaxBytes
  BY OneMoreFault DEF IInv, TypeOK, SpentRec
<1>5. /\ NBytes(Stray) + NBytes(StrayTmp) <= spent.faults * MaxBytes
      /\ total_bytes + (NBytes(Stray) + NBytes(StrayTmp)) <= spent.faults * MaxBytes + MaxBytes
  BY DEF RoomInv
<1>6. /\ NBytes(Stray') + NBytes(StrayTmp') <= spent'.faults * MaxBytes
      /\ total_bytes' + (NBytes(Stray') + NBytes(StrayTmp')) <= spent'.faults * MaxBytes + MaxBytes
  BY ONLY <1>1, <1>2, <1>3, <1>4, <1>5, UNCHANGED total_bytes
<1>7. NBytes(Stray)' = NBytes(Stray') /\ NBytes(StrayTmp)' = NBytes(StrayTmp')
  BY DEF NBytes, Bytes
<1> QED  BY <1>6, <1>7 DEF RoomInv

\* What a move of writer w does to the files that are charged for.
LEMMA MovedFiles ==
    ASSUME IInv, NEW w \in Writers, Active(w), push' \in [Writers -> PushRec],
           push'[w].seq = push[w].seq \/ push'[w].pc = "idle",
           \A v \in Writers : v # w => push'[v] = push[v]
    PROVE  /\ Writing(w)' => InHand' = InHand \cup {push[w].seq}
           /\ ~Writing(w)' => InHand' = InHand \ {push[w].seq}
           /\ UNCHANGED <<pending, drain>> /\ push[w].pc # "publish" =>
                 IF push'[w].pc = "publish" THEN Kept' = Kept \cup {push[w].seq} ELSE Kept' = Kept
<1>1. ASSUME NEW v \in Writers, v # w, Active(v) PROVE push[v].seq # push[w].seq
  BY <1>1 DEF IInv, OwnInv
<1>2. ASSUME NEW v \in Writers, v # w
      PROVE  Writing(v)' = Writing(v) /\ (Writing(v) => Active(v)) /\ (push[v].pc = "publish" => Active(v))
  BY <1>2 DEF Writing, Active
<1>3. Writing(w)' => push'[w].seq = push[w].seq
  BY DEF Writing
<1>4. Writing(w)' => InHand' = InHand \cup {push[w].seq}
  BY <1>2, <1>3 DEF InHand
<1>5. ~Writing(w)' => InHand' = InHand \ {push[w].seq}
  BY <1>1, <1>2 DEF InHand
<1>6. ASSUME UNCHANGED <<pending, drain>>, push[w].pc # "publish"
      PROVE  IF push'[w].pc = "publish" THEN Kept' = Kept \cup {push[w].seq} ELSE Kept' = Kept
  BY <1>6 DEF Kept
<1> QED  BY <1>4, <1>5, <1>6

\* open charges every published file again and sweeps the tmp files.
LEMMA RoomOpen ==
    ASSUME IInv, IInv', RoomInv, Open PROVE RoomInv'
<1>1. mode = "down" /\ mode' = "up" /\ UNCHANGED otlp /\ pending' = Lengths(otlp)
  BY DEF Open, Recount
<1>2. drain'.pc = "idle" /\ \A w \in Writers : push'[w].pc = "idle"
  BY <1>1, IdleTypes DEF Open, IInv, DownInv
<1>3. DOMAIN otlp' \ Kept' = {} /\ InHand' = {}
  <2>1. DOMAIN pending' = DOMAIN otlp'
    BY <1>1 DEF Lengths
  <2> QED  BY <1>2, <2>1 DEF Kept, InHand, Writing
<1>4. StrayExact /\ StrayExact'
  BY StrayMono
<1>5. NBytes(Stray') = 0
  BY <1>3, <1>4, NBytesEmpty DEF StrayExact
<1>6. /\ NBytes(StrayTmp') <= NBytes(tmp)
      /\ spent'.faults = spent.faults => NBytes(StrayTmp') = 0
      /\ spent'.faults = spent.faults \/ spent'.faults = spent.faults + 1
  <2>1. CASE tmp' = Empty /\ UNCHANGED spent
    <3>1. DOMAIN StrayTmp' = {}
      BY <1>4, <2>1, EmptyFiles DEF StrayExact
    <3>2. NBytes(StrayTmp') = 0
      BY <3>1, NBytesEmpty
    <3> QED  BY <1>4, <2>1, <3>2 DEF StrayExact
  <2>2. CASE Spend("faults") /\ \E left \in (SUBSET DOMAIN tmp) \ {{}} : tmp' = Restrict(tmp, left)
    <3>1. spent'.faults = spent.faults + 1 /\ spent.faults \in Nat
      BY <2>2 DEF Spend, IInv, TypeOK, SpentRec
    <3>2. DOMAIN tmp' \subseteq DOMAIN tmp /\ \A s \in DOMAIN tmp' : tmp'[s] = tmp[s]
      BY <2>2 DEF Restrict
    <3>3. IsFiles(tmp, Nat) /\ IsFiles(StrayTmp', Nat)
      BY <1>4 DEF StrayExact, IInv, TypeOK
    <3>4. DOMAIN StrayTmp' \subseteq DOMAIN tmp /\ \A s \in DOMAIN StrayTmp' : StrayTmp'[s] <= tmp[s]
      BY <1>3, <1>4, <3>2, <3>3 DEF StrayExact, IsFiles
    <3>5. NBytes(StrayTmp') <= NBytes(tmp)
      BY <3>3, <3>4, NBytesMono
    <3> QED  BY <3>1, <3>5
  <2> QED  BY <2>1, <2>2 DEF Open
<1>7. total_bytes' = NBytes(Lengths(otlp))
  BY DEF Open, Recount
<1>8. /\ NBytes(Lengths(otlp)) \in Nat /\ NBytes(tmp) \in Nat /\ NBytes(StrayTmp') \in Nat /\ MaxBytes \in Nat
      /\ NBytes(Lengths(otlp)) + NBytes(tmp) <= spent.faults * MaxBytes + MaxBytes
  BY <1>1, <1>4, SpoolAssumption DEF RoomInv, StrayExact
<1>9. /\ spent.faults * MaxBytes \in Nat
      /\ spent'.faults = spent.faults + 1 => spent'.faults * MaxBytes = spent.faults * MaxBytes + MaxBytes
      /\ spent'.faults = spent.faults => spent'.faults * MaxBytes = spent.faults * MaxBytes
  BY OneMoreFault DEF IInv, TypeOK, SpentRec
<1>10. /\ NBytes(Stray') + NBytes(StrayTmp') <= spent'.faults * MaxBytes
       /\ total_bytes' + (NBytes(Stray') + NBytes(StrayTmp')) <= spent'.faults * MaxBytes + MaxBytes
  BY ONLY <1>5, <1>6, <1>7, <1>8, <1>9
<1>11. NBytes(Stray)' = NBytes(Stray') /\ NBytes(StrayTmp)' = NBytes(StrayTmp')
  BY DEF NBytes, Bytes
<1> QED  BY <1>1, <1>10, <1>11 DEF RoomInv

\* A reservation is refused unless it leaves the charged bytes under the cap.
LEMMA RoomReserve ==
    ASSUME IInv, IInv', RoomInv, NEW w \in Writers, NEW p \in Payloads, PushReserve(w, p)
    PROVE  RoomInv'
<1>1. /\ mode = "up" /\ mode' = "up" /\ total_bytes' = total_bytes + Size[p] /\ Fits(p)
      /\ UNCHANGED <<otlp, tmp, pending, drain, spent>>
      /\ push[w].pc = "idle" /\ push'[w].pc = "create"
      /\ \A v \in Writers : v # w => push'[v] = push[v]
  BY DEF PushReserve, At, disk, IInv, TypeOK
<1>2. Kept' = Kept /\ InHand' = InHand
  BY <1>1 DEF Kept, InHand, Writing
<1>3. StrayLess /\ StrayTmpLess
  BY <1>1, <1>2 DEF StrayLess, StrayTmpLess
<1>4. /\ NBytes(Stray') <= NBytes(Stray) /\ NBytes(StrayTmp') <= NBytes(StrayTmp)
      /\ NBytes(Stray) \in Nat /\ NBytes(StrayTmp) \in Nat
      /\ NBytes(Stray') \in Nat /\ NBytes(StrayTmp') \in Nat
  BY <1>3, StrayMono DEF StrayExact
<1>5. /\ NBytes(Stray) + NBytes(StrayTmp) <= spent.faults * MaxBytes
      /\ total_bytes' <= MaxBytes /\ total_bytes' \in Nat /\ MaxBytes \in Nat
      /\ spent.faults * MaxBytes \in Nat
  BY <1>1, SpoolAssumption, OneMoreFault DEF RoomInv, Fits, IInv, TypeOK, SpentRec
<1>6. /\ NBytes(Stray') + NBytes(StrayTmp') <= spent.faults * MaxBytes
      /\ total_bytes' + (NBytes(Stray') + NBytes(StrayTmp')) <= spent.faults * MaxBytes + MaxBytes
  BY ONLY <1>4, <1>5
<1>7. NBytes(Stray)' = NBytes(Stray') /\ NBytes(StrayTmp)' = NBytes(StrayTmp')
  BY DEF NBytes, Bytes
<1> QED  BY <1>1, <1>6, <1>7 DEF RoomInv

\* A push that goes on leaves nothing behind, but a push that fails may leave its
\* tmp file.
LEMMA RoomPush ==
    ASSUME IInv, IInv', SizeInv, SizeInv', RoomInv, NEW w \in Writers,
           PushStep(w) \/ PushIoFault(w)
    PROVE  RoomInv'
<1> DEFINE s == push[w].seq
<1>1. /\ mode = "up" /\ mode' = "up" /\ Active(w)
  BY DEF PushStep, PushCreate, PushWrite, PushSync, PushRename, PushPublish, PushRollback, PushIoFault,
         At, Active
<1>2. s \in Nat /\ s \notin DOMAIN pending /\ Size[push[w].payload] \in Nat /\ total_bytes \in Nat
  BY <1>1, ActiveFacts DEF IInv, TypeOK
<1>3. /\ push' \in [Writers -> PushRec]
      /\ push'[w].seq = s \/ push'[w].pc = "idle"
      /\ \A v \in Writers : v # w => push'[v] = push[v]
  BY GotoFacts, ReturnFacts
  DEF PushStep, PushCreate, PushWrite, PushSync, PushRename, PushPublish, PushRollback, PushIoFault,
      IInv, PushPCs
<1>4. /\ Writing(w)' => InHand' = InHand \cup {s}
      /\ ~Writing(w)' => InHand' = InHand \ {s}
      /\ UNCHANGED <<pending, drain>> /\ push[w].pc # "publish" =>
            IF push'[w].pc = "publish" THEN Kept' = Kept \cup {s} ELSE Kept' = Kept
  BY <1>1, <1>3, MovedFiles
<1>5. Writing(w) => s \in InHand
  BY DEF InHand
<1>6. Active(w) /\ ~Writing(w) => s \notin InHand
  BY DEF InHand, Writing, Active, IInv, OwnInv
<1> HIDE DEF s
<1>7. CASE PushCreate(w)
  <2>1. /\ push[w].pc = "create" /\ push'[w].pc = "write" /\ tmp' = Put(tmp, s, 0)
        /\ UNCHANGED <<otlp, pending, drain, total_bytes, spent>>
    BY <1>7, GotoFacts DEF PushCreate, At, state, IInv, PushPCs, s
  <2>2. StrayLess /\ StrayTmpLess
    BY <1>4, <2>1 DEF StrayLess, StrayTmpLess, Writing, Put
  <2> QED  BY <1>1, <1>2, <2>1, <2>2, RoomLess
<1>8. CASE PushWrite(w)
  <2>1. /\ push[w].pc = "write" /\ push'[w].pc = "sync" /\ tmp' = Put(tmp, s, Size[push[w].payload])
        /\ UNCHANGED <<otlp, pending, drain, total_bytes, spent>>
    BY <1>8, GotoFacts DEF PushWrite, At, state, IInv, PushPCs, s
  <2>2. StrayLess /\ StrayTmpLess
    BY <1>4, <2>1 DEF StrayLess, StrayTmpLess, Writing, Put
  <2> QED  BY <1>1, <1>2, <2>1, <2>2, RoomLess
<1>9. CASE PushSync(w)
  <2>1. /\ push[w].pc = "sync" /\ push'[w].pc = "rename"
        /\ UNCHANGED <<otlp, tmp, pending, drain, total_bytes, spent>>
    BY <1>9, GotoFacts DEF PushSync, At, state, IInv, PushPCs
  <2>2. StrayLess /\ StrayTmpLess
    BY <1>4, <2>1 DEF StrayLess, StrayTmpLess, Writing
  <2> QED  BY <1>1, <1>2, <2>1, <2>2, RoomLess
<1>10. CASE PushRename(w)
  <2>1. /\ push[w].pc = "rename" /\ push'[w].pc = "publish"
        /\ otlp' = Put(otlp, s, push[w].payload) /\ tmp' = Drop(tmp, {s})
        /\ UNCHANGED <<pending, drain, total_bytes, spent>>
    BY <1>10, GotoFacts DEF PushRename, At, state, IInv, PushPCs, s
  <2>2. StrayLess /\ StrayTmpLess
    BY <1>4, <2>1 DEF StrayLess, StrayTmpLess, Writing, Put, Drop, Restrict
  <2> QED  BY <1>1, <1>2, <2>1, <2>2, RoomLess
<1>11. CASE PushPublish(w)
  <2>1. /\ push[w].pc = "publish" /\ push'[w].pc = "idle"
        /\ DOMAIN pending' = DOMAIN pending \cup {s}
        /\ UNCHANGED <<otlp, tmp, drain, total_bytes, spent>>
    BY <1>11, ReturnFacts DEF PushPublish, At, disk, IInv, Put, s
  <2>2. drain.pc = "forget" => drain.seq \in DOMAIN pending
    BY DEF IInv, DrainInv
  <2>3. Kept \subseteq Kept' /\ InHand' = InHand
    BY <1>2, <1>3, <1>4, <1>6, <1>1, <2>1, <2>2 DEF Kept, Writing, s
  <2>4. StrayLess /\ StrayTmpLess
    BY <2>1, <2>3 DEF StrayLess, StrayTmpLess
  <2> QED  BY <1>1, <1>2, <2>1, <2>4, RoomLess
<1>12. CASE PushRollback(w)
  <2>1. /\ push[w].pc = "rollback" /\ push'[w].pc = "idle"
        /\ UNCHANGED <<otlp, tmp, pending, drain, spent>>
        /\ total_bytes' = SatSub(total_bytes, Size[push[w].payload])
    BY <1>12, ReturnFacts DEF PushRollback, At, disk, IInv
  <2>2. StrayLess /\ StrayTmpLess
    BY <1>1, <1>4, <1>6, <2>1 DEF StrayLess, StrayTmpLess, Writing
  <2>3. total_bytes' <= total_bytes
    BY <1>2, <2>1 DEF SatSub
  <2> QED  BY <1>1, <2>1, <2>2, <2>3, RoomLess
<1>13. CASE PushIoFault(w)
  <2>1. /\ push[w].pc \in {"create", "write", "sync", "rename"} /\ push'[w].pc = "rollback"
        /\ UNCHANGED <<otlp, pending, drain, total_bytes>>
        /\ UNCHANGED tmp \/ (Writing(w) /\ \E n \in 1 .. Size[push[w].payload] : tmp' = Put(tmp, s, n))
    BY <1>13, GotoFacts DEF PushIoFault, state, IInv, PushPCs, Writing, s
  <2>2. spent'.faults = spent.faults + 1
    BY <1>13 DEF PushIoFault, Spend, IInv, TypeOK, SpentRec
  <2>3. StrayLess
    BY <1>4, <2>1 DEF StrayLess
  <2>4. CASE ~Writing(w)
    <3>1. StrayTmpLess
      BY <1>1, <1>4, <1>6, <2>1, <2>4 DEF StrayTmpLess, Writing
    <3> QED  BY <1>1, <1>2, <2>1, <2>2, <2>3, <3>1, RoomLess
  <2>5. CASE Writing(w)
    <3>1. Size[push[w].payload] <= MaxBytes /\ tmp[s] <= Size[push[w].payload] /\ MaxBytes \in Nat
          /\ s \in DOMAIN tmp /\ tmp[s] \in Nat
      BY <1>1, <2>5, SpoolAssumption DEF SizeInv, IInv, TypeOK, IsFiles, s
    <3>2. tmp'[s] <= MaxBytes
      <4>1. CASE UNCHANGED tmp
        BY <1>2, <3>1, <4>1
      <4>2. CASE \E n \in 1 .. Size[push[w].payload] : tmp' = Put(tmp, s, n)
        BY <1>2, <3>1, <4>2 DEF Put
      <4> QED  BY <2>1, <4>1, <4>2
    <3>3. DOMAIN tmp' \subseteq DOMAIN tmp \cup {s} /\ \A x \in DOMAIN tmp' : x # s => tmp'[x] = tmp[x]
      BY <2>1 DEF Put
    <3>4. StrayTmpMore(s)
      BY <1>4, <2>1, <3>2, <3>3 DEF StrayTmpMore
    <3> QED  BY <1>1, <1>2, <2>1, <2>2, <2>3, <3>4, RoomFault
  <2> QED  BY <2>4, <2>5
<1> QED  BY <1>7, <1>8, <1>9, <1>10, <1>11, <1>12, <1>13 DEF PushStep

\* The drain leaves a file behind only when its removal fails.
LEMMA RoomDrain ==
    ASSUME IInv, IInv', SizeInv, RoomInv, DrainRemove \/ DrainForget PROVE RoomInv'
<1>1. /\ mode = "up" /\ mode' = "up" /\ drain.seq \in DOMAIN pending /\ drain.seq \in Nat
      /\ total_bytes \in Nat /\ UNCHANGED <<tmp, push>>
  BY DEF DrainRemove, DrainForget, DrainAt, disk, IInv, DrainInv, TypeOK, DrainRec
<1>2. InHand' = InHand
  BY <1>1 DEF InHand, Writing
<1>3. StrayTmpLess
  BY <1>1, <1>2 DEF StrayTmpLess
<1>4. \A w \in Writers : push[w].pc = "publish" => push[w].seq # drain.seq
  BY <1>1 DEF IInv, OwnInv, Active
<1>5. CASE DrainRemove
  <2>1. /\ drain.pc = "remove" /\ drain'.pc = "forget" /\ drain'.seq = drain.seq
        /\ UNCHANGED <<pending, total_bytes>> /\ drain.seq \in DOMAIN otlp
    BY <1>5 DEF DrainRemove, DrainAt, state, IInv, TypeOK, DrainRec, DrainInv
  <2>2. Kept' = Kept \ {drain.seq}
    BY <1>1, <1>4, <2>1 DEF Kept
  <2>3. CASE otlp' = Drop(otlp, {drain.seq}) /\ UNCHANGED spent
    <3>1. StrayLess
      BY <2>2, <2>3 DEF StrayLess, Drop, Restrict
    <3> QED  BY <1>1, <1>3, <2>1, <2>3, <3>1, RoomLess
  <2>4. CASE UNCHANGED otlp /\ Spend("faults")
    <3>1. spent'.faults = spent.faults + 1
      BY <2>4 DEF Spend, IInv, TypeOK, SpentRec
    <3>2. StrayMore(drain.seq)
      BY <2>1, <2>2, <2>4 DEF StrayMore, SizeInv, ByteLen
    <3> QED  BY <1>1, <1>3, <2>1, <3>1, <3>2, RoomFault
  <2> QED  BY <1>5, <2>3, <2>4 DEF DrainRemove
<1>6. CASE DrainForget
  <2>1. /\ drain.pc = "forget" /\ drain'.pc = "idle" /\ UNCHANGED <<otlp, spent>>
        /\ DOMAIN pending' = DOMAIN pending \ {drain.seq}
        /\ total_bytes' = SatSub(total_bytes, drain.len) /\ drain.len \in Nat
    BY <1>1, <1>6, IdleTypes DEF DrainForget, DrainAt, disk, Drop, Restrict, IInv, TypeOK, DrainRec
  <2>2. Kept' = Kept
    BY <1>1, <2>1 DEF Kept
  <2>3. StrayLess
    BY <2>1, <2>2 DEF StrayLess
  <2>4. total_bytes' <= total_bytes
    BY <1>1, <2>1 DEF SatSub
  <2> QED  BY <1>1, <1>3, <2>1, <2>3, <2>4, RoomLess
<1> QED  BY <1>5, <1>6

\* A crash leaves the directory as it is; a power loss moves files from one kind
\* to the other.
LEMMA RoomLost ==
    ASSUME IInv, IInv', AccountInv, SizeInv, RoomInv, Exit \/ Crash \/ PowerLoss
    PROVE  RoomInv'
<1>1. NBytes(Lengths(otlp)) + NBytes(tmp) <= spent.faults * MaxBytes + MaxBytes
  BY RoomBounds
<1>2. mode' = "down" /\ spent'.faults = spent.faults
  BY DEF Exit, Crash, PowerLoss, MemoryLost, Spend, IInv, TypeOK, SpentRec
<1>3. NBytes(Lengths(otlp')) + NBytes(tmp') <= NBytes(Lengths(otlp)) + NBytes(tmp)
  <2>1. /\ StrayExact /\ StrayExact'
        /\ IsFiles(otlp, Content) /\ IsFiles(otlp', Content)
        /\ IsFiles(tmp, Nat) /\ IsFiles(tmp', Nat)
    BY StrayMono DEF IInv, TypeOK
  <2>2. CASE UNCHANGED <<otlp, tmp>>
    BY <2>1, <2>2 DEF StrayExact
  <2>3. CASE PowerLoss
    <3>1. PICK undone \in SUBSET (renamed \cap DOMAIN otlp), torn \in SUBSET (unsynced \cap DOMAIN otlp) :
             /\ otlp' = [s \in DOMAIN otlp \ undone |-> IF s \in torn THEN Torn ELSE otlp[s]]
             /\ tmp' = [s \in DOMAIN tmp \cup undone |->
                           IF s \in undone THEN ByteLen(otlp[s]) ELSE tmp[s]]
      BY <2>3 DEF PowerLoss
    <3>2. DOMAIN otlp' = DOMAIN otlp \ undone /\ \A s \in DOMAIN otlp' : otlp'[s] = otlp[s]
      BY <3>1 DEF IInv, SyncInv
    <3> DEFINE L == Lengths(otlp)
               back == Restrict(L, DOMAIN L \cap undone)
               left == Restrict(L, DOMAIN L \ undone)
               older == Restrict(tmp, DOMAIN tmp \ undone)
    <3>3. IsFiles(L, Nat) /\ DOMAIN L = DOMAIN otlp /\ \A s \in DOMAIN otlp : L[s] = ByteLen(otlp[s])
      BY <2>1, LengthsFiles DEF Lengths
    <3> HIDE DEF L
    <3>4. /\ NBytes(back) \in Nat /\ NBytes(left) \in Nat /\ NBytes(L) = NBytes(back) + NBytes(left)
      BY <3>3, NBytesSplit
    <3>5. /\ IsFiles(back, Nat) /\ DOMAIN back = undone /\ \A s \in undone : back[s] = ByteLen(otlp[s])
      <4>1. DOMAIN L \cap undone = undone
        BY <3>3
      <4> QED  BY <3>3, <4>1, RestrictFiles
    <3>6. /\ IsFiles(left, Nat) /\ DOMAIN left = DOMAIN otlp' /\ \A s \in DOMAIN left : left[s] = ByteLen(otlp'[s])
      <4>1. DOMAIN L \ undone \subseteq DOMAIN L
        OBVIOUS
      <4>2. /\ IsFiles(left, Nat) /\ DOMAIN left = DOMAIN L \ undone
            /\ \A s \in DOMAIN left : left[s] = L[s]
        BY <3>3, <4>1, RestrictFiles
      <4> QED  BY <3>2, <3>3, <4>2 DEF ByteLen
    <3>7. /\ IsFiles(older, Nat) /\ DOMAIN older = DOMAIN tmp \ undone
          /\ \A s \in DOMAIN older : older[s] = tmp[s]
      BY <2>1, RestrictFiles
    <3> HIDE DEF back, left, older
    <3>8. left = Lengths(otlp')
      BY <3>6 DEF IsFiles, Lengths
    <3>9. NBytes(tmp') = NBytes(older) + NBytes(back)
      <4>1. /\ DOMAIN older \cap DOMAIN back = {} /\ DOMAIN tmp' = DOMAIN older \cup DOMAIN back
            /\ \A s \in DOMAIN older : tmp'[s] = older[s]
            /\ \A s \in DOMAIN back : tmp'[s] = back[s]
        BY <3>1, <3>5, <3>7
      <4> QED  BY <2>1, <3>5, <3>7, <4>1, NBytesDisjoint
    <3>10. NBytes(older) <= NBytes(tmp)
      <4>1. DOMAIN older \subseteq DOMAIN tmp /\ \A s \in DOMAIN older : older[s] <= tmp[s]
        BY <2>1, <3>7 DEF IsFiles
      <4> QED  BY <2>1, <3>7, <4>1, NBytesMono
    <3>11. NBytes(older) \in Nat /\ NBytes(tmp) \in Nat
      BY <2>1, <3>7, NBytesType
    <3> QED  BY <3>4, <3>8, <3>9, <3>10, <3>11 DEF L
  <2> QED  BY <2>2, <2>3 DEF Exit, Crash, disk
<1>4. /\ NBytes(Lengths(otlp)) \in Nat /\ NBytes(tmp) \in Nat
      /\ NBytes(Lengths(otlp')) \in Nat /\ NBytes(tmp') \in Nat
      /\ spent.faults * MaxBytes \in Nat /\ MaxBytes \in Nat
  <2>1. StrayExact /\ StrayExact' /\ IsFiles(tmp', Nat) /\ IsFiles(otlp', Content)
    BY StrayMono DEF IInv, TypeOK
  <2>2. NBytes(Lengths(otlp')) \in Nat /\ NBytes(tmp') \in Nat
    BY <2>1, LengthsFiles, NBytesType
  <2> QED  BY <2>1, <2>2, OneMoreFault, SpoolAssumption DEF StrayExact, IInv, TypeOK, SpentRec
<1>5. NBytes(Lengths(otlp')) + NBytes(tmp') <= spent'.faults * MaxBytes + MaxBytes
  <2>1. NBytes(Lengths(otlp')) + NBytes(tmp') <= spent.faults * MaxBytes + MaxBytes
    BY ONLY <1>1, <1>3, <1>4
  <2> QED  BY <1>2, <2>1
<1>6. NBytes(Lengths(otlp))' = NBytes(Lengths(otlp')) /\ NBytes(tmp)' = NBytes(tmp')
  BY DEF NBytes, Bytes, Lengths, ByteLen
<1> QED  BY <1>2, <1>5, <1>6 DEF RoomInv

\* Every step keeps the room.
LEMMA RoomStep ==
    ASSUME IInv, IInv', AccountInv, SizeInv, SizeInv', RoomInv, [Next]_vars PROVE RoomInv'
<1>1. CASE Open
  BY <1>1, RoomOpen
<1>2. CASE \E w \in Writers, p \in Payloads : PushReserve(w, p)
  BY <1>2, RoomReserve
<1>3. CASE \E w \in Writers : PushStep(w) \/ PushIoFault(w)
  BY <1>3, RoomPush
<1>4. CASE DrainRemove \/ DrainForget
  BY <1>4, RoomDrain
<1>5. CASE Exit \/ Crash \/ PowerLoss
  BY <1>5, RoomLost
<1>6. CASE /\ UNCHANGED <<mode, otlp, tmp, pending, push, total_bytes>>
           /\ UNCHANGED drain \/ (drain.pc # "forget" /\ drain'.pc # "forget")
           /\ UNCHANGED spent \/ (mode = "up" /\ (Spend("faults") \/ Spend("crashes")))
  <2>1. Kept' = Kept /\ InHand' = InHand
    BY <1>6 DEF Kept, InHand, Writing
  <2>2. StrayLess /\ StrayTmpLess
    BY <1>6, <2>1 DEF StrayLess, StrayTmpLess
  <2>3. spent'.faults = spent.faults \/ spent'.faults = spent.faults + 1
    BY <1>6 DEF Spend, IInv, TypeOK, SpentRec
  <2>4. CASE mode = "up"
    BY <1>6, <2>2, <2>3, <2>4, RoomLess DEF IInv, TypeOK
  <2>5. CASE mode = "down"
    BY <1>6, <2>5 DEF RoomInv, NBytes, Bytes, Lengths, ByteLen
  <2> QED  BY <2>4, <2>5 DEF IInv, TypeOK
<1>7. ASSUME DrainPick \/ DrainRead \/ DrainUnreadable \/ DrainForwardOk \/ DrainForwardErr \/ DrainStop
      PROVE  /\ UNCHANGED <<mode, otlp, tmp, pending, push, total_bytes>>
             /\ drain.pc # "forget" /\ drain'.pc # "forget"
             /\ UNCHANGED spent \/ (mode = "up" /\ (Spend("faults") \/ Spend("crashes")))
  <2>1. /\ UNCHANGED <<mode, otlp, tmp, pending, push, total_bytes>> /\ drain.pc # "forget"
        /\ UNCHANGED spent \/ (mode = "up" /\ (Spend("faults") \/ Spend("crashes")))
    BY <1>7
    DEF DrainPick, DrainRead, DrainUnreadable, DrainForwardOk, DrainForwardErr, DrainStop, DrainAt, disk, state
  <2>2. drain'.pc # "forget"
    <3>1. CASE DrainRead \/ DrainForwardOk
      BY <3>1 DEF DrainRead, DrainForwardOk, IInv, TypeOK, DrainRec
    <3>2. CASE DrainPick \/ DrainUnreadable \/ DrainForwardErr \/ DrainStop
      BY <3>2, IdleTypes DEF DrainPick, DrainUnreadable, DrainForwardErr, DrainStop, IdleDrain
    <3> QED  BY <1>7, <3>1, <3>2
  <2> QED  BY <2>1, <2>2
<1>8. ASSUME NEW w \in Writers, NEW p \in Payloads, PushFull(w, p)
      PROVE  UNCHANGED <<mode, otlp, tmp, pending, push, total_bytes, drain, spent>>
  BY <1>8 DEF PushFull, disk, state
<1>9. ASSUME DrainIdle \/ UNCHANGED vars
      PROVE  UNCHANGED <<mode, otlp, tmp, pending, push, total_bytes, drain, spent>>
  BY <1>9 DEF DrainIdle, vars, disk, state
<1> QED
  BY <1>1, <1>2, <1>3, <1>4, <1>5, <1>6, <1>7, <1>8, <1>9 DEF Next, DrainStep

\* The empty directory of a first start.
LEMMA InitRoom == Init => SizeInv /\ RoomInv
<1> SUFFICES ASSUME Init PROVE SizeInv /\ RoomInv
  OBVIOUS
<1>1. DOMAIN otlp = {} /\ DOMAIN tmp = {} /\ DOMAIN pending = {}
  BY EmptyFiles DEF Init
<1>2. SizeInv
  BY <1>1, IdleTypes DEF Init, SizeInv, Active, Writing
<1>3. NBytes(Lengths(otlp)) = 0 /\ NBytes(tmp) = 0
  BY <1>1, NBytesEmpty DEF Lengths
<1>4. mode = "down" /\ spent.faults = 0 /\ 0 * MaxBytes + MaxBytes = MaxBytes /\ 0 <= MaxBytes
  BY SpoolAssumption DEF Init
<1> QED  BY <1>2, <1>3, <1>4 DEF RoomInv

\* The directory stays within one cap's worth and one more for each failing file
\* operation, whatever the interleaving of pushes and drain, through crashes,
\* power losses and recoveries.
THEOREM DirectoryBounded == Spec => []DiskBounded
<1> DEFINE J == IInv /\ AccountInv /\ SizeInv /\ RoomInv
<1>1. Init => J
  BY InitIInv, InitAccount, InitRoom
<1>2. J /\ [Next]_vars => J'
  BY NextIInv, AccountStep, SizeStep, RoomStep
<1>3. J => DiskBounded
  <2> SUFFICES ASSUME J PROVE DiskBounded
    OBVIOUS
  <2>1. NBytes(Lengths(otlp)) + NBytes(tmp) <= spent.faults * MaxBytes + MaxBytes
    BY RoomBounds
  <2>2. spent.faults \in Nat
    BY DEF IInv, TypeOK, SpentRec
  <2> QED  BY <2>1, <2>2, OneMoreFault DEF DiskBounded
<1> QED  BY <1>1, <1>2, <1>3, PTL DEF Spec
=============================================================================
