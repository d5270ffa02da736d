------------------------------- MODULE Outbox -------------------------------
(***************************************************************************)
(* What the spool promises its callers, with no files, sequence numbers,   *)
(* locks or byte counts: a payload the sender was told is "accepted" is    *)
(* durable until the destination has it (src/src/spool.rs, lines 3-7).     *)
(*                                                                         *)
(*   durable    payloads on stable storage                                 *)
(*   accepted   payloads `push` has answered Ok for                        *)
(*   delivered  payloads the destination has received at least once        *)
(*                                                                         *)
(* A crash is a stuttering step: nothing listed here may be lost by one.   *)
(***************************************************************************)
CONSTANT Payloads

VARIABLES durable, accepted, delivered

outboxVars == <<durable, accepted, delivered>>

OutboxInit == /\ durable = {}
              /\ accepted = {}
              /\ delivered = {}

\* The payload reaches stable storage, before anybody is told about it.
Store(p) == /\ p \notin durable
            /\ durable' = durable \cup {p}
            /\ UNCHANGED <<accepted, delivered>>

\* The sender is told "accepted".
Accept(p) == /\ p \in durable
             /\ accepted' = accepted \cup {p}
             /\ UNCHANGED <<durable, delivered>>

\* The destination receives the payload; it may receive it again.
Deliver(p) == /\ p \in durable
              /\ delivered' = delivered \cup {p}
              /\ UNCHANGED <<durable, accepted>>

\* Storage is freed, of a delivered payload only.
Discard(p) == /\ p \in durable \cap delivered
              /\ durable' = durable \ {p}
              /\ UNCHANGED <<accepted, delivered>>

OutboxNext == \E p \in Payloads : Store(p) \/ Accept(p) \/ Deliver(p) \/ Discard(p)

OutboxSpec == OutboxInit /\ [][OutboxNext]_outboxVars
=============================================================================
