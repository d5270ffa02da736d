------------------------------ MODULE MCAgent ------------------------------
(* Instances of Agent for TLC. *)
EXTENDS Agent, TLC

CONSTANTS http, grpc, w1, w2, w3, p1, p2, p3, p4

\* Both transports: two workers compete for the requests of one of them.
MCVia  == p1 :> http @@ p2 :> http @@ p3 :> http @@ p4 :> grpc
MCPool == w1 :> http @@ w2 :> http @@ w3 :> grpc
MCSymmetry == Permutations({w1, w2}) \cup Permutations({p1, p2})

\* One transport: with one request running and one queued, the third waits.
MCViaHttp  == p1 :> http @@ p2 :> http @@ p3 :> http
MCPoolHttp == w1 :> http
=============================================================================
