------------------------------ MODULE MCSpool ------------------------------
(* Instances of Spool for TLC. *)
EXTENDS Spool, TLC

CONSTANTS w1, w2, p1, p2, p3, p4, p5

MCSize2 == p1 :> 1 @@ p2 :> 2

\* Two small payloads fit together and a large one beside none.  What a failing
\* operation leaves behind can fill the cap; all of them come to more than three
\* caps, what two failures allow.
MCSize == p1 :> 1 @@ p2 :> 1 @@ p3 :> 2 @@ p4 :> 2 @@ p5 :> 2

\* The writers are interchangeable tasks, as are payloads of one size.
WriterSymmetry == Permutations({w1, w2})
SizeSymmetry   == WriterSymmetry \cup Permutations({p1, p2}) \cup Permutations({p3, p4, p5})
=============================================================================
