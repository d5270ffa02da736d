----------------------------- MODULE MCMetrics -----------------------------
(* Instances of Metrics for TLC. *)
EXTENDS Metrics, TLC

CONSTANTS s1, s2, s3

\* Two fields stand for the eight: the fields are treated alike.
MCFields == {"events_in", "events_exported"}

SampleSymmetry == Permutations({s1, s2, s3})
=============================================================================
