---------------------------- MODULE MCAuditWriter ----------------------------
(* Instances of AuditWriter for TLC: a small record that fits twice into a    *)
(* segment, and a big one that fills a segment alone.                         *)
EXTENDS AuditWriterRefinement

CONSTANTS small, big

MCRecordSize == [v \in Inputs |-> IF v = big THEN 3 ELSE 1]
=============================================================================
