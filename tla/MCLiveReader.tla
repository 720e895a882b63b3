----------------------------- MODULE MCLiveReader -----------------------------
(* An instance of LiveReader for TLC with records of one size.                *)
EXTENDS LiveReader

CONSTANTS small, big

MCRecordSize == [v \in Inputs |-> IF v = big THEN 3 ELSE 1]
=============================================================================
