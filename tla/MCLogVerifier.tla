---------------------------- MODULE MCLogVerifier ----------------------------
(* Instances of LogVerifier for TLC: three inputs of one size, the second one *)
(* stamped back by exactly the drift the verifier tolerates, the third one    *)
(* further back.                                                              *)
EXTENDS LogVerifier

CONSTANTS now, edge, past

MCRecordSize == [v \in Inputs |-> 1]
MCWallClock ==
  [v \in Inputs |-> CASE v = now -> 2 [] v = edge -> 1 [] v = past -> 0]

\* Without power losses nothing reads report, synced, dirSynced, acked or
\* flushed: states that differ in them only are one state here.
MCView == <<file, entries, pc, cur, arg, vvars>>
==============================================================================
