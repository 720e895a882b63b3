--------------------------- MODULE MCSignedVerify ---------------------------
(* An instance of SignedVerify for TLC: records that fit twice into a segment *)
(* beside segment.finalized, one of them stamped too early by its clock.      *)
EXTENDS SignedVerify

CONSTANTS a, b, k1, k2, l1, l2

MCInputTs == [v \in Inputs |-> IF v = b THEN 0 ELSE 2]
MCRecordSize == [v \in Inputs |-> 1]

Opt(p, f, e, c) == [pinned |-> p, forensic |-> f, expect |-> e, checkpointSig |-> c]

MCOptions == {Opt({}, FALSE, NoInput, "none"), Opt({k1}, FALSE, l1, "good"),
              Opt({k1}, TRUE, NoInput, "good"), Opt({k2}, FALSE, NoInput, "bad")}

\* What neither a step nor a property looks at without a power loss.
MCView == <<file, entries, pc, cur, arg, saved, edited, chain, walk>>
=============================================================================
