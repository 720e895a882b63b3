----------------------------- MODULE MCRelease -----------------------------
(* An instance of Release for TLC: one file, two contents, releases without a *)
(* log, with the whole sealed log, and with a named head.                     *)
EXTENDS Release

S(i, f, l, h, e, s) ==
  [id |-> i, files |-> f, log |-> l, head |-> h, elide |-> e, statement |-> s]

MCSpecs == {S("r1", Files, TRUE, 0, {}, FALSE), S("r1", Files, TRUE, 1, {1}, FALSE),
            S("r1", Files, TRUE, 2, {2}, TRUE), S("r2", {}, FALSE, 0, {}, FALSE)}

MCChanges == (Files \X {"c1", "c2", Absent, Link})
               \cup {<<Twin, "c1">>, <<Litter, "c1">>, <<Instructions, "c1">>, <<StatementPath, Absent>>}

O(p, k, a, e) == [pin |-> p, knows |-> k, allow |-> a, expect |-> e]

MCOptions == {O("signer", FALSE, FALSE, Absent), O("signer", TRUE, FALSE, Absent),
              O("signer", TRUE, TRUE, "r1"), O("other", FALSE, FALSE, Absent),
              O("none", FALSE, FALSE, Absent)}
=============================================================================
