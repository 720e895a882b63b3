------------------------- MODULE AuditWriterRefinement -------------------------
(* AuditWriter implements AuditLog: the log is what recovery would accept of  *)
(* the segment files, without segment.finalized records.                      *)
EXTENDS AuditWriter

\* The places in the segment s that hold a caller's record.
Callers(s) == {p \in 2..Len(s) : s[p].datum.input # NoInput}

\* The callers' records in the segments f, each with its place.
Placed(f) ==
  UNION {{<<i, p, f[i][p].datum.input>> : p \in Callers(f[i])} : i \in Idx}

Recovered == [i \in Idx |-> Intact(file[i])]

Abstract == INSTANCE AuditLog WITH log <- Placed(Recovered), durable <- Placed(flushed)

\* The segment files of a writer that may lose power or fail to create a file
\* behave as one append-only log with a durable prefix (Writer::open, append,
\* rollover and flush together).
ImplementsAuditLog == Abstract!LogSpec
=============================================================================
