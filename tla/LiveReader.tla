------------------------------ MODULE LiveReader ------------------------------
(***************************************************************************)
(* A RecordIterator (crates/ogentic-audit-core/src/reader.rs) reading a    *)
(* log directory while a Writer works in it.  Each system call of          *)
(* next_record (open, read the header, stat, exists, read) is a step, so   *)
(* the writer may act between any two of them.                             *)
(***************************************************************************)
EXTENDS AuditWriter

\* A power loss ends the reader too: these behaviours have none.
ASSUME ReaderAssumption == "power_loss" \notin Faults

VARIABLES
  rpc,      \* the next system call of next_record, "idle" between calls
  rseg,     \* current_segment, -1 for None
  ropen,    \* current_file is Some
  rhdr,     \* header_verified
  roff,     \* current_offset, in chunks already passed
  rtorn,    \* whether the chunk to read was incomplete at the last stat
  yielded   \* history: what next_record returned, with its place

rvars == <<rpc, rseg, ropen, rhdr, roff, rtorn, yielded>>
lvars == <<vars, rvars>>

ReaderSteps == {"idle", "open", "header", "stat", "exists", "read"}

ReaderInit ==
  /\ rpc = "idle"
  /\ rseg = -1
  /\ ropen = FALSE
  /\ rhdr = FALSE
  /\ roff = 0
  /\ rtorn = FALSE
  /\ yielded = << >>

\* The caller asks for the next record.
NextRecord ==
  /\ rpc = "idle"
  /\ rpc' = IF ~ropen THEN "open" ELSE IF ~rhdr THEN "header" ELSE "stat"
  /\ UNCHANGED <<rseg, ropen, rhdr, roff, rtorn, yielded>>

\* File::open of the next segment; without one the call returns Ok(None).
OpenSegment ==
  /\ rpc = "open"
  /\ IF rseg + 1 \in entries
     THEN /\ rseg' = rseg + 1
          /\ ropen' = TRUE
          /\ rhdr' = FALSE
          /\ roff' = 1
          /\ rpc' = "header"
     ELSE /\ rpc' = "idle"
          /\ UNCHANGED <<rseg, ropen, rhdr, roff>>
  /\ UNCHANGED <<rtorn, yielded>>

\* read_header; an incomplete header ends the call with InvalidHeader.
ReadHeader ==
  /\ rpc = "header"
  /\ rhdr' = HasHeader(file[rseg])
  /\ rpc' = IF HasHeader(file[rseg]) THEN "stat" ELSE "idle"
  /\ UNCHANGED <<rseg, ropen, roff, rtorn, yielded>>

\* file.metadata(): at the end of the file look for a next segment, else read.
StatLength ==
  /\ rpc = "stat"
  /\ rtorn' = (roff < Len(file[rseg]) /\ file[rseg][roff + 1].kind = "torn")
  /\ rpc' = IF roff >= Len(file[rseg]) THEN "exists" ELSE "read"
  /\ UNCHANGED <<rseg, ropen, rhdr, roff, yielded>>

\* Wrong variant of CheckNextSegment: header_verified is not reset.
CheckNextKeepsHeader ==
  /\ rpc = "exists"
  /\ rseg < MaxIndex
  /\ IF rseg + 1 \in entries
     THEN ropen' = FALSE /\ rpc' = "open"
     ELSE rpc' = "idle" /\ UNCHANGED ropen
  /\ UNCHANGED <<rseg, rhdr, roff, rtorn, yielded>>

\* Wrong variant of CheckNextSegment: the segment is left at its current end.
CheckNextAlwaysLeaves ==
  /\ rpc = "exists"
  /\ rseg < MaxIndex
  /\ ropen' = FALSE
  /\ rhdr' = FALSE
  /\ rpc' = IF rseg + 1 \in entries THEN "open" ELSE "idle"
  /\ UNCHANGED <<rseg, roff, rtorn, yielded>>

\* next_path.exists(): leave this segment for good, or return Ok(None).  The
\* model stops before the last index, where segment_index + 1 leaves u16.
CheckNextSegment ==
  /\ rpc = "exists"
  /\ rseg < MaxIndex
  /\ IF rseg + 1 \in entries
     THEN ropen' = FALSE /\ rhdr' = FALSE /\ rpc' = "open"
     ELSE rpc' = "idle" /\ UNCHANGED <<ropen, rhdr>>
  /\ UNCHANGED <<rseg, roff, rtorn, yielded>>

AtRecord == roff < Len(file[rseg]) /\ file[rseg][roff + 1].kind = "record"

\* Wrong variant of ReadRecord: current_offset is not advanced.
ReadRecordStays ==
  /\ rpc = "read"
  /\ AtRecord
  /\ yielded' = Append(yielded, <<rseg, roff + 1, file[rseg][roff + 1]>>)
  /\ rpc' = "idle"
  /\ UNCHANGED <<rseg, ropen, rhdr, roff, rtorn>>

\* read_record yields the complete record at the offset.
ReadRecord ==
  /\ rpc = "read"
  /\ AtRecord
  /\ yielded' = Append(yielded, <<rseg, roff + 1, file[rseg][roff + 1]>>)
  /\ roff' = roff + 1
  /\ rpc' = "idle"
  /\ UNCHANGED <<rseg, ropen, rhdr, rtorn>>

\* Wrong variant of ReadFails: the frame that failed is passed over.
ReadFailsSkips ==
  /\ rpc = "read"
  /\ rtorn \/ ~AtRecord
  /\ roff' = roff + 1
  /\ rpc' = "idle"
  /\ UNCHANGED <<rseg, ropen, rhdr, rtorn, yielded>>

\* read_record fails (TornTail, Decode or I/O); the offset does not move.  A
\* frame that was incomplete at the stat is torn even if it is whole by now.
ReadFails ==
  /\ rpc = "read"
  /\ rtorn \/ ~AtRecord
  /\ rpc' = "idle"
  /\ UNCHANGED <<rseg, ropen, rhdr, roff, rtorn, yielded>>

ReaderStep ==
  \/ OpenSegment
  \/ ReadHeader
  \/ StatLength
  \/ CheckNextSegment
  \/ ReadRecord
  \/ ReadFails

WriterNext == Next /\ UNCHANGED rvars
ReaderNext == (NextRecord \/ ReaderStep) /\ UNCHANGED vars

LiveInit == Init /\ ReaderInit
LiveNext == WriterNext \/ ReaderNext

LiveSpec == LiveInit /\ [][LiveNext]_lvars

\* The reader keeps polling and its system calls return, an operation of the
\* writer runs to its end, and the application opens its log again.
LiveFairSpec ==
  /\ LiveSpec
  /\ WF_lvars(ReaderNext)
  /\ WF_lvars(OpStep /\ UNCHANGED rvars)
  /\ WF_lvars(Open /\ UNCHANGED rvars)

-----------------------------------------------------------------------------
(* Properties. *)

\* The type invariant of the iterator: its offset is past the header whenever
\* a segment is current.
ReaderTypeOK ==
  /\ rpc \in ReaderSteps
  /\ rseg \in -1..MaxIndex
  /\ ropen \in BOOLEAN
  /\ rhdr \in BOOLEAN
  /\ rhdr => ropen
  /\ roff \in Nat
  /\ ropen => roff >= 1 /\ rseg \in entries
  /\ rtorn \in BOOLEAN
  /\ yielded \in Seq(Idx \X Nat \X Chunk)

Before(a, b) == a[1] < b[1] \/ (a[1] = b[1] /\ a[2] < b[2])

\* next_record yields records in append order, none of them twice and, within a
\* segment, without a gap, whatever the writer and its restarts do in between.
YieldedInOrder ==
  \A n \in 1..Len(yielded) :
    /\ \A m \in 1..(n - 1) : Before(yielded[m], yielded[n])
    /\ \A p \in 2..(yielded[n][2] - 1) :
         \E m \in 1..(n - 1) : yielded[m][1] = yielded[n][1] /\ yielded[m][2] = p

\* A record the reader returned is never taken back: the repair of a torn tail
\* removes nothing that next_record has yielded.
YieldedStable ==
  \A n \in 1..Len(yielded) :
    LET s == file[yielded[n][1]]
        p == yielded[n][2] IN
    p <= Len(s) /\ s[p] = yielded[n][3]

\* The iterator yields every record of the log on its way: when it returns one,
\* it has returned each record that stands before it.
NoRecordSkipped ==
  \A n \in 1..Len(yielded) : \A i \in entries : \A p \in 2..Len(file[i]) :
    file[i][p].kind = "record" /\ Before(<<i, p>>, yielded[n]) =>
      \E m \in 1..n : yielded[m] = <<i, p, file[i][p]>>

\* A reader that keeps polling draws level with the writer again and again: it
\* has returned every record that append acknowledged in the first segment, or
\* has gone on to the next one.  (A segment takes finitely many records.)
CatchesUp == []<>(Len(yielded) >= Len(acked[0]) - 1 \/ rseg > 0)

=============================================================================
