----------------------------- MODULE AuditWriter -----------------------------
(***************************************************************************)
(* The HMAC log writer (crates/ogentic-audit-core/src/writer.rs) and the   *)
(* directory of segment files it writes: open with the crash-recovery      *)
(* scan, append, rollover, flush, drop, and the failures that can fall     *)
(* between any two system calls.                                           *)
(*                                                                         *)
(* A segment file is a sequence of chunks: its header, then one chunk per  *)
(* framed record.  Bytes that do not frame (a partial write) are a Torn    *)
(* chunk, bytes that frame but whose HMAC fails (a tail of zeros) a Bad    *)
(* one.  An HMAC is named by what it commits to: the history of payloads   *)
(* up to and including the record, so two HMACs are equal iff the chains   *)
(* behind them are.                                                        *)
(***************************************************************************)
EXTENDS Integers, Sequences

CONSTANTS
  Keys,               \* key handles a caller may open the log with
  Inputs,             \* RecordInputs a caller may append
  NoInput,            \* the payload of a record that is not a caller's
  ReservedInputs,     \* the inputs whose event is "segment.finalized"
  RecordSize,         \* framed size of each input
  HeaderSize,         \* HEADER_TOTAL_LEN
  FinalizeSize,       \* framed size of a segment.finalized record
  Slack,              \* what a size estimate adds for the widest integers
  SegmentSize,        \* WriterConfig::segment_size_bytes
  FinalizeOnRollover, \* WriterConfig::finalize_on_rollover
  MaxIndex,           \* u16::MAX: the last segment index
  NameLimit,          \* 9999: the last index a four-digit file name holds
  MaxChunks,          \* bound of the model: chunks in one segment file
  Faults              \* the failures that may happen

FaultKinds ==
  { "kill",         \* the process dies between two system calls
    "power_loss",   \* the machine loses what was not synced
    "zero_tail",    \* a power loss may leave a tail of zero bytes
    "short_write",  \* write_all fails after some of the bytes
    "sync",         \* full_sync fails
    "create" }      \* opening the next segment or writing its header fails

ASSUME WriterAssumption ==
  /\ Keys # {}
  /\ NoInput \notin Inputs
  /\ ReservedInputs \subseteq Inputs
  /\ RecordSize \in [Inputs -> Nat \ {0}]
  /\ HeaderSize \in Nat \ {0}
  /\ FinalizeSize \in Nat \ {0}
  /\ Slack \in Nat
  /\ SegmentSize \in Nat
  /\ FinalizeOnRollover \in BOOLEAN
  /\ MaxIndex \in Nat
  /\ NameLimit \in Nat
  /\ MaxChunks \in Nat \ {0, 1}
  /\ Faults \subseteq FaultKinds

VARIABLES
  file,     \* contents of each segment file, as the page cache has them
  entries,  \* the segment files the directory holds
  synced,   \* how many chunks of each file are on stable storage
  dirSynced,\* the directory entries on stable storage
  pc,       \* the next system call of the writer, "closed" without one
  cur,      \* SegmentState: the segment being written
  arg,      \* the input of the append in progress
  report,   \* what the last Writer::open did or why it refused
  acked,    \* history: what callers were told each segment holds
  flushed   \* history: acked at the last successful flush

disk == <<file, entries, synced, dirSynced>>
vars == <<file, entries, synced, dirSynced, pc, cur, arg, report, acked, flushed>>

-----------------------------------------------------------------------------
(* Records, headers and files. *)

Idx == 0..MaxIndex

Finalized == "segment.finalized"

Datum == [event     : {"genesis", "app", Finalized},
          input     : Inputs \cup {NoInput},
          records   : Nat,
          record_id : Nat,
          key_id    : Keys]

Hash == Seq(Datum)

NoHash == << >>

Header(i, k, prev) ==
  [kind |-> "header", index |-> i, key_id |-> k, prev_final |-> prev,
   end |-> HeaderSize]

Record(d, prev, e) ==
  [kind |-> "record", datum |-> d, prev_hash |-> prev, end |-> e]

Torn == [kind |-> "torn"]
Bad  == [kind |-> "bad"]

Chunk ==
  [kind : {"header"}, index : Idx, key_id : Keys, prev_final : Hash, end : Nat]
    \cup [kind : {"record"}, datum : Datum, prev_hash : Hash, end : Nat]
    \cup {Torn, Bad}

\* sign_bytes over a record payload: its prev_hash and its fields.
Mac(prev, d) == Append(prev, d)

\* The chain start of segment 0, sign_bytes over the genesis header.
GenesisMac(k) ==
  << [event |-> "genesis", input |-> NoInput, records |-> 0, record_id |-> 0,
      key_id |-> k] >>

\* The HMAC a record that follows the header h must carry as prev_hash.
ChainStart(h) == IF h.index = 0 THEN GenesisMac(h.key_id) ELSE h.prev_final

\* The HMAC the chunk c leaves behind for its successor.
ChainAfter(c) ==
  IF c.kind = "header" THEN ChainStart(c) ELSE Mac(c.prev_hash, c.datum)

EventOf(v) == IF v \in ReservedInputs THEN Finalized ELSE "app"

IsFinalize(c) == c.kind = "record" /\ c.datum.event = Finalized

HasHeader(s) == s # << >> /\ s[1].kind = "header"

\* A record that frames, whose HMAC verifies under k and whose prev_hash is
\* the HMAC of the chunk before it.
Chained(s, j, k) ==
  /\ s[j].kind = "record"
  /\ s[j].datum.key_id = k
  /\ s[j].prev_hash = ChainAfter(s[j-1])

\* scan_segment_for_recovery: the walk stops before the first chunk that is
\* not a verified, chained record.
ScanStop(s, k) ==
  CHOOSE n \in 1..Len(s) :
    /\ \A j \in 2..n : Chained(s, j, k)
    /\ n < Len(s) => ~Chained(s, n + 1, k)

\* Wrong variant of Refusal: a torn tail is taken for tampering.
RefusalOfTorn(s, k) ==
  IF ~HasHeader(s) THEN "HeaderCorrupt"
  ELSE IF s[1].key_id # k THEN "KeyIdMismatch"
  ELSE IF ScanStop(s, k) = Len(s) THEN "none" ELSE "HmacMismatch"

\* The reason the scan of file s with key k refuses, or "none".
Refusal(s, k) ==
  IF ~HasHeader(s) THEN "HeaderCorrupt"
  ELSE IF s[1].key_id # k THEN "KeyIdMismatch"
  ELSE LET n == ScanStop(s, k) IN
       IF n = Len(s) \/ s[n + 1].kind = "torn" THEN "none"
       ELSE IF s[n + 1].kind = "record" /\ s[n + 1].datum.key_id = k
            THEN "ChainBreak"
       ELSE "HmacMismatch"

\* Wrong variant of Intact: the repair cuts at the start of the last good record.
IntactShort(s) ==
  IF ~HasHeader(s) THEN << >>
  ELSE LET n == ScanStop(s, s[1].key_id) IN
       SubSeq(s, 1, IF n < Len(s) /\ n > 1 THEN n - 1 ELSE n)

\* The chunks of s that a scan of it would accept, whoever opens it.
Intact(s) == IF HasHeader(s) THEN SubSeq(s, 1, ScanStop(s, s[1].key_id)) ELSE << >>

IsPrefixOf(s, t) == Len(s) <= Len(t) /\ \A j \in 1..Len(s) : s[j] = t[j]

\* The segments list_segment_indices finds: a name with more than four digits
\* does not parse.
Visible == {i \in entries : i <= NameLimit}

IsLatest(i) == i \in Visible /\ \A j \in Visible : j <= i

-----------------------------------------------------------------------------
(* Writer state. *)

\* Wrong variant of SegmentState: counting starts again at every resume.
SegmentStateRestarted(i, k, s) ==
  [index |-> i, key_id |-> k, last_hmac |-> ChainAfter(s[Len(s)]),
   next_record_id |-> 0, record_count |-> 0, bytes_written |-> s[Len(s)].end]

\* The writer's view of segment i, whose verified chunks are s.
SegmentState(i, k, s) ==
  LET last == s[Len(s)] IN
  [index          |-> i,
   key_id         |-> k,
   last_hmac      |-> ChainAfter(last),
   next_record_id |-> IF last.kind = "record" THEN last.datum.record_id + 1 ELSE 0,
   record_count   |-> Len(s) - 1,
   bytes_written  |-> last.end]

NoSegment ==
  [index |-> 0, key_id |-> CHOOSE k \in Keys : TRUE, last_hmac |-> NoHash,
   next_record_id |-> 0, record_count |-> 0, bytes_written |-> 0]

OpenSteps   == {"genesis", "open_create", "open_header"}
AppendSteps == {"fin", "fin_write", "fin_sync", "create", "header", "rec", "rec_write"}
Steps       == {"closed", "ready", "flush_dir"} \cup OpenSteps \cup AppendSteps

Reports == {"None", "Fresh", "Resumed", "Repaired", "OpenedNextAfterFinalized",
            "HeaderCorrupt", "KeyIdMismatch", "HmacMismatch", "ChainBreak"}

\* An operation returns an error: the writer stays open as it is, an open
\* yields no writer.
Fail ==
  /\ pc' = IF pc \in OpenSteps THEN "closed" ELSE "ready"
  /\ cur' = IF pc \in OpenSteps THEN NoSegment ELSE cur
  /\ arg' = NoInput
  /\ UNCHANGED <<disk, report, acked, flushed>>

Init ==
  /\ file = [i \in Idx |-> << >>]
  /\ entries = {}
  /\ synced = [i \in Idx |-> 0]
  /\ dirSynced = {}
  /\ pc = "closed"
  /\ cur = NoSegment
  /\ arg = NoInput
  /\ report = "None"
  /\ acked = [i \in Idx |-> << >>]
  /\ flushed = [i \in Idx |-> << >>]

-----------------------------------------------------------------------------
(* Writer::with_config. *)

\* SegmentState::create: the file of segment 0 exists, still without bytes.
OpenFresh(k) ==
  /\ pc = "closed"
  /\ Visible = {}
  /\ file' = [file EXCEPT ![0] = << >>]
  /\ entries' = entries \cup {0}
  /\ synced' = [synced EXCEPT ![0] = 0]
  /\ cur' = [NoSegment EXCEPT !.key_id = k]
  /\ pc' = "genesis"
  /\ UNCHANGED <<dirSynced, arg, report, acked, flushed>>

\* The genesis header is written and the writer returned.
GenesisHeader ==
  LET s == << Header(0, cur.key_id, NoHash) >> IN
  /\ pc = "genesis"
  /\ file' = [file EXCEPT ![0] = s]
  /\ cur' = SegmentState(0, cur.key_id, s)
  /\ acked' = [acked EXCEPT ![0] = s]
  /\ report' = "Fresh"
  /\ pc' = "ready"
  /\ UNCHANGED <<entries, synced, dirSynced, arg, flushed>>

\* The scan of the latest segment refuses to extend it.
OpenRefused(k) ==
  \E i \in Visible :
    /\ pc = "closed"
    /\ IsLatest(i)
    /\ Refusal(file[i], k) # "none"
    /\ report' = Refusal(file[i], k)
    /\ UNCHANGED <<disk, pc, cur, arg, acked, flushed>>

\* What callers rely on in segment j after an open: all that the scan finds
\* there, never less than they were told before.
Relied(j) ==
  LET s == Intact(file[j]) IN IF IsPrefixOf(acked[j], s) THEN s ELSE acked[j]

\* The scan accepts the latest segment i; a torn tail is cut off and the cut
\* synced (truncate_to).
Recover(i, k) ==
  LET s == Intact(file[i]) IN
  /\ pc = "closed"
  /\ IsLatest(i)
  /\ Refusal(file[i], k) = "none"
  /\ file' = [file EXCEPT ![i] = s]
  /\ synced' = IF s = file[i] THEN synced ELSE [synced EXCEPT ![i] = Len(s)]
  /\ cur' = SegmentState(i, k, s)
  /\ acked' = [j \in Idx |-> Relied(j)]
  /\ UNCHANGED <<entries, dirSynced, arg, flushed>>

\* truncate_to cuts the torn tail off but its full_sync fails, and so does open.
RepairFails(k) ==
  \E i \in Visible :
    LET s == Intact(file[i]) IN
    /\ "sync" \in Faults
    /\ pc = "closed"
    /\ IsLatest(i)
    /\ Refusal(file[i], k) = "none"
    /\ s # file[i]
    /\ file' = [file EXCEPT ![i] = s]
    /\ synced' = [synced EXCEPT ![i] = IF @ > Len(s) THEN Len(s) ELSE @]
    /\ UNCHANGED <<entries, dirSynced, pc, cur, arg, report, acked, flushed>>

\* Wrong variant of OpenResume: a finalized segment is resumed in place.
OpenResumeAlways(k) ==
  \E i \in Visible :
    /\ Recover(i, k)
    /\ report' = IF file'[i] = file[i] THEN "Resumed" ELSE "Repaired"
    /\ pc' = "ready"

\* reopen_segment_for_append: resume in place.
OpenResume(k) ==
  \E i \in Visible :
    /\ Recover(i, k)
    /\ ~IsFinalize(file'[i][Len(file'[i])])
    /\ report' = IF file'[i] = file[i] THEN "Resumed" ELSE "Repaired"
    /\ pc' = "ready"

\* The latest segment was closed: open the next one.
OpenAfterFinalized(k) ==
  \E i \in Visible :
    /\ Recover(i, k)
    /\ IsFinalize(file'[i][Len(file'[i])])
    /\ pc' = "open_create"
    /\ UNCHANGED report

-----------------------------------------------------------------------------
(* Writer::append, rollover and append_framed. *)

\* Wrong variant of NeedsRollover: no room is kept for segment.finalized.
NeedsRolloverLate(v) ==
  /\ FinalizeOnRollover
  /\ cur.record_count > 0
  /\ cur.bytes_written + (RecordSize[v] + Slack) > SegmentSize

\* The conservative size check before each append.
NeedsRollover(v) ==
  /\ FinalizeOnRollover
  /\ cur.record_count > 0
  /\ cur.bytes_written + (RecordSize[v] + Slack) + (FinalizeSize + Slack) > SegmentSize

\* A call of append with a valid input.  MaxChunks bounds the model.
AppendCall(v) ==
  /\ pc = "ready"
  /\ Len(file[cur.index]) < MaxChunks
  /\ arg' = v
  /\ pc' = IF NeedsRollover(v) THEN "fin" ELSE "rec"
  /\ UNCHANGED <<disk, cur, report, acked, flushed>>

\* Wrong variant of BeginWrite: the file is not positioned at its end.
BeginWriteOver ==
  /\ pc \in {"fin", "rec"}
  /\ file' = [file EXCEPT ![cur.index] = [@ EXCEPT ![Len(@)] = Torn]]
  /\ pc' = IF pc = "fin" THEN "fin_write" ELSE "rec_write"
  /\ UNCHANGED <<entries, synced, dirSynced, cur, arg, report, acked, flushed>>

\* write_all has put some of the frame's bytes at the end of the file.
BeginWrite ==
  /\ pc \in {"fin", "rec"}
  /\ file' = [file EXCEPT ![cur.index] = Append(@, Torn)]
  /\ pc' = IF pc = "fin" THEN "fin_write" ELSE "rec_write"
  /\ UNCHANGED <<entries, synced, dirSynced, cur, arg, report, acked, flushed>>

\* Wrong variant of Advanced: last_hmac is not updated.
AdvancedStale(c, d, size) ==
  [index |-> c.index, key_id |-> c.key_id, last_hmac |-> c.last_hmac,
   next_record_id |-> c.next_record_id + 1, record_count |-> c.record_count + 1,
   bytes_written |-> c.bytes_written + size]

\* The SegmentState c once a record with fields d is in the file.
Advanced(c, d, size) ==
  [index          |-> c.index,
   key_id         |-> c.key_id,
   last_hmac      |-> Mac(c.last_hmac, d),
   next_record_id |-> c.next_record_id + 1,
   record_count   |-> c.record_count + 1,
   bytes_written  |-> c.bytes_written + size]

\* append_framed returns: the frame with fields d and the given size is
\* complete, its caller relies on it where it stands, and the writer's
\* bookkeeping follows it.
AppendFramed(d, size) ==
  LET i == cur.index
      n == Len(file[i])
      c == Record(d, cur.last_hmac, cur.bytes_written + size) IN
  /\ file' = [file EXCEPT ![i] = [@ EXCEPT ![n] = c]]
  /\ cur' = Advanced(cur, d, size)
  /\ acked' = [acked EXCEPT ![i] = file'[i]]

\* append returns the record's id.
FinishRecord ==
  /\ pc = "rec_write"
  /\ AppendFramed([event |-> EventOf(arg), input |-> arg, records |-> 0,
                   record_id |-> cur.next_record_id, key_id |-> cur.key_id],
                  RecordSize[arg])
  /\ pc' = "ready"
  /\ arg' = NoInput
  /\ UNCHANGED <<entries, synced, dirSynced, report, flushed>>

\* rollover: the segment.finalized record is written.
FinishFinalize ==
  /\ pc = "fin_write"
  /\ AppendFramed([event |-> Finalized, input |-> NoInput,
                   records |-> cur.record_count,
                   record_id |-> cur.next_record_id, key_id |-> cur.key_id],
                  FinalizeSize)
  /\ pc' = "fin_sync"
  /\ UNCHANGED <<entries, synced, dirSynced, arg, report, flushed>>

\* Wrong variant of SyncFinalized: the finalized segment is not synced.
SyncFinalizedSkipped ==
  /\ pc = "fin_sync"
  /\ pc' = "create"
  /\ UNCHANGED <<disk, cur, arg, report, acked, flushed>>

\* rollover: full_sync of the finalized segment.
SyncFinalized ==
  /\ pc = "fin_sync"
  /\ synced' = [synced EXCEPT ![cur.index] = Len(file[cur.index])]
  /\ pc' = "create"
  /\ UNCHANGED <<file, entries, dirSynced, cur, arg, report, acked, flushed>>

\* Wrong variant of CreateNext: the index is added to without a check.
CreateUnchecked ==
  LET i == cur.index + 1 IN
  /\ pc \in {"create", "open_create"}
  /\ file' = [file EXCEPT ![i] = << >>]
  /\ entries' = entries \cup {i}
  /\ synced' = [synced EXCEPT ![i] = 0]
  /\ pc' = IF pc = "create" THEN "header" ELSE "open_header"
  /\ UNCHANGED <<dirSynced, cur, arg, report, acked, flushed>>

\* SegmentState::create_next opens the next file, truncating whatever has its
\* name, in a rollover or in an open after a finalized segment.
CreateNext ==
  LET i == cur.index + 1 IN
  /\ pc \in {"create", "open_create"}
  /\ cur.index < MaxIndex
  /\ file' = [file EXCEPT ![i] = << >>]
  /\ entries' = entries \cup {i}
  /\ synced' = [synced EXCEPT ![i] = 0]
  /\ pc' = IF pc = "create" THEN "header" ELSE "open_header"
  /\ UNCHANGED <<dirSynced, cur, arg, report, acked, flushed>>

\* checked_add on the segment index fails.
IndexOverflow ==
  /\ pc \in {"create", "open_create"}
  /\ cur.index = MaxIndex
  /\ Fail

\* SegmentState::create_next writes the header; the new segment is current.
WriteHeader ==
  LET i == cur.index + 1
      s == << Header(i, cur.key_id, cur.last_hmac) >> IN
  /\ pc \in {"header", "open_header"}
  /\ file' = [file EXCEPT ![i] = s]
  /\ cur' = SegmentState(i, cur.key_id, s)
  /\ acked' = [acked EXCEPT ![i] = s]
  /\ pc' = IF pc = "header" THEN "rec" ELSE "ready"
  /\ report' = IF pc = "header" THEN report ELSE "OpenedNextAfterFinalized"
  /\ UNCHANGED <<entries, synced, dirSynced, arg, flushed>>

-----------------------------------------------------------------------------
(* Writer::flush and the end of a writer. *)

\* Wrong variant of FlushFile: the segment file is not synced.
FlushFileSkipped ==
  /\ pc = "ready"
  /\ pc' = "flush_dir"
  /\ UNCHANGED <<disk, cur, arg, report, acked, flushed>>

\* flush: full_sync of the current segment file.
FlushFile ==
  /\ pc = "ready"
  /\ synced' = [synced EXCEPT ![cur.index] = Len(file[cur.index])]
  /\ pc' = "flush_dir"
  /\ UNCHANGED <<file, entries, dirSynced, cur, arg, report, acked, flushed>>

\* Wrong variant of FlushDir: the directory is not synced.
FlushDirSkipped ==
  /\ pc = "flush_dir"
  /\ flushed' = acked
  /\ pc' = "ready"
  /\ UNCHANGED <<disk, cur, arg, report, acked>>

\* flush: full_sync of the log directory; flush returns Ok.
FlushDir ==
  /\ pc = "flush_dir"
  /\ dirSynced' = entries
  /\ flushed' = acked
  /\ pc' = "ready"
  /\ UNCHANGED <<file, entries, synced, cur, arg, report, acked>>

\* The writer is dropped; nothing is written or synced on the way.
Close ==
  /\ pc = "ready"
  /\ pc' = "closed"
  /\ cur' = NoSegment
  /\ UNCHANGED <<disk, arg, report, acked, flushed>>

-----------------------------------------------------------------------------
(* Failures. *)

ShortWrite ==
  /\ "short_write" \in Faults
  /\ pc \in {"fin", "fin_write", "rec", "rec_write"}
  /\ Fail

SyncFails ==
  /\ "sync" \in Faults
  /\ pc \in {"fin_sync", "flush_dir"}
  /\ Fail

CreateFails ==
  /\ "create" \in Faults
  /\ pc \in {"genesis", "create", "header", "open_create", "open_header"}
  /\ Fail

\* The process dies: the page cache survives it.
Kill ==
  /\ "kill" \in Faults
  /\ pc \notin {"closed", "ready"}
  /\ pc' = "closed"
  /\ cur' = NoSegment
  /\ arg' = NoInput
  /\ UNCHANGED <<disk, report, acked, flushed>>

Unsynced == {i \in entries : synced[i] < Len(file[i])}

Tails == {<< >>, <<Torn>>} \cup (IF "zero_tail" \in Faults THEN {<<Bad>>} ELSE {})

\* The machine loses power.  Of an unsynced file a prefix survives, with or
\* without bytes of what followed; of the unsynced directory entries the ones
\* created first.  What is left is on stable storage.
PowerLoss ==
  /\ "power_loss" \in Faults
  /\ \E cut \in [Unsynced -> 0..MaxChunks], tail \in [Unsynced -> Tails],
        limit \in 0..(MaxIndex + 1) :
       /\ \A i \in Unsynced :
            /\ synced[i] <= cut[i]
            /\ cut[i] <= Len(file[i])
            /\ cut[i] = Len(file[i]) => tail[i] = << >>
       /\ entries' = dirSynced \cup {i \in entries : i < limit}
       /\ file' = [i \in Idx |->
                     IF i \notin entries' THEN << >>
                     ELSE IF i \in Unsynced THEN SubSeq(file[i], 1, cut[i]) \o tail[i]
                     ELSE file[i]]
  /\ synced' = [i \in Idx |-> Len(file'[i])]
  /\ dirSynced' = entries'
  /\ pc' = "closed"
  /\ cur' = NoSegment
  /\ arg' = NoInput
  /\ acked' = flushed
  /\ UNCHANGED <<report, flushed>>

-----------------------------------------------------------------------------

Open ==
  \E k \in Keys : OpenFresh(k) \/ OpenRefused(k) \/ OpenResume(k) \/ OpenAfterFinalized(k)

Next ==
  \/ Open
  \/ \E k \in Keys : RepairFails(k)
  \/ GenesisHeader
  \/ \E v \in Inputs : AppendCall(v)
  \/ BeginWrite
  \/ FinishRecord
  \/ FinishFinalize
  \/ SyncFinalized
  \/ CreateNext
  \/ IndexOverflow
  \/ WriteHeader
  \/ FlushFile
  \/ FlushDir
  \/ Close
  \/ ShortWrite
  \/ SyncFails
  \/ CreateFails
  \/ Kill
  \/ PowerLoss

Spec == Init /\ [][Next]_vars

-----------------------------------------------------------------------------
(* Properties. *)

\* What SegmentState holds.
CurType ==
  [index : Idx, key_id : Keys, last_hmac : Hash,
   next_record_id : Nat, record_count : Nat, bytes_written : Nat]

\* The type invariant: files hold headers, records and unusable bytes, only
\* existing entries are durable, and SegmentState is what writer.rs declares.
TypeOK ==
  /\ file \in [Idx -> Seq(Chunk)]
  /\ entries \subseteq Idx
  /\ synced \in [Idx -> Nat]
  /\ dirSynced \subseteq entries
  /\ pc \in Steps
  /\ cur \in CurType
  /\ arg \in Inputs \cup {NoInput}
  /\ report \in Reports
  /\ acked \in [Idx -> Seq(Chunk)]
  /\ flushed \in [Idx -> Seq(Chunk)]

\* As far as the file s frames without a torn or failing chunk, each record
\* carries the HMAC of its predecessor and its own position as record_id.
Chains(s) ==
  \A n \in 2..Len(s) :
    (\A m \in 2..n : s[m].kind = "record") =>
      /\ s[1].kind = "header"
      /\ Chained(s, n, s[1].key_id)
      /\ s[n].datum.record_id = n - 2

\* Whatever failed before, append never breaks the chain of a segment: in every
\* file the records chain from the header on, as far as they frame.
SegmentsChain == \A i \in Idx : Chains(file[i])

\* How many chunks of the current file append has finished writing.
Written ==
  IF pc \in {"fin_write", "rec_write"} THEN Len(file[cur.index]) - 1
  ELSE Len(file[cur.index])

\* While a writer is open, its SegmentState agrees with its file unless a write
\* failed: what it signs next follows what a scan of the file would find last.
WriterAgrees ==
  pc \notin {"closed", "genesis"} =>
    LET s == file[cur.index] IN
    /\ Written >= 1
    /\ s[1].kind = "header"
    /\ s[1].key_id = cur.key_id
    /\ (\A m \in 2..Written : s[m].kind = "record") =>
         /\ cur.last_hmac = ChainAfter(s[Written])
         /\ cur.next_record_id = Written - 1
         /\ cur.record_count = Written - 1
         /\ cur.bytes_written = s[Written].end

\* A segment with a header continues the segment before it: that one is whole,
\* ends in segment.finalized, and prev_final is the HMAC of that record under
\* the same key (the chain stays one chain across rollovers and restarts).
ChainLinked ==
  \A i \in entries \ {0} : HasHeader(file[i]) =>
    LET p == file[i - 1] IN
    /\ i - 1 \in entries
    /\ HasHeader(p)
    /\ Intact(p) = p
    /\ IsFinalize(p[Len(p)])
    /\ file[i][1].key_id = p[1].key_id
    /\ file[i][1].prev_final = ChainAfter(p[Len(p)])

\* What a successful flush covered stays in the files, at its place, through
\* crashes, repairs and everything appended afterwards (Writer::flush).
FlushedSurvives ==
  \A i \in Idx :
    /\ flushed[i] # << >> => i \in entries
    /\ IsPrefixOf(flushed[i], file[i])

\* Short of a power loss, what append returned Ok for stays in the files even
\* if it was never flushed and the process died.
AckedSurvives ==
  \A i \in Idx : IsPrefixOf(acked[i], file[i])

\* A segment outgrows segment_size_bytes only when a single oversized record
\* fills it (the estimate in append leaves room for segment.finalized).  The
\* last index has no next segment to roll over to.
SegmentBounded ==
  \A i \in Idx \ {MaxIndex} :
    LET s == Intact(file[i]) IN
    FinalizeOnRollover /\ Len(s) > 2 /\ ~(Len(s) = 3 /\ IsFinalize(s[3]))
      => s[Len(s)].end <= SegmentSize

\* Once a segment is finalized, subsequent appends go to the next one: nothing
\* follows a segment.finalized record in its file.
FinalizedIsLast ==
  \A i \in Idx \ {MaxIndex} : \A n \in 1..Len(file[i]) :
    IsFinalize(file[i][n]) => n = Len(file[i])

\* No step of the writer removes or rewrites a complete record: only a power
\* loss does (threat model, invariant 1).
RecordsImmutable ==
  [][ \/ \A i \in Idx : IsPrefixOf(Intact(file[i]), file'[i])
      \/ PowerLoss ]_vars

\* A crash never leaves a log that open refuses because of a header.
HeaderRecoverable == report # "HeaderCorrupt"

-----------------------------------------------------------------------------
(* Liveness. *)

OpStep ==
  \/ GenesisHeader \/ BeginWrite \/ FinishRecord \/ FinishFinalize \/ SyncFinalized
  \/ CreateNext \/ IndexOverflow \/ WriteHeader \/ FlushDir

\* An operation in progress runs on, and the application opens its log again.
Fairness == WF_vars(OpStep) /\ WF_vars(Open)

FairSpec == Spec /\ Fairness

Full == Len(file[MaxIndex]) > 0 /\ IsFinalize(file[MaxIndex][Len(file[MaxIndex])])

\* A closed log can be opened again: recovery yields a writer unless the last
\* segment index is used up.
Reopens == pc = "closed" ~> (pc = "ready" \/ Full)

=============================================================================
