---------------------------- MODULE SignedWriter ----------------------------
(***************************************************************************)
(* The Ed25519-signed log writer                                           *)
(* (crates/ogentic-audit-core/src/signed/writer.rs): open_inner with its   *)
(* recovery scan, append, rollover, seal, flush, and the failures between  *)
(* their system calls.                                                     *)
(*                                                                         *)
(* A segment file is a sequence of chunks: a header, then records, then    *)
(* perhaps bytes that do not frame.  A hash is named by what it commits    *)
(* to: the data of the header and records up to and including its own.     *)
(* A signature is named by the key that made it over an envelope.          *)
(***************************************************************************)
EXTENDS Integers, Sequences

CONSTANTS
  Keys,           \* public keys of the signers a caller may open with
  LogIds,         \* what getrandom may draw for a fresh log
  Inputs,         \* RecordInputs that pass validate
  NoInput,        \* the body of a record the writer makes itself
  InputTs,        \* ts_wall of each input, on the caller's clock
  RecordSize,     \* framed_len of each input
  OwnSize,        \* framed length of segment.finalized and log.sealed
  HeaderSize,     \* HEADER_LEN
  SegmentSize,    \* config.segment_size_bytes
  FinalizeOnRollover,
  MaxIndex,       \* u16::MAX
  NameLimit,      \* 9999: the last index list_segments recognises
  MaxChunks,      \* bound of the model: chunks in one segment file
  Faults          \* the failures that may happen

FaultKinds ==
  { "kill",        \* the process dies between two system calls
    "power_loss",  \* the machine loses what was not synced
    "short_write", \* write_all fails after some of the bytes
    "sync",        \* full_sync fails
    "create",      \* create_new or writing the header fails
    "sign" }       \* the signer refuses or is away

ASSUME SignedWriterAssumption ==
  /\ Keys # {} /\ LogIds # {}
  /\ NoInput \notin Inputs
  /\ InputTs \in [Inputs -> Nat]
  /\ RecordSize \in [Inputs -> Nat \ {0}]
  /\ OwnSize \in Nat \ {0}
  /\ HeaderSize \in Nat \ {0}
  /\ SegmentSize \in Nat
  /\ FinalizeOnRollover \in BOOLEAN
  /\ MaxIndex \in Nat
  /\ NameLimit \in Nat
  /\ MaxChunks \in Nat \ {0, 1}
  /\ Faults \subseteq FaultKinds

VARIABLES
  file,      \* contents of each segment file, as the page cache has them
  entries,   \* the segment files in the directory
  synced,    \* how many chunks of each file are on stable storage
  dirSynced, \* the directory entries on stable storage
  pc,        \* the writer's next system call, "closed" without a writer
  cur,       \* the SignedWriter: its segment, log_id, last_ts and sealed flag
  arg,       \* the input of the append in progress
  report,    \* what the last open did or why it refused
  acked,     \* history: what callers were told each segment holds
  flushed,   \* history: acked at the last flush that returned Ok
  sealAcked  \* history: seal has returned Ok for a segment no write had failed in

disk == <<file, entries, synced, dirSynced>>
history == <<acked, flushed, sealAcked>>
signedVars == <<disk, pc, cur, arg, report, history>>

-----------------------------------------------------------------------------
(* format.rs: headers, envelopes, hashes. *)

Idx == 0..MaxIndex

Finalized == "segment.finalized"
Sealed    == "log.sealed"
Structural == {Finalized, Sealed}

\* What a header or an envelope commits to.  The body is committed to through
\* body_hash; a segment.finalized body repeats prev_hash and counts the records.
Datum == [event : {"header", "app"} \cup Structural, log_id : LogIds,
          key_id : Keys, segment_index : Idx, record_id : Nat, ts_wall : Nat,
          body : Inputs \cup {NoInput}, records : Nat]

Hash == Seq(Datum)
ZeroHash == << >>
NoTs == -1

HeaderDatum(i, l, k) ==
  [event |-> "header", log_id |-> l, key_id |-> k, segment_index |-> i,
   record_id |-> 0, ts_wall |-> 0, body |-> NoInput, records |-> 0]

SignedHeader(i, l, k, prev) ==
  [kind |-> "header", datum |-> HeaderDatum(i, l, k), prev_hash |-> prev,
   end |-> HeaderSize]

\* A framed record: envelope, the signature over it by sig, and the body.
Frame(d, prev, k, e) ==
  [kind |-> "record", datum |-> d, prev_hash |-> prev, sig |-> k,
   body |-> "whole", end |-> e]

Torn == [kind |-> "torn"]

\* A body whose hash is the envelope's body_hash, one that was withheld, and one
\* that does not decode or has another hash.
BodyStates == {"whole", "elided", "changed"}

Chunk ==
  [kind : {"header"}, datum : Datum, prev_hash : Hash, end : Nat]
    \cup [kind : {"record"}, datum : Datum, prev_hash : Hash, sig : Keys,
          body : BodyStates, end : Nat]
    \cup {Torn}

\* chain_start of a header, record_hash of an envelope: both are SHA-256 over
\* bytes that hold the previous hash.
HashOf(c) == Append(c.prev_hash, c.datum)

HasHeader(s) == s # << >> /\ s[1].kind = "header"

IsPrefixOf(s, t) == Len(s) <= Len(t) /\ \A j \in 1..Len(s) : s[j] = t[j]

\* list_segments: the names with exactly four digits.
Listed == {i \in entries : i <= NameLimit}

IsLatest(i) == i \in Listed /\ \A j \in Listed : j <= i

-----------------------------------------------------------------------------
(* scan_segment. *)

\* The j-th chunk is a record that continues the chain at its own position.
Linked(s, j, i) ==
  /\ s[j].kind = "record"
  /\ s[j].prev_hash = HashOf(s[j-1])
  /\ s[j].datum.record_id = j - 2
  /\ s[j].datum.segment_index = i

\* The walk over the records of file s of segment i stops behind this chunk.
ScanStop(s, i) ==
  CHOOSE n \in 1..Len(s) :
    /\ \A j \in 2..n : Linked(s, j, i)
    /\ n < Len(s) => ~Linked(s, n + 1, i)

\* Why the scan of segment i of log l fails with key k, or "none".  Only the
\* last complete record's signature and body are checked.
ScanRefusal(s, i, l, k) ==
  IF ~HasHeader(s) THEN "HeaderCorrupt"
  ELSE IF s[1].datum.segment_index # i THEN "ChainBreak"
  ELSE IF s[1].datum.key_id # k THEN "KeyIdMismatch"
  ELSE IF s[1].datum.log_id # l THEN "LogIdMismatch"
  ELSE LET n == ScanStop(s, i) IN
       IF n < Len(s) /\ s[n + 1].kind # "torn" THEN "ChainBreak"
       ELSE IF n > 1 /\ (s[n].sig # k \/ s[n].body = "changed") THEN "SignatureInvalid"
       ELSE "none"

\* What a scan keeps of file s of segment i.
Intact(s, i) == IF HasHeader(s) THEN SubSeq(s, 1, ScanStop(s, i)) ELSE << >>

LastChunk(s) == s[Len(s)]

\* last_event and last_ts of a scan that kept s.
LastEvent(s) == LastChunk(s).datum.event
LastTs(s) == IF LastChunk(s).kind = "record" THEN LastChunk(s).datum.ts_wall ELSE NoTs

\* open_inner: the time a reopened writer continues from.  A header-only latest
\* segment takes it from the segment before.
TimeAnchor(i) ==
  LET s == Intact(file[i], i) IN
  IF Len(s) = 1 /\ i > 0 THEN LastTs(Intact(file[i-1], i - 1)) ELSE LastTs(s)

\* Why open_inner yields no writer for key k, i being the latest segment, or
\* "none".  A segment 0 that is missing or short has no format (log_format).
OpenRefusal(i, k) ==
  IF 0 \notin Listed \/ ~HasHeader(file[0]) THEN "FormatMismatch"
  ELSE IF file[0][1].datum.key_id # k THEN "KeyIdMismatch"
  ELSE
    LET l == file[0][1].datum.log_id
        s == Intact(file[i], i)
        latest == ScanRefusal(file[i], i, l, k)
        headerOnly == latest = "none" /\ Len(s) = 1 /\ i > 0
        previous == ScanRefusal(file[i-1], i - 1, l, k) IN
    IF latest # "none" THEN latest
    ELSE IF headerOnly /\ previous # "none" THEN previous
    ELSE IF Sealed \in {LastEvent(s)} \cup
                      (IF headerOnly THEN {LastEvent(Intact(file[i-1], i - 1))} ELSE {})
    THEN "Sealed"
    ELSE "none"

\* The reasons open_inner may report: a torn header of segment 0 has a format
\* once its first six bytes are there, and is corrupt then.
OpenRefusals(i, k) ==
  {OpenRefusal(i, k)}
    \cup (IF OpenRefusal(i, k) = "FormatMismatch" /\ 0 \in Listed /\ file[0] # << >>
          THEN {"HeaderCorrupt"} ELSE {})

\* open_inner comes to the scan of the latest segment i, and the scan to the end
\* of its walk.
ScanComplete(i, k) ==
  /\ 0 \in Listed
  /\ HasHeader(file[0])
  /\ file[0][1].datum.key_id = k
  /\ ScanRefusal(file[i], i, file[0][1].datum.log_id, k) \in {"none", "SignatureInvalid"}

\* The scan of the latest segment cuts a torn tail off before it looks at the
\* last record, so also in opens that are then refused.
Repaired(i, k) == IF ScanComplete(i, k) THEN Intact(file[i], i) ELSE file[i]

-----------------------------------------------------------------------------
(* SignedWriter::open_inner. *)

NoWriter ==
  [index |-> 0, log_id |-> CHOOSE l \in LogIds : TRUE,
   key_id |-> CHOOSE k \in Keys : TRUE, last_hash |-> ZeroHash,
   next_record_id |-> 0, bytes_written |-> 0, last_ts |-> NoTs, sealed |-> FALSE]

\* Wrong variant of WriterOn: the bytes of the records are not counted.
WriterOnHeaderOnly(i, s, ts) ==
  [index |-> i, log_id |-> s[1].datum.log_id, key_id |-> s[1].datum.key_id,
   last_hash |-> HashOf(LastChunk(s)), next_record_id |-> Len(s) - 1,
   bytes_written |-> HeaderSize, last_ts |-> ts, sealed |-> FALSE]

\* The writer on segment i, of which the scan kept s.
WriterOn(i, s, ts) ==
  [index |-> i, log_id |-> s[1].datum.log_id, key_id |-> s[1].datum.key_id,
   last_hash |-> HashOf(LastChunk(s)), next_record_id |-> Len(s) - 1,
   bytes_written |-> LastChunk(s).end, last_ts |-> ts, sealed |-> FALSE]

SignedInit ==
  /\ file = [i \in Idx |-> << >>]
  /\ entries = {}
  /\ synced = [i \in Idx |-> 0]
  /\ dirSynced = {}
  /\ pc = "closed"
  /\ cur = NoWriter
  /\ arg = NoInput
  /\ report = "None"
  /\ acked = [i \in Idx |-> << >>]
  /\ flushed = [i \in Idx |-> << >>]
  /\ sealAcked = FALSE

\* An empty directory: create_new makes the file of segment 0.
OpenFresh(k, l) ==
  /\ pc = "closed"
  /\ Listed = {}
  /\ file' = [file EXCEPT ![0] = << >>]
  /\ entries' = entries \cup {0}
  /\ cur' = [NoWriter EXCEPT !.key_id = k, !.log_id = l]
  /\ pc' = "genesis"
  /\ UNCHANGED <<synced, dirSynced, arg, report, history>>

\* The latest segment is scanned; a torn tail is cut off and the cut synced.
Scan(i, k) ==
  LET s == Repaired(i, k) IN
  /\ pc = "closed"
  /\ IsLatest(i)
  /\ file' = [file EXCEPT ![i] = s]
  /\ synced' = IF s = file[i] THEN synced ELSE [synced EXCEPT ![i] = Len(s)]
  /\ UNCHANGED <<entries, dirSynced, arg, flushed, sealAcked>>

\* The open is refused.
OpenRefused(k) ==
  \E i \in Listed :
    /\ OpenRefusal(i, k) # "none"
    /\ Scan(i, k)
    /\ report' \in OpenRefusals(i, k)
    /\ UNCHANGED <<pc, cur, acked>>

\* full_sync behind the cut fails, and so does the open.
RepairFails(k) ==
  \E i \in Listed :
    LET s == Repaired(i, k) IN
    /\ "sync" \in Faults
    /\ pc = "closed"
    /\ IsLatest(i)
    /\ s # file[i]
    /\ file' = [file EXCEPT ![i] = s]
    /\ synced' = [synced EXCEPT ![i] = IF @ > Len(s) THEN Len(s) ELSE @]
    /\ UNCHANGED <<entries, dirSynced, pc, cur, arg, report, history>>

\* What callers rely on in segment j after an open: all that a scan finds there,
\* never less than they were told before.
Relied(j) ==
  LET s == Intact(file[j], j) IN IF IsPrefixOf(acked[j], s) THEN s ELSE acked[j]

\* Wrong variant of OpenAccepted: a finalized segment is resumed in place.
OpenAcceptedInPlace(k) ==
  \E i \in Listed :
    /\ OpenRefusal(i, k) = "none"
    /\ Scan(i, k)
    /\ cur' = WriterOn(i, file'[i], TimeAnchor(i))
    /\ acked' = [j \in Idx |-> Relied(j)]
    /\ pc' = "ready"
    /\ report' = "Resumed"

\* The scan accepts the log: resume in place, or go on to create the next
\* segment when the latest was finalized.
OpenAccepted(k) ==
  \E i \in Listed :
    LET s == Repaired(i, k) IN
    /\ OpenRefusal(i, k) = "none"
    /\ Scan(i, k)
    /\ cur' = WriterOn(i, s, TimeAnchor(i))
    /\ acked' = [j \in Idx |-> Relied(j)]
    /\ IF LastEvent(s) = Finalized
       THEN pc' = "create" /\ UNCHANGED report
       ELSE pc' = "ready" /\ report' = IF s = file[i] THEN "Resumed" ELSE "Repaired"

-----------------------------------------------------------------------------
(* append, rollover and write_record. *)

\* An operation returns an error; a failed open yields no writer.
Fail ==
  /\ pc' = IF pc \in {"genesis", "create", "header"} /\ arg = NoInput
           THEN "closed" ELSE "ready"
  /\ cur' = IF pc' = "closed" THEN NoWriter ELSE cur
  /\ arg' = NoInput
  /\ UNCHANGED <<disk, report, history>>

\* The size check before each append.
NeedsRollover(v) ==
  /\ FinalizeOnRollover
  /\ cur.next_record_id > 0
  /\ cur.bytes_written + RecordSize[v] + OwnSize > SegmentSize

\* Wrong variant of AppendCall: a sealed writer appends.
AppendCallSealed(v) ==
  /\ pc = "ready"
  /\ Len(file[cur.index]) < MaxChunks
  /\ arg' = v
  /\ pc' = IF NeedsRollover(v) THEN "fin" ELSE "rec"
  /\ UNCHANGED <<disk, cur, report, history>>

\* append of a valid, unreserved input.  MaxChunks bounds the model.
AppendCall(v) ==
  /\ pc = "ready"
  /\ ~cur.sealed
  /\ Len(file[cur.index]) < MaxChunks
  /\ arg' = v
  /\ pc' = IF NeedsRollover(v) THEN "fin" ELSE "rec"
  /\ UNCHANGED <<disk, cur, report, history>>

\* seal needs a record to take the time from.
SealCall ==
  /\ pc = "ready"
  /\ ~cur.sealed
  /\ cur.last_ts # NoTs
  /\ Len(file[cur.index]) <= MaxChunks
  /\ pc' = "seal"
  /\ UNCHANGED <<disk, cur, arg, report, history>>

WriteOf == [fin |-> "fin_write", rec |-> "rec_write", seal |-> "seal_write"]
AfterWrite == [fin_write |-> "fin_sync", rec_write |-> "ready", seal_write |-> "seal_sync"]

\* sign_checked has signed the envelope and write_all has put some of the
\* frame's bytes at the end of the file.
BeginWrite ==
  /\ pc \in DOMAIN WriteOf
  /\ file' = [file EXCEPT ![cur.index] = Append(@, Torn)]
  /\ pc' = WriteOf[pc]
  /\ UNCHANGED <<entries, synced, dirSynced, cur, arg, report, history>>

\* Wrong variant of NewDatum: a sealing record takes the id of the last record.
NewDatumOld ==
  [event |-> CASE pc = "fin_write" -> Finalized [] pc = "rec_write" -> "app" [] OTHER -> Sealed,
   log_id |-> cur.log_id, key_id |-> cur.key_id, segment_index |-> cur.index,
   record_id |-> IF pc = "seal_write" THEN cur.next_record_id - 1 ELSE cur.next_record_id,
   ts_wall |-> IF pc = "rec_write" THEN InputTs[arg] ELSE cur.last_ts + 1,
   body |-> IF pc = "rec_write" THEN arg ELSE NoInput,
   records |-> IF pc = "fin_write" THEN cur.next_record_id ELSE 0]

\* The envelope and body being written: the caller's input, or a structural
\* record 1 ms after the last one (bump_ms).
NewDatum ==
  [event         |-> CASE pc = "fin_write" -> Finalized
                       [] pc = "rec_write" -> "app"
                       [] OTHER            -> Sealed,
   log_id        |-> cur.log_id,
   key_id        |-> cur.key_id,
   segment_index |-> cur.index,
   record_id     |-> cur.next_record_id,
   ts_wall       |-> IF pc = "rec_write" THEN InputTs[arg] ELSE cur.last_ts + 1,
   body          |-> IF pc = "rec_write" THEN arg ELSE NoInput,
   records       |-> IF pc = "fin_write" THEN cur.next_record_id ELSE 0]

\* Wrong variant of FinishWrite: last_hash is left as it was.
FinishWriteStale ==
  LET i == cur.index
      size == IF pc = "rec_write" THEN RecordSize[arg] ELSE OwnSize
      c == Frame(NewDatum, cur.last_hash, cur.key_id, cur.bytes_written + size) IN
  /\ pc \in DOMAIN AfterWrite
  /\ file' = [file EXCEPT ![i] = [@ EXCEPT ![Len(@)] = c]]
  /\ cur' = [cur EXCEPT !.next_record_id = @ + 1, !.bytes_written = c.end,
                        !.last_ts = c.datum.ts_wall]
  /\ acked' = [acked EXCEPT ![i] = file'[i]]
  /\ pc' = AfterWrite[pc]
  /\ arg' = IF pc = "rec_write" THEN NoInput ELSE arg
  /\ UNCHANGED <<entries, synced, dirSynced, report, flushed, sealAcked>>

\* write_all returns: the frame is complete and the bookkeeping follows it.
FinishWrite ==
  LET i == cur.index
      size == IF pc = "rec_write" THEN RecordSize[arg] ELSE OwnSize
      c == Frame(NewDatum, cur.last_hash, cur.key_id, cur.bytes_written + size) IN
  /\ pc \in DOMAIN AfterWrite
  /\ file' = [file EXCEPT ![i] = [@ EXCEPT ![Len(@)] = c]]
  /\ cur' = [cur EXCEPT !.last_hash = HashOf(c), !.next_record_id = @ + 1,
                        !.bytes_written = c.end, !.last_ts = c.datum.ts_wall]
  /\ acked' = [acked EXCEPT ![i] = file'[i]]
  /\ pc' = AfterWrite[pc]
  /\ arg' = IF pc = "rec_write" THEN NoInput ELSE arg
  /\ UNCHANGED <<entries, synced, dirSynced, report, flushed, sealAcked>>

\* rollover: full_sync of the finalized segment.
SyncFinalized ==
  /\ pc = "fin_sync"
  /\ synced' = [synced EXCEPT ![cur.index] = Len(file[cur.index])]
  /\ pc' = "create"
  /\ UNCHANGED <<file, entries, dirSynced, cur, arg, report, history>>

\* create_segment makes the next file, which must not exist yet.
CreateSegment ==
  LET i == cur.index + 1 IN
  /\ pc = "create"
  /\ i \in Idx \ entries
  /\ file' = [file EXCEPT ![i] = << >>]
  /\ entries' = entries \cup {i}
  /\ pc' = "header"
  /\ UNCHANGED <<synced, dirSynced, cur, arg, report, history>>

\* checked_add overflows, or create_new finds the file of an earlier attempt.
CreateRefused ==
  /\ pc = "create"
  /\ cur.index + 1 \notin Idx \ entries
  /\ Fail

\* create_segment writes the header: an open returns its writer, an append goes
\* on with its record.
WriteHeader ==
  LET i == IF pc = "genesis" THEN 0 ELSE cur.index + 1
      s == << SignedHeader(i, cur.log_id, cur.key_id, cur.last_hash) >> IN
  /\ pc \in {"genesis", "header"}
  /\ file' = [file EXCEPT ![i] = s]
  /\ cur' = WriterOn(i, s, cur.last_ts)
  /\ acked' = [acked EXCEPT ![i] = s]
  /\ report' = CASE pc = "genesis"  -> "Fresh"
                [] arg = NoInput    -> "OpenedNextAfterFinalized"
                [] OTHER            -> report
  /\ pc' = IF arg = NoInput THEN "ready" ELSE "rec"
  /\ UNCHANGED <<entries, synced, dirSynced, arg, flushed, sealAcked>>

-----------------------------------------------------------------------------
(* flush, the end of seal, and the end of a writer. *)

\* flush, called by itself or by seal: full_sync of the current file.
FlushFile ==
  /\ pc \in {"ready", "seal_sync"}
  /\ synced' = [synced EXCEPT ![cur.index] = Len(file[cur.index])]
  /\ pc' = IF pc = "ready" THEN "flush_dir" ELSE "seal_dir"
  /\ UNCHANGED <<file, entries, dirSynced, cur, arg, report, history>>

\* No write failed in the current segment: it frames to its end and was not
\* finalized by a rollover that then failed.
Unharmed ==
  LET s == file[cur.index] IN
  \A n \in 1..Len(s) : /\ s[n].kind # "torn"
                       /\ n < Len(s) => s[n].datum.event # Finalized

\* Wrong variant of FlushDir: the writer is not marked as sealed.
FlushDirUnsealed ==
  /\ pc \in {"flush_dir", "seal_dir"}
  /\ dirSynced' = entries
  /\ flushed' = acked
  /\ sealAcked' = (sealAcked \/ (pc = "seal_dir" /\ Unharmed))
  /\ pc' = "ready"
  /\ UNCHANGED <<file, entries, synced, cur, arg, report, acked>>

\* flush: full_sync of the directory; then seal marks the writer as sealed.
FlushDir ==
  /\ pc \in {"flush_dir", "seal_dir"}
  /\ dirSynced' = entries
  /\ flushed' = acked
  /\ cur' = [cur EXCEPT !.sealed = @ \/ pc = "seal_dir"]
  /\ sealAcked' = (sealAcked \/ (pc = "seal_dir" /\ Unharmed))
  /\ pc' = "ready"
  /\ UNCHANGED <<file, entries, synced, arg, report, acked>>

\* The writer is dropped.
Close ==
  /\ pc = "ready"
  /\ pc' = "closed"
  /\ cur' = NoWriter
  /\ UNCHANGED <<disk, arg, report, history>>

-----------------------------------------------------------------------------
(* Failures. *)

\* The system calls at which the failures of one operation strike.
FailsAt ==
  [sign        |-> {"fin", "rec", "seal"},
   short_write |-> DOMAIN AfterWrite,
   sync        |-> {"fin_sync", "seal_sync", "seal_dir", "flush_dir"},
   create      |-> {"genesis", "create", "header"}]

\* A signer, a write, a sync or a creation fails and the call returns an error.
OperationFails ==
  /\ \E f \in Faults \cap DOMAIN FailsAt : pc \in FailsAt[f]
  /\ Fail

Kill ==
  /\ "kill" \in Faults
  /\ pc \notin {"closed", "ready"}
  /\ pc' = "closed"
  /\ cur' = NoWriter
  /\ arg' = NoInput
  /\ UNCHANGED <<disk, report, history>>

Unsynced == {i \in entries : synced[i] < Len(file[i])}

\* The machine loses power: of an unsynced file a prefix survives, perhaps with
\* bytes of what followed, and of the unsynced entries the ones created first.
PowerLoss ==
  /\ "power_loss" \in Faults
  /\ \E cut \in [Unsynced -> 0..(MaxChunks + 1)], tail \in [Unsynced -> {<< >>, <<Torn>>}],
        limit \in 0..(MaxIndex + 1) :
       /\ \A i \in Unsynced :
            /\ synced[i] <= cut[i]
            /\ cut[i] <= Len(file[i])
            /\ cut[i] = Len(file[i]) => tail[i] = << >>
       /\ entries' = dirSynced \cup {i \in entries : i < limit}
       /\ file' = [i \in Idx |->
                     IF i \notin entries' THEN << >>
                     ELSE IF i \in Unsynced THEN SubSeq(file[i], 1, cut[i]) \o tail[i]
                     ELSE file[i]]
  /\ synced' = [i \in Idx |-> Len(file'[i])]
  /\ dirSynced' = entries'
  /\ pc' = "closed"
  /\ cur' = NoWriter
  /\ arg' = NoInput
  /\ acked' = flushed
  /\ UNCHANGED <<report, flushed, sealAcked>>

-----------------------------------------------------------------------------

SignedNext ==
  \/ \E k \in Keys : \/ \E l \in LogIds : OpenFresh(k, l)
                     \/ OpenRefused(k)
                     \/ RepairFails(k)
                     \/ OpenAccepted(k)
  \/ \E v \in Inputs : AppendCall(v)
  \/ SealCall
  \/ BeginWrite
  \/ FinishWrite
  \/ SyncFinalized
  \/ CreateSegment
  \/ CreateRefused
  \/ WriteHeader
  \/ FlushFile
  \/ FlushDir
  \/ Close
  \/ OperationFails
  \/ Kill
  \/ PowerLoss

SignedSpec == SignedInit /\ [][SignedNext]_signedVars

-----------------------------------------------------------------------------
(* Properties. *)

WriterSteps ==
  {"closed", "genesis", "create", "header", "ready", "fin", "rec", "seal", "fin_write",
   "rec_write", "seal_write", "fin_sync", "seal_sync", "seal_dir", "flush_dir"}

Reports ==
  {"None", "Fresh", "Resumed", "Repaired", "OpenedNextAfterFinalized",
   "FormatMismatch", "HeaderCorrupt", "KeyIdMismatch", "LogIdMismatch", "ChainBreak",
   "SignatureInvalid", "Sealed"}

WriterType ==
  [index : Idx, log_id : LogIds, key_id : Keys, last_hash : Hash,
   next_record_id : Nat, bytes_written : Nat, last_ts : Nat \cup {NoTs}, sealed : BOOLEAN]

\* The type invariant of the signed writer and its directory.
SignedTypeOK ==
  /\ file \in [Idx -> Seq(Chunk)]
  /\ entries \subseteq Idx
  /\ synced \in [Idx -> Nat]
  /\ dirSynced \subseteq entries
  /\ pc \in WriterSteps
  /\ cur \in WriterType
  /\ arg \in Inputs \cup {NoInput}
  /\ report \in Reports
  /\ acked \in [Idx -> Seq(Chunk)]
  /\ flushed \in [Idx -> Seq(Chunk)]
  /\ sealAcked \in BOOLEAN

\* seal: "Nothing can be appended afterwards, by this writer or a later one".
\* Once seal has returned Ok for a segment no write had failed in, log.sealed
\* stays the last record of the last segment, whatever fails, crashes, is lost,
\* or is opened again.
SealIsFinal ==
  sealAcked => \E i \in Listed : /\ IsLatest(i)
                                 /\ HasHeader(file[i])
                                 /\ LastChunk(file[i]).kind = "record"
                                 /\ LastEvent(file[i]) = Sealed

\* Once log.sealed is in the log, nothing is behind it.
NothingBehindSeal ==
  \A i \in Listed : \A n \in 1..Len(file[i]) :
    file[i][n].kind = "record" /\ file[i][n].datum.event = Sealed
      => n = Len(file[i]) /\ IsLatest(i)

\* Whatever failed before, in every segment file the records follow the header in
\* one signed hash chain, as far as they frame: record j names the hash before it
\* and its own position, and is signed by the header's key.
SegmentsLinked ==
  \A i \in Idx : \A n \in 2..Len(file[i]) :
    (\A m \in 2..n : file[i][m].kind = "record") =>
      /\ file[i][1].kind = "header"
      /\ Linked(file[i], n, i)
      /\ file[i][n].sig = file[i][1].datum.key_id

\* How many chunks of the current file are completely written.
Written ==
  IF pc \in DOMAIN AfterWrite THEN Len(file[cur.index]) - 1 ELSE Len(file[cur.index])

\* While a writer is open it agrees with its file, unless a write failed: the
\* envelope it signs next follows what a scan of the file would find last.
SignedWriterAgrees ==
  pc \notin {"closed", "genesis"} =>
    LET s == file[cur.index] IN
    /\ Written >= 1
    /\ s[1].kind = "header"
    /\ s[1].datum = HeaderDatum(cur.index, cur.log_id, cur.key_id)
    /\ (\A m \in 2..Written : s[m].kind = "record") =>
         /\ cur.last_hash = HashOf(s[Written])
         /\ cur.next_record_id = Written - 1
         /\ cur.bytes_written = s[Written].end
         /\ Written > 1 => cur.last_ts = s[Written].datum.ts_wall

\* flush: "Make every appended record durable".
SignedFlushSurvives ==
  \A i \in Idx :
    /\ flushed[i] # << >> => i \in entries
    /\ IsPrefixOf(flushed[i], file[i])
=============================================================================
