------------------------------ MODULE LogVerifier ------------------------------
(***************************************************************************)
(* Verifier::verify_with_options (crates/ogentic-audit-core/src/verifier.rs)*)
(* over the log directory of AuditWriter, and the checkpoint command that  *)
(* pins a chain head for later verifications (crates/ogentic-audit-cli/src/*)
(* commands/checkpoint.rs).  The directory listing, each header and each   *)
(* framed record are read by system calls of their own, so a writer may    *)
(* work between them.  While no writer has the log open, the stored files  *)
(* may be changed from outside (the cases of the violation taxonomy in     *)
(* docs/spec/v0.1.md).                                                     *)
(***************************************************************************)
EXTENDS AuditWriter

CONSTANTS
  WallClock,  \* ts_wall of each input
  MaxDrift,   \* MAX_TS_DRIFT_MS
  Edits,      \* the outside changes that may happen
  MaxEdits    \* bound of the model: how many of them

EditKinds ==
  { "alter",    \* bytes of a record: it fails to frame or fails its HMAC
    "remove",   \* a record is taken out of a segment
    "cut",      \* a segment loses its tail
    "segment",  \* a segment file is deleted
    "rewrite" } \* a key holder replaces one input and signs the log again

ASSUME VerifierAssumption ==
  /\ WallClock \in [Inputs -> Nat]
  /\ MaxDrift \in Nat
  /\ Edits \subseteq EditKinds
  /\ MaxEdits \in Nat
  /\ "power_loss" \notin Faults

VARIABLES
  vpc,      \* the verifier's next read: "idle", "header", "record" or "done"
  opts,     \* key, forensic_mode and checkpoint of this verification
  listed,   \* the segments Reader::segments returned
  walk,     \* the local variables of the loop over segments and records
  vreport,  \* VerifyReport, or the VerifyError
  saved,    \* the checkpoint file
  edits,    \* how many outside changes there were
  rewritten,\* whether a key holder was among them
  original, \* history: the files before the first of them
  walked    \* history: the records this verification accepted, in order

vvars == <<vpc, opts, listed, walk, vreport, saved, edits, rewritten, original, walked>>
allvars == <<vars, vvars>>

NoCheckpoint == [segment |-> -1, record_id |-> 0, key_id |-> NoHash, hmac |-> NoHash]

NoOpts == [key_id |-> NoHash, forensic |-> FALSE, checkpoint |-> NoCheckpoint]

\* prior_segment_final, prior_ts_wall_ms: None is NoHash and -1.
StartWalk ==
  [todo |-> {}, seg |-> 0, pos |-> 0, prev |-> NoHash, prior_final |-> NoHash,
   prior_ts |-> -1, next_id |-> 0, reached |-> FALSE]

NoViolation == [kind |-> "none", segment |-> 0, record_id |-> -1]

StartReport ==
  [error |-> "none", violation |-> NoViolation, additional |-> << >>,
   last_segment |-> -1, final_hmac |-> NoHash]

VerifierInit ==
  /\ vpc = "idle"
  /\ opts = NoOpts
  /\ listed = {}
  /\ walk = StartWalk
  /\ vreport = StartReport
  /\ saved = NoCheckpoint
  /\ edits = 0
  /\ rewritten = FALSE
  /\ original = [i \in Idx |-> << >>]
  /\ walked = << >>

-----------------------------------------------------------------------------
(* Outside changes to the stored files. *)

\* The bookkeeping of a change: the first one keeps the files as they were.
Edited(kind) ==
  /\ kind \in Edits
  /\ pc = "closed"
  /\ vpc = "idle"
  /\ edits < MaxEdits
  /\ edits' = edits + 1
  /\ original' = IF edits = 0 THEN file ELSE original
  /\ rewritten' = (rewritten \/ kind = "rewrite")
  /\ UNCHANGED <<synced, dirSynced, pc, cur, arg, report, acked, flushed>>
  /\ UNCHANGED <<vpc, opts, listed, walk, vreport, saved, walked>>

AlterRecord ==
  \E i \in entries : \E n \in 2..Len(file[i]), c \in {Torn, Bad} :
    /\ file' = [file EXCEPT ![i][n] = c]
    /\ UNCHANGED entries
    /\ Edited("alter")

RemoveRecord ==
  \E i \in entries : \E n \in 2..Len(file[i]) :
    /\ file' = [file EXCEPT ![i] = SubSeq(@, 1, n - 1) \o SubSeq(@, n + 1, Len(@))]
    /\ UNCHANGED entries
    /\ Edited("remove")

CutSegment ==
  \E i \in entries : \E n \in 0..(Len(file[i]) - 1) :
    /\ file' = [file EXCEPT ![i] = SubSeq(@, 1, n)]
    /\ UNCHANGED entries
    /\ Edited("cut")

DeleteSegment ==
  \E i \in entries :
    /\ entries' = entries \ {i}
    /\ file' = [file EXCEPT ![i] = << >>]
    /\ Edited("segment")

\* The hash h once the input of the record at place p of the chain is w.
Resigned(h, p, w) == IF Len(h) < p THEN h ELSE [h EXCEPT ![p].input = w]

ResignedChunk(c, p, w) ==
  IF c.kind = "header" THEN [c EXCEPT !.prev_final = Resigned(@, p, w)]
  ELSE IF c.kind # "record" THEN c
  ELSE [c EXCEPT !.prev_hash = Resigned(@, p, w),
                 !.datum = Resigned(Mac(c.prev_hash, @), p, w)[Len(c.prev_hash) + 1]]

RewriteHistory ==
  \E i \in entries : \E n \in 2..Len(file[i]), w \in Inputs :
    /\ file[i][n].kind = "record"
    /\ file[i][n].datum.input \in Inputs \ {w}
    /\ LET p == Len(file[i][n].prev_hash) + 1 IN
       file' = [j \in Idx |-> [m \in 1..Len(file[j]) |-> ResignedChunk(file[j][m], p, w)]]
    /\ UNCHANGED entries
    /\ Edited("rewrite")

Edit == AlterRecord \/ RemoveRecord \/ CutSegment \/ DeleteSegment \/ RewriteHistory

-----------------------------------------------------------------------------
(* verify_with_options. *)

\* The smallest segment index of a non-empty set of them.
First(S) == CHOOSE i \in S : \A j \in S : i <= j

\* Reader::segments lists the directory; without segments, or with the
\* checkpoint of another key, verify_with_options is an error.
StartVerify(k, forensic, cp) ==
  /\ vpc = "idle"
  /\ opts' = [key_id |-> k, forensic |-> forensic, checkpoint |-> cp]
  /\ listed' = Visible
  /\ walk' = [StartWalk EXCEPT !.todo = Visible]
  /\ walked' = << >>
  /\ IF Visible = {}
     THEN vpc' = "done" /\ vreport' = [StartReport EXCEPT !.error = "NoSegments"]
     ELSE IF cp # NoCheckpoint /\ cp.key_id # k
     THEN vpc' = "done" /\ vreport' = [StartReport EXCEPT !.error = "CheckpointKeyMismatch"]
     ELSE vpc' = "header" /\ vreport' = StartReport
  /\ UNCHANGED <<saved, edits, rewritten, original>>

\* push_violation: the first violation is the report's, the others follow it.
Pushed(r, v) ==
  IF r.violation = NoViolation THEN [r EXCEPT !.violation = v]
  ELSE [r EXCEPT !.additional = Append(@, v)]

\* The end of the loop: the chain head, and the checkpoint that was not met.
Finished(r, w) ==
  LET s == [r EXCEPT !.final_hmac = w.prior_final] IN
  IF opts.checkpoint # NoCheckpoint /\ ~w.reached /\ r.violation = NoViolation
  THEN Pushed(s, [kind      |-> "CheckpointTruncated",
                  segment   |-> opts.checkpoint.segment,
                  record_id |-> opts.checkpoint.record_id])
  ELSE s

\* The loop leaves the current segment, with r and w so far.
LeaveSegment(r, w) ==
  IF w.todo = {}
  THEN vpc' = "done" /\ walk' = w /\ vreport' = Finished(r, w)
  ELSE vpc' = "header" /\ walk' = w /\ vreport' = r

\* Wrong variant of Violate: the answer of push_violation is ignored.
ViolateGoesOn(r, w, kind, id) ==
  LeaveSegment(Pushed(r, [kind |-> kind, segment |-> w.seg, record_id |-> id]), w)

\* A violation of the given kind: stop, or go on with the next segment.
Violate(r, w, kind, id) ==
  LET s == Pushed(r, [kind |-> kind, segment |-> w.seg, record_id |-> id]) IN
  IF opts.forensic THEN LeaveSegment(s, w)
  ELSE vpc' = "done" /\ walk' = w /\ vreport' = s

\* The chain start of segment i with header h.
SegmentStart(i, h) == IF i = 0 THEN GenesisMac(opts.key_id) ELSE h.prev_final

\* read_segment_header_bytes and parse_and_validate_header.
HeaderFault(i) ==
  IF i \notin entries \/ ~HasHeader(file[i]) THEN "HeaderCorrupt"
  ELSE IF file[i][1].key_id # opts.key_id THEN "KeyIdMismatch"
  ELSE "none"

\* The header of the next segment, and the continuity of its prev_final with
\* the last segment that passed.
VerifyHeader ==
  LET i == First(walk.todo)
      h == file[i][1]
      r == [vreport EXCEPT !.last_segment = i]
      w == [walk EXCEPT !.todo = @ \ {i}, !.seg = i] IN
  /\ vpc = "header"
  /\ IF HeaderFault(i) # "none" THEN Violate(r, w, HeaderFault(i), -1)
     ELSE IF w.prior_final # NoHash /\ h.prev_final # w.prior_final
     THEN Violate(r, w, "SegmentDiscontinuity", -1)
     ELSE /\ walk' = [w EXCEPT !.pos = 1, !.next_id = 0, !.prev = SegmentStart(i, h)]
          /\ vreport' = r
          /\ vpc' = "record"
  /\ UNCHANGED <<opts, listed, saved, edits, rewritten, original, walked>>

\* read_framed_bytes at the current offset: what a writer has not completed, or
\* what no longer frames, is a torn chunk.
NextFrame == file[walk.seg][walk.pos + 1]

\* read_framed_bytes returns None: the segment is verified to its end.
VerifySegmentEnd ==
  /\ vpc = "record"
  /\ walk.pos >= Len(file[walk.seg])
  /\ LeaveSegment(vreport, [walk EXCEPT !.prior_final = walk.prev])
  /\ UNCHANGED <<opts, listed, saved, edits, rewritten, original, walked>>

\* ts_wall of record c; a segment.finalized record is stamped 1 ms after the
\* record before it.
WallOf(c) == IF c.datum.input = NoInput THEN walk.prior_ts ELSE WallClock[c.datum.input]

\* Wrong variant of ClockRegressed: exactly the drift is too much.
ClockRegressedAtDrift(c) == WallOf(c) + MaxDrift <= walk.prior_ts

\* check_timestamps: more than the drift before the last accepted record.
ClockRegressed(c) == WallOf(c) + MaxDrift < walk.prior_ts

AtCheckpoint(c) ==
  /\ opts.checkpoint.segment = walk.seg
  /\ opts.checkpoint.record_id = c.datum.record_id

\* Wrong variant of Judgement: prev_hash is not compared.
JudgementUnchained(c) ==
  IF c.kind = "torn" THEN "RecordCorrupt"
  ELSE IF c.kind = "bad" \/ c.datum.key_id # opts.key_id THEN "HmacMismatch"
  ELSE IF ClockRegressed(c) THEN "TimestampRegression"
  ELSE IF AtCheckpoint(c) /\ ChainAfter(c) # opts.checkpoint.hmac THEN "CheckpointMismatch"
  ELSE "accept"

\* Wrong variant of Judgement: a record at the checkpoint's place is enough.
JudgementByPlace(c) ==
  IF c.kind = "torn" THEN "RecordCorrupt"
  ELSE IF c.kind = "bad" \/ c.datum.key_id # opts.key_id THEN "HmacMismatch"
  ELSE IF c.prev_hash # walk.prev THEN "ChainBreak"
  ELSE IF ClockRegressed(c) THEN "TimestampRegression"
  ELSE "accept"

\* What the checks say of the framed bytes c, in their order: framing, HMAC,
\* prev_hash, ts_wall, checkpoint.
Judgement(c) ==
  IF c.kind = "torn" THEN "RecordCorrupt"
  ELSE IF c.kind = "bad" \/ c.datum.key_id # opts.key_id THEN "HmacMismatch"
  ELSE IF c.prev_hash # walk.prev THEN "ChainBreak"
  ELSE IF ClockRegressed(c) THEN "TimestampRegression"
  ELSE IF AtCheckpoint(c) /\ ChainAfter(c) # opts.checkpoint.hmac THEN "CheckpointMismatch"
  ELSE "accept"

\* The record_id a violation of kind v at c is reported with.
ReportedId(c, v) ==
  IF v = "RecordCorrupt" THEN -1
  ELSE IF v = "HmacMismatch" THEN walk.next_id
  ELSE c.datum.record_id

\* One turn of the loop over the records of a segment.
VerifyRecord ==
  LET c == NextFrame
      v == Judgement(c) IN
  /\ vpc = "record"
  /\ walk.pos < Len(file[walk.seg])
  /\ IF v # "accept"
     THEN Violate(vreport, walk, v, ReportedId(c, v)) /\ UNCHANGED walked
     ELSE /\ walk' = [walk EXCEPT !.pos = @ + 1,
                                  !.prev = ChainAfter(c),
                                  !.prior_ts = WallOf(c),
                                  !.next_id = c.datum.record_id + 1,
                                  !.reached = @ \/ AtCheckpoint(c)]
          /\ walked' = Append(walked, <<walk.seg, c>>)
          /\ UNCHANGED <<vpc, vreport>>
  /\ UNCHANGED <<opts, listed, saved, edits, rewritten, original>>

Verified == vpc = "done" /\ vreport.error = "none" /\ vreport.violation = NoViolation

\* The checkpoint command, after its own verification: it pairs the HMAC of the
\* report with the last record_id a new Reader finds in that segment.  The
\* model writes one checkpoint file.
SaveCheckpoint ==
  LET s == file[vreport.last_segment] IN
  /\ Verified
  /\ ~opts.forensic
  /\ opts.checkpoint = NoCheckpoint
  /\ saved = NoCheckpoint
  /\ 0 \in entries
  /\ \A i \in entries : HasHeader(file[i]) /\ \A n \in 2..Len(file[i]) : file[i][n].kind = "record"
  /\ Len(s) > 1
  /\ saved' = [segment   |-> vreport.last_segment,
               record_id |-> s[Len(s)].datum.record_id,
               key_id    |-> opts.key_id,
               hmac      |-> vreport.final_hmac]
  /\ UNCHANGED <<vpc, opts, listed, walk, vreport, edits, rewritten, original, walked>>

\* The command ends.
EndVerify ==
  /\ vpc = "done"
  /\ vpc' = "idle"
  /\ opts' = NoOpts
  /\ listed' = {}
  /\ walk' = StartWalk
  /\ vreport' = StartReport
  /\ walked' = << >>
  /\ UNCHANGED <<saved, edits, rewritten, original>>

VerifierNext ==
  \/ \E k \in Keys, forensic \in BOOLEAN, cp \in {NoCheckpoint, saved} :
       StartVerify(k, forensic, cp)
  \/ VerifyHeader
  \/ VerifyRecord
  \/ VerifySegmentEnd
  \/ SaveCheckpoint
  \/ EndVerify

\* A writer works until the first outside change.  flush is left out: it moves
\* no bytes that a verifier reads.
WriterWorks == edits = 0 /\ Next /\ pc' # "flush_dir" /\ UNCHANGED vvars

VInit == Init /\ VerifierInit
VNext == WriterWorks \/ Edit \/ (VerifierNext /\ UNCHANGED vars)

VSpec == VInit /\ [][VNext]_allvars

-----------------------------------------------------------------------------
(* Properties. *)

Kinds == {"none", "HeaderCorrupt", "KeyIdMismatch", "SegmentDiscontinuity", "RecordCorrupt",
          "HmacMismatch", "ChainBreak", "TimestampRegression", "CheckpointMismatch",
          "CheckpointTruncated"}

\* The type invariant of the verifier: the walk stays inside the files, and
\* additional_violations is empty unless a first violation is reported.
VerifierTypeOK ==
  /\ vpc \in {"idle", "header", "record", "done"}
  /\ listed \subseteq Idx
  /\ walk.todo \subseteq listed
  /\ vpc = "header" => walk.todo # {}
  /\ vpc = "record" => walk.seg \in listed /\ walk.pos \in 1..Len(file[walk.seg])
  /\ vreport.violation.kind \in Kinds
  /\ vreport.violation = NoViolation => vreport.additional = << >>
  /\ vreport.additional # << >> => opts.forensic
  /\ edits \in 0..MaxEdits

\* The records among the first n chunks of segment i of the files f.
RecordsOf(f, i) ==
  LET kept[n \in 0..Len(f[i])] ==
        IF n = 0 THEN << >>
        ELSE IF f[i][n].kind = "record" THEN Append(kept[n-1], <<i, f[i][n]>>)
        ELSE kept[n-1]
  IN  kept

\* The records of the files f from segment i on, up to segment n - 1.
RecordsFrom(f, i) ==
  LET upTo[n \in 0..(MaxIndex + 1)] ==
        IF n = 0 THEN << >>
        ELSE IF n <= i THEN upTo[n-1]
        ELSE upTo[n-1] \o RecordsOf(f, n - 1)[Len(f[n-1])]
  IN  upTo

\* The history of the log in the files f, from segment i on.
History(f, i) == RecordsFrom(f, i)[MaxIndex + 1]

Reference == IF edits = 0 THEN file ELSE original

\* Where the stop-at-first verifier gets to, it has accepted exactly what the
\* writer wrote, from the first listed segment on: no record altered, removed or
\* moved by someone without the key is passed over (threat model, invariant 3).
AcceptedIsHistory ==
  walked # << >> /\ ~opts.forensic /\ ~rewritten =>
    IsPrefixOf(walked, History(Reference, First(listed)))

\* The checkpoint names a record of the log.
Pins(cp) ==
  /\ cp.record_id + 2 <= Len(file[cp.segment])
  /\ LET c == file[cp.segment][cp.record_id + 2] IN
     c.kind = "record" /\ ChainAfter(c) = cp.hmac

\* Two callers' records that follow each other in the log are more than the
\* drift apart.
ClockWentBack ==
  LET h == History(file, 0)
      app == {n \in 1..Len(h) : h[n][2].datum.input # NoInput} IN
  \E m, n \in app :
    /\ m < n
    /\ \A j \in app : j <= m \/ n <= j
    /\ WallClock[h[n][2].datum.input] + MaxDrift < WallClock[h[m][2].datum.input]

\* Verifying a log nobody has changed, even beside a live writer and after its
\* crashes, blames no record: a violation is a tail still being written in the
\* last listed segment, a clock that went back, a checkpoint that never named a
\* record of this log, or in forensic mode a segment after one that failed (its
\* clock is compared across the records that were passed over).
NoFalseAlarm ==
  vpc = "done" /\ edits = 0 /\ vreport.violation # NoViolation
    /\ (\A i \in listed : HasHeader(file[i]) => file[i][1].key_id = opts.key_id) =>
      \A n \in 0..Len(vreport.additional) :
        LET v == IF n = 0 THEN vreport.violation ELSE vreport.additional[n] IN
        \/ v.kind \in {"RecordCorrupt", "HeaderCorrupt"} /\ \A j \in listed : j <= v.segment
        \/ v.kind = "TimestampRegression" /\ (n > 0 \/ ClockWentBack)
        \/ v.kind = "SegmentDiscontinuity" /\ n > 0
        \/ v.kind = "CheckpointMismatch" /\ ~Pins(opts.checkpoint)

DatumsOf(recs) == [n \in 1..Len(recs) |-> recs[n][2].datum]

\* A log that verifies against a checkpoint still holds, record by record, the
\* history the checkpoint was taken from, even if a key holder signed it anew
\* (checkpoint.rs: the same history, not merely a self-consistent one).
CheckpointHolds ==
  Verified /\ opts.checkpoint # NoCheckpoint /\ 0 \in listed =>
    /\ vreport.final_hmac = GenesisMac(opts.key_id) \o DatumsOf(walked)
    /\ IsPrefixOf(opts.checkpoint.hmac, vreport.final_hmac)

\* A checkpoint that the checkpoint command wrote is met again by every later
\* verification of a log nobody has changed.
CheckpointsAreMet ==
  edits = 0 => vreport.violation.kind \notin {"CheckpointMismatch", "CheckpointTruncated"}

\* A SegmentDiscontinuity is reported only of a header whose prev_final is not
\* the HMAC of the last record in the segment file before it.
DiscontinuityIsReal ==
  \A n \in 0..Len(vreport.additional) :
    LET v == IF n = 0 THEN vreport.violation ELSE vreport.additional[n]
        p == file[v.segment - 1] IN
    v.kind = "SegmentDiscontinuity" /\ v.segment - 1 \in listed /\ Len(p) > 1
      => p[Len(p)].kind # "record" \/ ChainAfter(p[Len(p)]) # file[v.segment][1].prev_final
=============================================================================
