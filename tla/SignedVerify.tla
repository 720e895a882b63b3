---------------------------- MODULE SignedVerify ----------------------------
(***************************************************************************)
(* The verifier of signed logs (signed/verify.rs), run against the log of  *)
(* SignedWriter while its writer goes on writing, or after someone else    *)
(* changed the files.                                                      *)
(*                                                                         *)
(* The segments are listed once; each is then read up to the length it had *)
(* when it was opened, which is one step here because a writer only adds   *)
(* behind that length.  A head is a position with the hash and the number  *)
(* of records up to it, as a checkpoint, a key statement (retirement or    *)
(* authority revocation) or a release attestation names it.                *)
(***************************************************************************)
EXTENDS SignedWriter, FiniteSets

CONSTANTS
  Forged,      \* a signature no key made
  MaxDrift,    \* MAX_TS_DRIFT_MS
  HeadKinds,   \* what heads are saved in: "checkpoint", "statement", "attested"
  Edits,       \* kinds of changes from outside
  Options      \* SignedVerifyOptions, with the keys pinned

\* The trusted keys with forensic_mode, expect_log_id and the signatures on a
\* supplied checkpoint and its witnesses; the saved head is in `saved`.
SignedVerifyOptions ==
  [pinned : SUBSET Keys, forensic : BOOLEAN, expect : LogIds \cup {NoInput},
   checkpointSig : {"none", "good", "bad"}]

ASSUME VerifyAssumption ==
  /\ Forged \notin Keys
  /\ MaxDrift \in Nat
  /\ HeadKinds \subseteq {"checkpoint", "statement", "attested"}
  /\ Edits \subseteq {"body", "envelope", "remove", "replay", "cut", "tear", "segment", "header",
                     "resign"}
  /\ Options \subseteq SignedVerifyOptions

VARIABLES
  saved,   \* the head that was saved, and in what
  edited,  \* the kind of change made from outside
  chain,   \* history: the hash of the last record a writer wrote
  walk     \* Walk and SignedVerifyReport of the verification

verifyVars == <<saved, edited, chain, walk>>
vars == <<signedVars, verifyVars>>

-----------------------------------------------------------------------------
(* Heads. *)

\* A CheckpointV2 or Head: what is saved of the log, and in what.
NoHead == [kind |-> "none", log_id |-> NoInput, key_id |-> NoInput, segment |-> 0,
           record_id |-> 0, record_hash |-> ZeroHash, record_count |-> 0]

\* (segment, record) order of positions.
After(i, p, head) == i > head.segment \/ (i = head.segment /\ p > head.record_id)

\* How many records the history h holds.
RecordsIn(h) == Cardinality({n \in 1..Len(h) : h[n].event # "header"})

-----------------------------------------------------------------------------
(* Changes from outside, by someone without the signer's key. *)

WithoutNth(s, n) == SubSeq(s, 1, n - 1) \o SubSeq(s, n + 1, Len(s))

Records == {r \in entries \X (2..(MaxChunks + 1)) :
              r[2] <= Len(file[r[1]]) /\ file[r[1]][r[2]].kind = "record"}

Put(i, s) == file' = [file EXCEPT ![i] = s] /\ UNCHANGED entries

EditBody ==
  \E r \in Records, how \in {"changed", "elided"} :
    Put(r[1], [file[r[1]] EXCEPT ![r[2]].body = how])

EditEnvelope ==
  \E r \in Records, e \in {"app", Sealed} :
    Put(r[1], [file[r[1]] EXCEPT ![r[2]].sig = Forged, ![r[2]].datum.event = e])

RemoveRecord == \E r \in Records : Put(r[1], WithoutNth(file[r[1]], r[2]))

\* A record is copied behind the end of a segment.
ReplayRecord == \E r \in Records, i \in entries : Put(i, Append(file[i], file[r[1]][r[2]]))

CutSegment == \E i \in entries : \E n \in 0..(Len(file[i]) - 1) : Put(i, SubSeq(file[i], 1, n))

\* A frame of a segment is broken, or bytes that do not frame are put behind the
\* last one.
TearSegment ==
  \E i \in entries : \E n \in 2..(Len(file[i]) + 1) :
    Put(i, SubSeq(file[i], 1, n - 1) \o <<Torn>> \o SubSeq(file[i], n + 1, Len(file[i])))

DeleteSegment ==
  \E i \in entries : /\ entries' = entries \ {i}
                     /\ file' = [file EXCEPT ![i] = << >>]

\* A header is not signed: anyone can write one, with a right CRC, in front of
\* the records of an existing segment or into a new one.
ForgeHeader ==
  \E i \in entries \cup {j \in Idx : j - 1 \in entries}, k \in Keys, l \in LogIds :
    \E prev \in {ZeroHash, IF i > 0 /\ HasHeader(file[i-1])
                             /\ LastChunk(file[i-1]).kind # "torn"
                          THEN HashOf(LastChunk(file[i-1])) ELSE ZeroHash} :
      /\ file' = [file EXCEPT ![i] = << SignedHeader(i, l, k, prev) >> \o SubSeq(@, 2, Len(@))]
      /\ entries' = entries \cup {i}

\* The hash h of a history, written again under key k.
UnderKey(h, k) == [n \in 1..Len(h) |-> [h[n] EXCEPT !.key_id = k]]

\* The whole log is written again under another key.
ResignLog ==
  \E k \in Keys :
    /\ file' = [i \in Idx |-> [n \in 1..Len(file[i]) |->
                  LET c == file[i][n]
                      r == [c EXCEPT !.datum.key_id = k, !.prev_hash = UnderKey(@, k)] IN
                  IF c.kind = "torn" THEN c
                  ELSE IF c.kind = "header" THEN r ELSE [r EXCEPT !.sig = k]]]
    /\ UNCHANGED entries

\* One change, to the files of a log nobody has open; no writer opens it later.
Edit(kind) ==
  /\ pc = "closed"
  /\ edited = "none"
  /\ walk.pc = "idle"
  /\ CASE kind = "body"     -> EditBody
       [] kind = "envelope" -> EditEnvelope
       [] kind = "remove"   -> RemoveRecord
       [] kind = "replay"   -> ReplayRecord
       [] kind = "cut"      -> CutSegment
       [] kind = "tear"     -> TearSegment
       [] kind = "segment"  -> DeleteSegment
       [] kind = "header"   -> ForgeHeader
       [] kind = "resign"   -> ResignLog
  /\ file' # file
  /\ edited' = kind
  /\ UNCHANGED <<synced, dirSynced, pc, cur, arg, report, history, saved, chain, walk>>

-----------------------------------------------------------------------------
(* The walk. *)

Idle ==
  [pc |-> "idle", todo |-> {}, opts |-> NoInput, expected |-> 0,
   prev_final |-> <<ZeroHash>>,  \* a sequence: empty when it is not known
   stopped |-> FALSE, seg0 |-> << >>, signer_ok |-> FALSE, trusted |-> FALSE,
   ordinal |-> 0, sealed |-> FALSE, last_ts |-> NoTs, last |-> << >>,
   hadRecords |-> TRUE, noSuccessor |-> FALSE, complete |-> FALSE,
   seen |-> << >>,               \* <<hash, ordinal>> at the saved head
   violations |-> << >>, anchored |-> FALSE, verdict |-> "none",
   warned |-> {},                \* segments with a TornTailAfterHead warning
   header |-> << >>, over |-> FALSE, p |-> 0, prev |-> ZeroHash, finalized |-> FALSE]

\* violation: report the kinds at segment n; without forensic_mode the first
\* one stops the walk.
Violation(w, n, kinds) ==
  LET found == [j \in 1..Len(kinds) |-> <<kinds[j], n>>] IN
  IF kinds = << >> \/ w.stopped THEN w
  ELSE [w EXCEPT !.violations = @ \o (IF w.opts.forensic THEN found ELSE <<Head(found)>>),
                 !.stopped = ~w.opts.forensic]

\* The segment cannot be followed to its end.
Abandon(w) == [w EXCEPT !.over = TRUE, !.prev_final = << >>]

\* What the checks report whose condition holds, in their order.
Kinds(checks) ==
  LET fired[n \in 0..Len(checks)] ==
        IF n = 0 THEN << >>
        ELSE IF checks[n][1] THEN Append(fired[n-1], checks[n][2]) ELSE fired[n-1]
  IN  fired[Len(checks)]

\* after_head: a position behind the attested head.
AfterHead(w, i, p) == saved.kind = "attested" /\ After(i, p, saved)

\* Evaluated::accept for a record of the pinned signer: a retired or revoked
\* key's records count up to the head its statement names.
Accept(w, i, p, hash) ==
  IF saved.kind # "statement" \/ saved.key_id # w.header[1].datum.key_id THEN "ok"
  ELSE IF saved.log_id # w.header[1].datum.log_id \/ After(i, p, saved) THEN "RetiredKey"
  ELSE IF <<i, p>> = <<saved.segment, saved.record_id>> /\ hash # saved.record_hash
  THEN "CheckpointMismatch"
  ELSE "ok"

\* H1-H8: a header that is short, of another format or damaged is no header.
HeaderBroken(s) == ~HasHeader(s)

\* Wrong variant of HeaderRefusal: the link to the segment before is not checked.
HeaderRefusalUnlinked(w, s, n) ==
  IF HeaderBroken(s) THEN "HeaderCorrupt"
  ELSE LET d == s[1].datum IN
  IF n > 0 /\ w.seg0 # << >> /\ d.log_id # w.seg0[1].datum.log_id THEN "LogIdMismatch"
  ELSE IF n > 0 /\ w.seg0 # << >> /\ d.key_id # w.seg0[1].datum.key_id THEN "KeyIdMismatch"
  ELSE IF d.segment_index # n THEN "SegmentDiscontinuity"
  ELSE IF n = 0 /\ s[1].prev_hash # ZeroHash THEN "HeaderCorrupt"
  ELSE "none"

\* H9-H12 against segment 0, the file name and the segment before.
HeaderRefusal(w, s, n) ==
  IF HeaderBroken(s) THEN "HeaderCorrupt"
  ELSE LET d == s[1].datum IN
  IF n > 0 /\ w.seg0 # << >> /\ d.log_id # w.seg0[1].datum.log_id THEN "LogIdMismatch"
  ELSE IF n > 0 /\ w.seg0 # << >> /\ d.key_id # w.seg0[1].datum.key_id THEN "KeyIdMismatch"
  ELSE IF d.segment_index # n THEN "SegmentDiscontinuity"
  ELSE IF n = 0 /\ s[1].prev_hash # ZeroHash THEN "HeaderCorrupt"
  ELSE IF n > 0 /\ w.prev_final # << >> /\ s[1].prev_hash # w.prev_final[1] THEN "SegmentDiscontinuity"
  ELSE "none"

\* Wrong variant of Segment0Trust: there are pins, but the signer is not looked up
\* in them.
Segment0TrustUnpinned(w, h) ==
  LET v == Violation([w EXCEPT !.seg0 = <<h>>], 0,
                     Kinds(<< << w.opts.expect \in LogIds /\ w.opts.expect # h.datum.log_id,
                                 "LogIdMismatch" >> >>)) IN
  IF v.stopped THEN Abandon(v) ELSE [v EXCEPT !.signer_ok = v.opts.pinned # {}]

\* segment0_trust: the expected log id, then the signer against the pins.
Segment0Trust(w, h) ==
  LET v == Violation([w EXCEPT !.seg0 = <<h>>], 0,
                     Kinds(<< << w.opts.expect \in LogIds /\ w.opts.expect # h.datum.log_id,
                                 "LogIdMismatch" >> >>)) IN
  IF v.stopped THEN Abandon(v)
  ELSE IF v.opts.pinned # {} /\ h.datum.key_id \notin v.opts.pinned
  THEN Abandon([v EXCEPT !.violations = Append(@, <<"UntrustedSigner", 0>>), !.stopped = TRUE])
  ELSE [v EXCEPT !.signer_ok = v.opts.pinned # {}]

\* framing_problem: a violation, but behind the attested head only a warning.
FramingProblem(w, n) ==
  Abandon(IF AfterHead(w, n, w.p) THEN [w EXCEPT !.warned = @ \cup {n}]
          ELSE Violation(w, n, <<"TornTail">>))

\* The checks of a record, each with the violation it reports, in order.  Without
\* a valid signature only the first two are made.
Signed(w, c) == c.sig = w.header[1].datum.key_id

\* Nothing follows segment.finalized; R2, R3, R5: signature, body hash, key.
SignatureChecks(w, c) ==
  << << w.finalized, "BadRollover" >>,
     << ~Signed(w, c), "SignatureInvalid" >>,
     << Signed(w, c) /\ c.body = "changed", "SignatureInvalid" >>,
     << Signed(w, c) /\ c.datum.key_id # w.header[1].datum.key_id, "KeyIdMismatch" >> >>

\* R7-R11: chain, trust at this position, structural records, seal, time.
PlaceChecks(w, n, c) ==
  LET d == c.datum
      trust == IF w.signer_ok THEN Accept(w, n, w.p, HashOf(c)) ELSE "ok" IN
  << << <<d.segment_index, d.record_id, c.prev_hash>> # <<n, w.p, w.prev>>, "ChainBreak" >>,
     << trust # "ok", trust >>,
     << d.event \in Structural /\ c.body = "elided", "ElidedStructural" >>,
     << d.event = Finalized /\ c.body = "whole" /\ d.records # w.p, "BadRollover" >>,
     << w.sealed, "SealedLogExtended" >>,
     << w.last_ts # NoTs /\ d.ts_wall < w.last_ts - MaxDrift, "TimestampRegression" >> >>

RecordChecks(w, n, c) ==
  SignatureChecks(w, c) \o (IF Signed(w, c) THEN PlaceChecks(w, n, c) ELSE << >>)

\* One frame of segment n.
WalkRecord(n, w, c) ==
  IF w.over THEN w
  ELSE IF c.kind # "record" THEN FramingProblem(w, n)
  ELSE LET v == Violation([w EXCEPT !.ordinal = @ + 1], n, Kinds(RecordChecks(w, n, c)))
           here == <<n, w.p>> = <<saved.segment, saved.record_id>>
           on == [v EXCEPT !.prev = HashOf(c), !.p = @ + 1, !.finalized = FALSE] IN
       IF v.stopped THEN Abandon(v)
       ELSE IF ~Signed(w, c) THEN on
       ELSE [on EXCEPT
               !.trusted = @ \/ (w.signer_ok /\ Accept(w, n, w.p, HashOf(c)) = "ok"),
               !.finalized = c.datum.event = Finalized,
               !.sealed = @ \/ c.datum.event = Sealed,
               !.last_ts = c.datum.ts_wall,
               !.seen = IF here THEN <<HashOf(c), v.ordinal>> ELSE @,
               !.last = <<[segment |-> n, record |-> w.p, hash |-> HashOf(c),
                           event |-> c.datum.event]>>]

\* The end of a segment that was followed: a last segment with no signed record
\* counts for nothing, and is no successor.
SegmentEnd(w, n, isLast) ==
  LET empty == w.p = 0 /\ n > 0 /\ isLast
      v == [w EXCEPT !.hadRecords = w.p > 0, !.prev_final = <<w.prev>>]
      x == Violation(v, n, <<"SealedLogExtended">>) IN
  IF w.over THEN w
  ELSE IF empty /\ w.sealed THEN Abandon(x)
  ELSE [v EXCEPT !.noSuccessor =
          \/ @
          \/ empty /\ w.last # << >> /\ w.last[1].event = Finalized
          \/ w.finalized /\ isLast]

\* run: continuity of the segment numbers, before a segment is opened.
Continuity(w, n) ==
  LET gap == n # w.expected \/ (n > 0 /\ ~w.hadRecords)
      v == Violation(w, n, IF gap THEN <<"SegmentDiscontinuity">> ELSE << >>) IN
  [v EXCEPT !.expected = n + 1, !.over = FALSE, !.p = 0, !.finalized = FALSE,
            !.prev_final = IF gap THEN << >> ELSE @]

\* The frames of the segment, from the one behind the header on.
WalkRecords(w, n, s) ==
  LET after[m \in 1..Len(s)] ==
        IF m = 1 THEN w ELSE WalkRecord(n, after[m-1], s[m])
  IN  after[Len(s)]

\* segment: header, trust in segment 0, records, end.
WalkSegment(w, n, s, isLast) ==
  LET v == Continuity(w, n)
      refusal == HeaderRefusal(v, s, n)
      x == IF n = 0 THEN Segment0Trust(v, s[1]) ELSE v
      start == [x EXCEPT !.header = <<s[1]>>, !.prev = HashOf(s[1])] IN
  IF v.stopped THEN v
  ELSE IF refusal # "none" THEN Abandon(Violation(v, n, <<refusal>>))
  ELSE IF x.over THEN x
  ELSE SegmentEnd(WalkRecords(start, n, s), n, isLast)

-----------------------------------------------------------------------------
(* After the walk: checkpoints, statement heads, the attested head, verdict. *)

SameLog(w) == saved.log_id = w.seg0[1].datum.log_id
SameKey(w) == saved.key_id = w.seg0[1].datum.key_id

AddViolation(w, kind) == [w EXCEPT !.violations = Append(@, <<kind, saved.segment>>)]

HeadFound(w) == w.seen = <<saved.record_hash, saved.record_count>>

\* position_check, for a checkpoint and for the attested head.
PositionCheck(w) ==
  IF HeadFound(w) THEN w
  ELSE IF w.seen # << >> THEN AddViolation(w, "CheckpointMismatch")
  ELSE IF w.complete \/ w.violations = << >> THEN AddViolation(w, "CheckpointTruncated")
  ELSE w

\* A checkpoint, or a witness of it, whose signature fails or whose signer is
\* not trusted for checkpoints, or that another signer made, is an error.
CheckpointError(w) ==
  /\ saved.kind = "checkpoint"
  /\ w.seg0 # << >>
  /\ \/ w.opts.checkpointSig = "bad"
     \/ /\ w.opts.checkpointSig = "good"
        /\ w.opts.pinned # {}
        /\ saved.key_id \notin w.opts.pinned
     \/ ~SameKey(w)

CheckCheckpoints(w) ==
  IF saved.kind # "checkpoint" \/ w.seg0 = << >> THEN w
  ELSE IF ~SameLog(w) THEN AddViolation(w, "CheckpointForDifferentLog")
  ELSE PositionCheck(w)

\* A head the signer's retirement or revocation names must be in the log; a
\* different record at its place was reported by the walk.
CheckStatementHeads(w) ==
  IF \/ saved.kind # "statement" \/ ~w.signer_ok \/ ~SameKey(w) \/ ~SameLog(w)
     \/ ~w.complete /\ w.violations # << >>
     \/ w.seen # << >> /\ (w.seen[1] # saved.record_hash \/ HeadFound(w))
  THEN w ELSE AddViolation(w, "CheckpointMismatch")

CheckAttested(w) ==
  IF saved.kind # "attested" \/ w.seg0 = << >> THEN w
  ELSE IF ~SameLog(w) \/ ~SameKey(w) THEN AddViolation(w, "CheckpointMismatch")
  ELSE PositionCheck(w)

\* is_last: the checkpoint names the last record of the walk.
AnchorsLast(w) ==
  w.last # << >> /\ w.last[1].hash = saved.record_hash
    /\ <<w.last[1].segment, w.last[1].record>> = <<saved.segment, saved.record_id>>

\* finish: head_anchored and the verdict.
Finish(w) ==
  LET sealed == w.last # << >> /\ w.last[1].event = Sealed
      attested == saved.kind = "attested" /\ HeadFound(w) IN
  [w EXCEPT
     !.pc = "done",
     !.anchored = \/ attested
                  \/ /\ ~w.noSuccessor
                     /\ sealed \/ (saved.kind = "checkpoint" /\ HeadFound(w) /\ AnchorsLast(w)),
     !.verdict = IF w.violations # << >> THEN "Violation"
                 ELSE IF w.trusted THEN "Verified" ELSE "SelfConsistent"]

-----------------------------------------------------------------------------
(* verify_log. *)

VerifyInit ==
  /\ SignedInit
  /\ saved = NoHead
  /\ edited = "none"
  /\ chain = ZeroHash
  /\ walk = Idle

\* The segments are listed; without any there is an error and no report.
VerifyBegin(o) ==
  /\ walk.pc = "idle"
  /\ walk' = IF Listed = {} THEN [Idle EXCEPT !.pc = "done", !.opts = o, !.verdict = "Error"]
             ELSE [Idle EXCEPT !.pc = "walk", !.opts = o, !.todo = Listed]
  /\ UNCHANGED <<signedVars, saved, edited, chain>>

\* The next segment is opened and read.
VerifySegment ==
  /\ walk.pc = "walk"
  /\ ~walk.stopped
  /\ \E n \in walk.todo :
       /\ \A m \in walk.todo : n <= m
       /\ walk' = [WalkSegment(walk, n, file[n], walk.todo = {n}) EXCEPT !.todo = @ \ {n}]
  /\ UNCHANGED <<signedVars, saved, edited, chain>>

\* Wrong variant of VerifyEnd: the saved head is looked for only in a clean walk
\* that stopped early.
VerifyEndNoHeads ==
  /\ walk.pc = "walk"
  /\ walk.todo = {} \/ walk.stopped
  /\ walk' = Finish(walk)
  /\ UNCHANGED <<signedVars, saved, edited, chain>>

VerifyEnd ==
  /\ walk.pc = "walk"
  /\ walk.todo = {} \/ walk.stopped
  /\ LET w == [walk EXCEPT !.complete = ~walk.stopped] IN
     walk' = IF CheckpointError(w) THEN [w EXCEPT !.pc = "done", !.verdict = "Error"]
             ELSE Finish(CheckAttested(CheckStatementHeads(CheckCheckpoints(w))))
  /\ UNCHANGED <<signedVars, saved, edited, chain>>

\* The report has been read.
VerifyReset ==
  /\ walk.pc = "done"
  /\ walk' = Idle
  /\ UNCHANGED <<signedVars, saved, edited, chain>>

-----------------------------------------------------------------------------
(* The commands that verify a log and save its head. *)

\* log_head: the head a report names.
HeadOf(w, kind) ==
  [kind |-> kind, log_id |-> w.seg0[1].datum.log_id, key_id |-> w.seg0[1].datum.key_id,
   segment |-> w.last[1].segment, record_id |-> w.last[1].record,
   record_hash |-> w.last[1].hash, record_count |-> w.ordinal]

\* A checkpoint, key statement or attestation is made about a log the report has
\* no violation for and that has records, and the command ends.  The model saves
\* one head, of a log nobody changed.
SaveHead(kind) ==
  /\ walk.pc = "done"
  /\ walk.verdict \in {"Verified", "SelfConsistent"}
  /\ walk.last # << >>
  /\ saved.kind = "none"
  /\ edited = "none"
  /\ saved' = HeadOf(walk, kind)
  /\ walk' = Idle
  /\ UNCHANGED <<signedVars, edited, chain>>

\* The frames of a segment file up to the first that is not complete.
Frames(s) ==
  LET n == CHOOSE m \in 1..Len(s) :
             /\ \A j \in 2..m : s[j].kind = "record"
             /\ m < Len(s) => s[m + 1].kind # "record" IN
  SubSeq(s, 2, n)

\* visit_records, with which export lists the log after it has verified it: the
\* frames of every segment the directory holds by then, up to a file without a
\* whole header.
VisitRecords ==
  LET upTo == {i \in Listed : \A j \in Listed : j <= i => HasHeader(file[j])}
      list[n \in 0..(MaxIndex + 1)] ==
        IF n = 0 THEN << >>
        ELSE IF n - 1 \in upTo THEN list[n-1] \o Frames(file[n-1]) ELSE list[n-1]
  IN  list[MaxIndex + 1]

\* The writer goes on beside the verifier and the command that called it.
\* Nobody opens a log again that was changed from outside: a bound of the model.
WriterStep ==
  /\ edited = "none"
  /\ SignedNext
  /\ chain' = IF cur'.next_record_id > 0 /\ Len(cur'.last_hash) > Len(chain)
              THEN cur'.last_hash ELSE chain
  /\ UNCHANGED <<saved, edited, walk>>

VerifyNext ==
  \/ WriterStep
  \/ \E kind \in HeadKinds : SaveHead(kind)
  \/ \E kind \in Edits : Edit(kind)
  \/ \E o \in Options : VerifyBegin(o)
  \/ VerifySegment
  \/ VerifyEnd
  \/ VerifyReset

VerifySpec == VerifyInit /\ [][VerifyNext]_vars

-----------------------------------------------------------------------------
(* Properties. *)

Judged(verdicts) == walk.pc = "done" /\ walk.verdict \in verdicts /\ walk.last # << >>

\* The verdict rests on the key the log was written with: no other is pinned.
HonestPins == chain # << >> /\ walk.opts.pinned \subseteq {chain[1].key_id}

\* The record up to which a verification vouches for completeness, and how many
\* records it counted there: the last one walked, or the attested head when bytes
\* that do not frame were passed over on the way from there to the last one.
CompleteTo ==
  IF \E n \in walk.warned : n < walk.last[1].segment
  THEN <<saved.record_hash, saved.record_count>>
  ELSE <<walk.last[1].hash, walk.ordinal>>

\* What verify does not object to is complete up to the record it names as the
\* head, or up to the attested head if it warned of torn bytes behind that one: as
\* many records were walked as that record's hash commits to.  And export, which
\* reads the files a second time, lists all of it, in its place.
VerifiedIsComplete ==
  Judged({"Verified", "SelfConsistent"}) =>
    LET upTo == CompleteTo IN
    /\ upTo[2] = RecordsIn(upTo[1])
    /\ upTo[2] <= Len(VisitRecords)
    /\ HashOf(VisitRecords[upTo[2]]) = upTo[1]

\* "record removed: ChainBreak at the removed record's position; the last record
\* of a segment that has a successor: SegmentDiscontinuity at the successor, whose
\* prev_final no longer links" (docs/spec/v0.2.md): between the records of a log
\* without a violation none is missing.
RemovedIsReported ==
  Judged({"Verified", "SelfConsistent"}) => walk.ordinal = RecordsIn(walk.last[1].hash)

\* What verify calls Verified is a history the pinned signer wrote, whatever was
\* changed in the files and however far the writer got meanwhile.
VerifiedIsWritten ==
  Judged({"Verified"}) /\ HonestPins => IsPrefixOf(walk.last[1].hash, chain)

\* A verified log that ends in log.sealed was not cut short: that record is the
\* last one its writer wrote.
SealedIsWhole ==
  Judged({"Verified"}) /\ HonestPins /\ walk.last[1].event = Sealed => walk.last[1].hash = chain

\* A saved head holds in every verified log: the record a checkpoint or an
\* attestation names is still in it, and a retired or revoked key's log ends
\* exactly at the head its statement names.
SavedHeadHolds ==
  Judged({"Verified"}) /\ HonestPins /\ saved.kind # "none" =>
    /\ IsPrefixOf(saved.record_hash, walk.last[1].hash)
    /\ saved.kind = "statement" => walk.last[1].hash = saved.record_hash

\* What only a change from outside can cause.
TamperKinds ==
  {"SignatureInvalid", "KeyIdMismatch", "ChainBreak", "SegmentDiscontinuity", "BadRollover",
   "ElidedStructural", "SealedLogExtended", "CheckpointMismatch", "CheckpointTruncated",
   "CheckpointForDifferentLog"}

\* A log nobody tampered with is not called tampered with, although its writer
\* was killed, reopened it, or rolls over while it is read.  The last index is
\* the exception: a rollover there finalizes the segment and cannot go on.
NoFalseTampering ==
  edited = "none" =>
    \A n \in 1..Len(walk.violations) :
      walk.violations[n][1] \in TamperKinds => walk.violations[n] = <<"BadRollover", MaxIndex>>

\* The type invariant of the verifier; a report has a verdict.
VerifyTypeOK ==
  /\ saved.kind \in HeadKinds \cup {"none"}
  /\ edited \in Edits \cup {"none"}
  /\ chain \in Hash
  /\ walk.pc \in {"idle", "walk", "done"}
  /\ walk.verdict \in {"none", "Error", "Violation", "Verified", "SelfConsistent"}
  /\ walk.pc = "done" => walk.verdict # "none"
  /\ DOMAIN walk = DOMAIN Idle
=============================================================================
